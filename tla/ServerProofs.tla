---------------------------- MODULE ServerProofs ----------------------------
(***************************************************************************)
(* Proofs about the DNS server (Server), for any number of connections and *)
(* queries and any buffers: type correctness, that the queries of a        *)
(* connection are answered in turn, and that every parsed query is counted *)
(* once.                                                                   *)
(***************************************************************************)
EXTENDS Server, SequenceTheorems, FiniteSetTheorems, TLAPS

-----------------------------------------------------------------------------
(* The connections whose loop awaits the resolver.                         *)
Busy == {c \in Conn : current[c] # Nothing}

(* There is room for a response when the loop comes to write one.          *)
Roomy ==
    \A c \in Conn :
        link[c] \in {"new", "open"} /\ ~draining[c] => Len(outbox[c]) < HighWater

(* No serial number is used twice: what has been parsed is not in a        *)
(* connection any more, and what is there is there once.                   *)
Arrived(q) == \A p \in parsed : p.serial # q.serial

Alone(c, i) ==
    \A d \in Conn : \A j \in 1 .. Len(inbox[d]) :
        inbox[d][j].serial = inbox[c][i].serial => d = c /\ j = i

Fresh ==
    /\ \A q \in parsed : q.serial <= asked
    /\ \A c \in Conn : \A i \in 1 .. Len(inbox[c]) :
          /\ inbox[c][i].serial <= asked
          /\ Arrived(inbox[c][i])
          /\ Alone(c, i)

(* What a connection has written, and what it owes.                        *)
InTurn(c) ==
    /\ Len(written[c]) <= Len(taken[c])
    /\ \A i \in 1 .. Len(written[c]) : written[c][i] = taken[c][i].serial
    /\ current[c] # Nothing =>
          /\ Len(taken[c]) = Len(written[c]) + 1
          /\ taken[c][Len(taken[c])] = current[c]
    /\ Len(taken[c]) <= Len(written[c]) + 1
    /\ current[c] = Nothing /\ link[c] \in {"new", "open", "closed"} =>
          Len(taken[c]) = Len(written[c])

Finite == IsFiniteSet(tasks) /\ IsFiniteSet(parsed) /\ IsFiniteSet(Busy)

IInv ==
    /\ TypeOK
    /\ Roomy
    /\ Fresh
    /\ \A c \in Conn : InTurn(c)
    /\ Finite
    /\ EveryQueryCounted

-----------------------------------------------------------------------------
(* Types.                                                                  *)

(* The query that arrives is one of the bound.                             *)
LEMMA NewQuery ==
  ASSUME TypeOK, Ask, NEW form \in Form
  PROVE  New(form) \in Query
BY ServerConstants DEF TypeOK, Ask, New, Query

(* Init is well typed, and buffers are empty.                              *)
LEMMA TypeInit == Init => TypeOK /\ Roomy
BY ServerConstants, EmptySeq DEF Init, TypeOK, Roomy

(* A client that sends.                                                    *)
LEMMA TypeSend ==
  ASSUME TypeOK, Roomy, NEW c \in Conn, NEW form \in Form, Send(c, form)
  PROVE  TypeOK' /\ Roomy'
<1>1. New(form) \in Query
  BY NewQuery DEF Send
<1>2. Append(inbox[c], New(form)) \in Seq(Query)
  BY <1>1, AppendProperties DEF TypeOK
<1>3. inbox' \in [Conn -> Seq(Query)]
  BY <1>2 DEF TypeOK, Send
<1>4. asked' \in 0 .. MaxQueries
  BY ServerConstants DEF TypeOK, Send, Ask
<1> QED
  BY <1>3, <1>4 DEF TypeOK, Roomy, Send, udpVars

(* A client that reads a response makes room.                              *)
LEMMA TypeCollect ==
  ASSUME TypeOK, Roomy, NEW c \in Conn, Collect(c)
  PROVE  TypeOK' /\ Roomy'
<1>1. /\ Tail(outbox[c]) \in Seq(1 .. MaxQueries)
      /\ Len(Tail(outbox[c])) = Len(outbox[c]) - 1
      /\ Len(outbox[c]) \in Nat
  BY HeadTailProperties, LenProperties DEF TypeOK, Collect
<1>2. outbox' = [outbox EXCEPT ![c] = Tail(outbox[c])]
  BY DEF Collect
<1>3. /\ outbox' \in [Conn -> Seq(1 .. MaxQueries)]
      /\ \A d \in Conn : Len(outbox'[d]) <= Len(outbox[d])
  BY <1>1, <1>2, LenProperties DEF TypeOK
<1>4. \A d \in Conn : Len(outbox'[d]) \in Nat /\ Len(outbox[d]) \in Nat
  BY <1>3, LenProperties DEF TypeOK
<1>5. Roomy'
  BY <1>3, <1>4, ServerConstants DEF Roomy, Collect
<1>6. \A d \in Conn : Len(outbox'[d]) <= HighWater
  BY <1>3, <1>4, ServerConstants DEF TypeOK
<1> QED
  BY <1>3, <1>5, <1>6 DEF TypeOK, Collect, udpVars

(* The loop reads a query, and may resolve it.                             *)
LEMMA TypeRead ==
  ASSUME TypeOK, Roomy, NEW c \in Conn, Read(c)
  PROVE  TypeOK' /\ Roomy'
<1>1. /\ Head(inbox[c]) \in Query
      /\ Tail(inbox[c]) \in Seq(Query)
  BY HeadTailProperties DEF TypeOK, Read, Ready
<1>2. inbox' \in [Conn -> Seq(Query)]
  BY <1>1 DEF TypeOK, Read
<1>3. Append(taken[c], Head(inbox[c])) \in Seq(Query)
  BY <1>1, AppendProperties DEF TypeOK
<1>4. taken' \in [Conn -> Seq(Query)]
  BY <1>3 DEF TypeOK, Read
<1>5. /\ current' \in [Conn -> Query \cup {Nothing}]
      /\ parsed' \subseteq Query /\ tasks' \subseteq parsed'
  BY <1>1 DEF TypeOK, Read, udpVars
<1>6. \A d \in Conn : current'[d] # Nothing => ~draining'[d] /\ link'[d] \in {"open", "reset"}
  BY DEF TypeOK, Read, Ready, Reading
<1> QED
  BY <1>2, <1>4, <1>5, <1>6 DEF TypeOK, Roomy, Read, udpVars

(* The resolver is done: written, within the buffer, or lost.              *)
LEMMA TypeDone ==
  ASSUME TypeOK, Roomy, NEW c \in Conn, NEW outcome \in Outcome, TcpDone(c, outcome)
  PROVE  TypeOK' /\ Roomy'
<1>1. /\ current[c] \in Query /\ current[c].serial \in 1 .. MaxQueries
      /\ ~draining[c]
  BY DEF TypeOK, TcpDone, Query
<1>2. /\ Append(outbox[c], current[c].serial) \in Seq(1 .. MaxQueries)
      /\ Len(Append(outbox[c], current[c].serial)) = Len(outbox[c]) + 1
      /\ Append(written[c], current[c].serial) \in Seq(1 .. MaxQueries)
      /\ Len(outbox[c]) \in Nat
  BY <1>1, AppendProperties, LenProperties DEF TypeOK
<1>3. current' \in [Conn -> Query \cup {Nothing}] /\ counted' \in Nat
  BY DEF TypeOK, TcpDone, Report
<1>4. CASE TcpDoneLost(c, outcome)
  <2>1. /\ link' \in [Conn -> {"new", "open", "reset", "failed", "closed"}]
        /\ draining' \in [Conn -> BOOLEAN]
        /\ inbox' \in [Conn -> Seq(Query)]
    BY <1>4, EmptySeq DEF TypeOK, TcpDoneLost, Leave
  <2>2. \A d \in Conn : current'[d] # Nothing => ~draining'[d] /\ link'[d] \in {"open", "reset"}
    BY <1>4 DEF TypeOK, TcpDone, TcpDoneLost, Leave
  <2>3. Roomy'
    BY <1>4 DEF TypeOK, Roomy, TcpDoneLost, Leave
  <2> QED
    BY <1>3, <1>4, <2>1, <2>2, <2>3 DEF TypeOK, TcpDone, TcpDoneLost, udpVars
<1>5. CASE TcpDoneWritten(c, outcome)
  <2>1. /\ outbox' = [outbox EXCEPT ![c] = Append(outbox[c], current[c].serial)]
        /\ written' = [written EXCEPT ![c] = Append(written[c], current[c].serial)]
        /\ draining' = [draining EXCEPT ![c] = Len(outbox'[c]) >= HighWater]
        /\ link[c] = "open" /\ UNCHANGED <<link, inbox>>
    BY <1>5 DEF TcpDoneWritten
  <2>2. /\ outbox' \in [Conn -> Seq(1 .. MaxQueries)]
        /\ written' \in [Conn -> Seq(1 .. MaxQueries)]
    BY <1>2, <2>1 DEF TypeOK
  <2>3. Len(outbox[c]) < HighWater
    BY <1>1, <2>1 DEF Roomy
  <2>4. \A d \in Conn : outbox'[d] = IF d = c THEN Append(outbox[c], current[c].serial)
                                     ELSE outbox[d]
    BY <2>1 DEF TypeOK
  <2>5. \A d \in Conn : Len(outbox'[d]) <= HighWater
    <3>1. Len(outbox'[c]) <= HighWater
      <4>1. Len(outbox'[c]) = Len(outbox[c]) + 1
        BY <1>2, <2>4
      <4> QED
        BY <1>2, <2>3, <4>1, ServerConstants
    <3> QED
      BY <2>4, <3>1 DEF TypeOK
  <2>6. draining' \in [Conn -> BOOLEAN]
    BY <2>1 DEF TypeOK
  <2>7. Len(outbox'[c]) \in Nat /\ HighWater \in Nat
    BY <2>2, LenProperties, ServerConstants
  <2>8. ~draining'[c] => Len(outbox'[c]) < HighWater
    <3>1. Len(outbox'[c]) >= HighWater => draining'[c]
      BY <2>1 DEF TypeOK
    <3> QED
      BY <2>7, <3>1
  <2>9. \A d \in Conn : d # c => draining'[d] = draining[d] /\ outbox'[d] = outbox[d]
    BY <2>1, <2>4 DEF TypeOK
  <2>10. Roomy'
    BY <2>1, <2>8, <2>9 DEF Roomy
  <2>11. \A d \in Conn : current'[d] # Nothing => ~draining'[d] /\ link'[d] \in {"open", "reset"}
    BY <2>1, <2>9 DEF TypeOK, TcpDone
  <2> QED
    BY <1>3, <2>1, <2>2, <2>5, <2>6, <2>10, <2>11 DEF TypeOK, TcpDone, udpVars
<1> QED
  BY <1>4, <1>5 DEF TcpDone

(* Every step keeps the types and the room for a response.                 *)
LEMMA TypeStep == TypeOK /\ Roomy /\ [Next]_vars => TypeOK' /\ Roomy'
<1> SUFFICES ASSUME TypeOK, Roomy, [Next]_vars
             PROVE  TypeOK' /\ Roomy'
  OBVIOUS
<1>1. CASE UNCHANGED vars
  BY <1>1 DEF TypeOK, Roomy, vars
<1>2. CASE Start
  BY <1>2 DEF TypeOK, Roomy, Start, udpVars, tcpVars
<1>3. ASSUME NEW form \in Form, DatagramReceived(form)
      PROVE  TypeOK' /\ Roomy'
  <2>1. New(form) \in Query
    BY <1>3, NewQuery DEF DatagramReceived
  <2>2. asked' \in 0 .. MaxQueries
    BY <1>3, ServerConstants DEF TypeOK, DatagramReceived, Ask
  <2>3. parsed' \subseteq Query /\ tasks' \subseteq parsed'
    BY <1>3, <2>1 DEF TypeOK, DatagramReceived
  <2> QED
    BY <1>3, <2>2, <2>3 DEF TypeOK, Roomy, DatagramReceived, tcpVars
<1>4. ASSUME NEW q \in tasks, NEW outcome \in Outcome, UdpDone(q, outcome)
      PROVE  TypeOK' /\ Roomy'
  <2>1. q.serial \in 1 .. MaxQueries
    BY DEF TypeOK, Query
  <2>2. [serial |-> q.serial, tc |-> outcome \in {"long", "huge"}]
           \in [serial : 1 .. MaxQueries, tc : BOOLEAN]
    <3>1. (outcome \in {"long", "huge"}) \in BOOLEAN
      OBVIOUS
    <3> QED
      BY <2>1, <3>1
  <2>3. Datagrams(q, outcome) \subseteq [serial : 1 .. MaxQueries, tc : BOOLEAN]
    BY <2>2, Zenon DEF Datagrams
  <2>4. failures' \subseteq parsed'
    BY <1>4 DEF TypeOK, UdpDone, Fail
  <2> QED
    BY <1>4, <2>3, <2>4 DEF TypeOK, Roomy, UdpDone, Report, tcpVars
<1>5. ASSUME NEW c \in Conn, Connect(c)
      PROVE  TypeOK' /\ Roomy'
  BY <1>5 DEF TypeOK, Roomy, Connect, udpVars
<1>6. ASSUME NEW c \in Conn, Finish(c)
      PROVE  TypeOK' /\ Roomy'
  BY <1>6 DEF TypeOK, Roomy, Finish, udpVars
<1>7. ASSUME NEW c \in Conn, Reset(c)
      PROVE  TypeOK' /\ Roomy'
  BY <1>7, EmptySeq, ServerConstants DEF TypeOK, Roomy, Reset, udpVars
<1>8. ASSUME NEW c \in Conn, Drained(c)
      PROVE  TypeOK' /\ Roomy'
  BY <1>8 DEF TypeOK, Roomy, Drained, udpVars
<1>9. ASSUME NEW c \in Conn, Hangup(c)
      PROVE  TypeOK' /\ Roomy'
  <2>1. \E why \in {"closed", "failed"} : Leave(c, why) /\ current[c] = Nothing
    BY <1>9 DEF Hangup, AtEof, Reading
  <2>2. PICK why \in {"closed", "failed"} : Leave(c, why) /\ current[c] = Nothing
    BY <2>1
  <2>3. /\ link' = [link EXCEPT ![c] = why]
        /\ inbox' = [inbox EXCEPT ![c] = <<>>]
        /\ draining' = [draining EXCEPT ![c] = FALSE]
        /\ UNCHANGED <<listening, asked, counted, parsed, ended, current, outbox, taken,
                       written, tasks, datagrams, failures>>
    BY <1>9, <2>2 DEF Hangup, Leave, udpVars
  <2>4. /\ link' \in [Conn -> {"new", "open", "reset", "failed", "closed"}]
        /\ inbox' \in [Conn -> Seq(Query)] /\ draining' \in [Conn -> BOOLEAN]
    BY <2>3, EmptySeq DEF TypeOK
  <2>5. Roomy'
    BY <2>3 DEF TypeOK, Roomy
  <2> QED
    BY <2>2, <2>3, <2>4, <2>5 DEF TypeOK
<1> QED
  BY <1>1, <1>2, <1>3, <1>4, <1>5, <1>6, <1>7, <1>8, <1>9, TypeSend, TypeCollect,
     TypeRead, TypeDone DEF Next, HandleTcp, Quiesced

-----------------------------------------------------------------------------
(* Serial numbers.                                                         *)

(* Nothing has arrived.                                                    *)
LEMMA FreshInit == Init => Fresh
BY EmptySeq DEF Init, Fresh

(* What waits on a connection has a number.                                *)
LEMMA SerialsAreNumbers ==
  ASSUME TypeOK
  PROVE  \A d \in Conn : \A i \in 1 .. Len(inbox[d]) : inbox[d][i].serial \in Nat
<1> SUFFICES ASSUME NEW d \in Conn, NEW i \in 1 .. Len(inbox[d])
             PROVE  inbox[d][i].serial \in Nat
  OBVIOUS
<1>1. inbox[d] \in Seq(Query)
  BY DEF TypeOK
<1>2. inbox[d][i] \in Query
  BY <1>1, ElementOfSeq
<1> QED
  BY <1>2 DEF Query

(* An action that takes queries out of connections, and parses none.       *)
LEMMA FreshFewer ==
  ASSUME TypeOK, Fresh, UNCHANGED <<asked, parsed>>,
         \A c \in Conn : inbox'[c] = inbox[c] \/ inbox'[c] = <<>>
  PROVE  Fresh'
<1>1. \A c \in Conn : \A i \in 1 .. Len(inbox'[c]) :
          i \in 1 .. Len(inbox[c]) /\ inbox'[c][i] = inbox[c][i]
  BY EmptySeq
<1> QED
  BY <1>1 DEF Fresh, Arrived, Alone

(* A new query has a number of its own.                                    *)
LEMMA FreshSend ==
  ASSUME TypeOK, Fresh, NEW c \in Conn, NEW form \in Form, Send(c, form)
  PROVE  Fresh'
<1>1. /\ New(form) \in Query /\ New(form).serial = asked + 1
      /\ asked \in Nat /\ asked' = asked + 1 /\ parsed' = parsed
  BY NewQuery, ServerConstants, SMTT(40) DEF Send, Ask, New, TypeOK
<1>2. /\ inbox' = [inbox EXCEPT ![c] = Append(inbox[c], New(form))]
      /\ inbox[c] \in Seq(Query)
  BY DEF TypeOK, Send
<1>3. /\ Len(Append(inbox[c], New(form))) = Len(inbox[c]) + 1
      /\ \A i \in 1 .. Len(inbox[c]) : Append(inbox[c], New(form))[i] = inbox[c][i]
      /\ Append(inbox[c], New(form))[Len(inbox[c]) + 1] = New(form)
      /\ Len(inbox[c]) \in Nat
  BY <1>1, <1>2, AppendProperties, LenProperties
<1>4. \A d \in Conn : \A i \in 1 .. Len(inbox'[d]) :
          \/ i \in 1 .. Len(inbox[d]) /\ inbox'[d][i] = inbox[d][i]
          \/ d = c /\ i = Len(inbox[c]) + 1 /\ inbox'[d][i].serial = asked + 1
  BY <1>1, <1>2, <1>3 DEF TypeOK
<1>5. \A d \in Conn : \A i \in 1 .. Len(inbox[d]) :
          inbox[d][i].serial \in Nat /\ inbox[d][i].serial <= asked
  BY SerialsAreNumbers DEF Fresh
<1>6. \A q \in parsed : q.serial \in Nat /\ q.serial <= asked
  BY DEF TypeOK, Fresh, Query
<1>7. \A q \in parsed' : q.serial <= asked'
  BY <1>1, <1>6
<1>8. ASSUME NEW d \in Conn, NEW i \in 1 .. Len(inbox'[d])
      PROVE  /\ inbox'[d][i].serial <= asked'
             /\ \A p \in parsed' : p.serial # inbox'[d][i].serial
             /\ \A e \in Conn : \A j \in 1 .. Len(inbox'[e]) :
                   inbox'[e][j].serial = inbox'[d][i].serial => e = d /\ j = i
  <2>1. inbox'[d][i].serial <= asked'
    BY <1>1, <1>4, <1>5
  <2>2. \A p \in parsed' : p.serial # inbox'[d][i].serial
    BY <1>1, <1>4, <1>6 DEF Fresh, Arrived
  <2>3. ASSUME NEW e \in Conn, NEW j \in 1 .. Len(inbox'[e]),
               inbox'[e][j].serial = inbox'[d][i].serial
        PROVE  e = d /\ j = i
    <3>1. CASE i \in 1 .. Len(inbox[d]) /\ inbox'[d][i] = inbox[d][i]
      <4>1. inbox'[e][j].serial # asked + 1
        BY <1>1, <1>5, <2>3, <3>1
      <4>2. j \in 1 .. Len(inbox[e]) /\ inbox'[e][j] = inbox[e][j]
        BY <1>4, <4>1
      <4> QED
        BY <2>3, <3>1, <4>2 DEF Fresh, Alone
    <3>2. CASE d = c /\ i = Len(inbox[c]) + 1 /\ inbox'[d][i].serial = asked + 1
      <4>1. ~(j \in 1 .. Len(inbox[e]) /\ inbox'[e][j] = inbox[e][j])
        BY <1>1, <1>5, <2>3, <3>2
      <4>2. e = c /\ j = Len(inbox[c]) + 1
        BY <1>4, <4>1
      <4> QED
        BY <3>2, <4>2
    <3> QED
      BY <1>4, <3>1, <3>2
  <2> QED
    BY <2>1, <2>2, <2>3
<1> QED
  BY <1>7, <1>8 DEF Fresh, Arrived, Alone

(* What is read leaves the connection and may become parsed.               *)
LEMMA FreshRead ==
  ASSUME TypeOK, Fresh, NEW c \in Conn, Read(c)
  PROVE  Fresh'
<1>1. /\ inbox' = [inbox EXCEPT ![c] = Tail(inbox[c])] /\ asked' = asked
      /\ inbox[c] \in Seq(Query) /\ inbox[c] # <<>>
      /\ parsed' \subseteq parsed \cup {inbox[c][1]}
  BY DEF TypeOK, Read, Ready
<1>2. /\ Len(inbox[c]) \in Nat \ {0}
      /\ Len(Tail(inbox[c])) = Len(inbox[c]) - 1
      /\ \A i \in 1 .. Len(Tail(inbox[c])) : Tail(inbox[c])[i] = inbox[c][i + 1]
  BY <1>1, HeadTailProperties, EmptySeq
<1> DEFINE was(d, i) == IF d = c THEN i + 1 ELSE i
<1>3. ASSUME NEW d \in Conn, NEW i \in 1 .. Len(inbox'[d])
      PROVE  /\ was(d, i) \in 1 .. Len(inbox[d])
             /\ inbox'[d][i] = inbox[d][was(d, i)]
             /\ d = c => was(d, i) # 1
  <2>1. CASE d = c
    <3>1. inbox'[d] = Tail(inbox[c])
      BY <1>1, <2>1 DEF TypeOK
    <3>2. i \in 1 .. Len(inbox[c]) - 1
      BY <1>2, <3>1
    <3> QED
      BY <1>2, <2>1, <3>1, <3>2
  <2>2. CASE d # c
    <3>1. inbox'[d] = inbox[d]
      BY <1>1, <2>2 DEF TypeOK
    <3> QED
      BY <2>2, <3>1
  <2> QED
    BY <2>1, <2>2
<1>4. 1 \in 1 .. Len(inbox[c])
  BY <1>2
<1>5. \A q \in parsed' : q.serial <= asked'
  BY <1>1, <1>4 DEF Fresh
<1>6. ASSUME NEW d \in Conn, NEW i \in 1 .. Len(inbox'[d])
      PROVE  /\ inbox'[d][i].serial <= asked'
             /\ \A p \in parsed' : p.serial # inbox'[d][i].serial
             /\ \A e \in Conn : \A j \in 1 .. Len(inbox'[e]) :
                   inbox'[e][j].serial = inbox'[d][i].serial => e = d /\ j = i
  <2>1. inbox'[d][i].serial <= asked'
    BY <1>1, <1>3 DEF Fresh
  <2>2. inbox[c][1].serial # inbox'[d][i].serial
    BY <1>3, <1>4 DEF Fresh, Alone
  <2>3. \A p \in parsed' : p.serial # inbox'[d][i].serial
    <3>1. \A p \in parsed : p.serial # inbox[d][was(d, i)].serial
      BY <1>3 DEF Fresh, Arrived
    <3> QED
      BY <1>1, <1>3, <2>2, <3>1
  <2>4. ASSUME NEW e \in Conn, NEW j \in 1 .. Len(inbox'[e]),
               inbox'[e][j].serial = inbox'[d][i].serial
        PROVE  e = d /\ j = i
    <3>1. /\ was(e, j) \in 1 .. Len(inbox[e]) /\ was(d, i) \in 1 .. Len(inbox[d])
          /\ inbox[e][was(e, j)].serial = inbox[d][was(d, i)].serial
      BY <1>3, <2>4
    <3>2. e = d /\ was(e, j) = was(d, i)
      BY <3>1 DEF Fresh, Alone
    <3> QED
      BY <3>2
  <2> QED
    BY <2>1, <2>3, <2>4
<1> QED
  BY <1>5, <1>6 DEF Fresh, Arrived, Alone

(* A datagram is parsed at once.                                           *)
LEMMA FreshDatagram ==
  ASSUME TypeOK, Fresh, NEW form \in Form, DatagramReceived(form)
  PROVE  Fresh'
<1>1. /\ New(form).serial = asked + 1 /\ asked \in Nat /\ asked' = asked + 1
      /\ parsed' \subseteq parsed \cup {New(form)} /\ inbox' = inbox
  BY ServerConstants DEF DatagramReceived, Ask, New, TypeOK, tcpVars
<1>2. \A d \in Conn : \A i \in 1 .. Len(inbox[d]) :
          inbox[d][i].serial \in Nat /\ inbox[d][i].serial <= asked
  BY SerialsAreNumbers DEF Fresh
<1>3. \A q \in parsed : q.serial \in Nat /\ q.serial <= asked
  BY DEF TypeOK, Fresh, Query
<1>4. \A q \in parsed' : q.serial <= asked'
  BY <1>1, <1>3
<1>5. ASSUME NEW d \in Conn, NEW i \in 1 .. Len(inbox[d])
      PROVE  /\ inbox[d][i].serial <= asked'
             /\ \A p \in parsed' : p.serial # inbox[d][i].serial
  BY <1>1, <1>2 DEF Fresh, Arrived
<1> QED
  BY <1>1, <1>4, <1>5 DEF Fresh, Arrived, Alone

(* No step uses a number twice.                                            *)
LEMMA FreshStep == TypeOK /\ Fresh /\ [Next]_vars => Fresh'
<1> SUFFICES ASSUME TypeOK, Fresh, [Next]_vars
             PROVE  Fresh'
  OBVIOUS
<1>1. CASE UNCHANGED vars \/ Start
  BY <1>1, FreshFewer DEF vars, Start, tcpVars
<1>2. ASSUME NEW q \in tasks, NEW outcome \in Outcome, UdpDone(q, outcome)
      PROVE  Fresh'
  BY <1>2, FreshFewer DEF UdpDone, tcpVars
<1>3. ASSUME NEW c \in Conn, Connect(c) \/ Collect(c) \/ Finish(c) \/ Drained(c)
      PROVE  Fresh'
  BY <1>3, FreshFewer DEF Connect, Collect, Finish, Drained
<1>4. ASSUME NEW c \in Conn, Reset(c)
      PROVE  Fresh'
  BY <1>4, FreshFewer DEF TypeOK, Reset
<1>5. ASSUME NEW c \in Conn, Hangup(c)
      PROVE  Fresh'
  BY <1>5, FreshFewer DEF TypeOK, Hangup, Leave
<1>6. ASSUME NEW c \in Conn, NEW outcome \in Outcome, TcpDone(c, outcome)
      PROVE  Fresh'
  BY <1>6, FreshFewer DEF TypeOK, TcpDone, TcpDoneLost, TcpDoneWritten, Leave
<1> QED
  BY <1>1, <1>2, <1>3, <1>4, <1>5, <1>6, FreshSend, FreshRead, FreshDatagram
  DEF Next, HandleTcp, Quiesced

-----------------------------------------------------------------------------
(* Order on a connection.                                                  *)

Turns == \A c \in Conn : InTurn(c)

(* No connection owes anything.                                            *)
LEMMA TurnsInit == Init => Turns
BY EmptySeq DEF Init, Turns, InTurn

(* A connection on which nothing is read or written.                       *)
LEMMA TurnSame ==
  ASSUME NEW c \in Conn, InTurn(c),
         current'[c] = current[c], taken'[c] = taken[c], written'[c] = written[c],
         \/ link'[c] \notin {"new", "open", "closed"}
         \/ link[c] \in {"new", "open", "closed"}
  PROVE  InTurn(c)'
BY DEF InTurn

(* A connection that owes nothing takes the next query.                    *)
LEMMA TurnRead ==
  ASSUME TypeOK, NEW c \in Conn, InTurn(c), Read(c)
  PROVE  InTurn(c)'
<1>1. /\ link[c] = "open" /\ current[c] = Nothing /\ written' = written
      /\ Head(inbox[c]) \in Query /\ link' = link
      /\ taken[c] \in Seq(Query) /\ written[c] \in Seq(1 .. MaxQueries)
  BY HeadTailProperties DEF TypeOK, Read, Ready, Reading
<1>2. CASE Head(inbox[c]).form = "garbage"
  BY <1>1, <1>2, TurnSame DEF Read
<1>3. CASE Head(inbox[c]).form # "garbage"
  <2>1. /\ current'[c] = Head(inbox[c])
        /\ taken'[c] = Append(taken[c], Head(inbox[c]))
    BY <1>3 DEF TypeOK, Read
  <2>2. /\ Len(taken'[c]) = Len(taken[c]) + 1
        /\ \A i \in 1 .. Len(taken[c]) : taken'[c][i] = taken[c][i]
        /\ taken'[c][Len(taken[c]) + 1] = Head(inbox[c])
        /\ Len(taken[c]) \in Nat
    BY <1>1, <2>1, AppendProperties, LenProperties
  <2>3. Len(taken[c]) = Len(written[c])
    BY <1>1 DEF InTurn
  <2>4. \A i \in 1 .. Len(written'[c]) : written'[c][i] = taken'[c][i].serial
    BY <1>1, <2>2, <2>3 DEF InTurn
  <2>5. /\ Len(taken'[c]) = Len(written'[c]) + 1
        /\ taken'[c][Len(taken'[c])] = current'[c]
        /\ Len(written'[c]) <= Len(taken'[c])
    BY <1>1, <2>1, <2>2, <2>3
  <2>6. current'[c] # Nothing
    BY <1>1, <2>1, ServerConstants
  <2> QED
    BY <2>4, <2>5, <2>6 DEF InTurn
<1> QED
  BY <1>2, <1>3

(* What was owed is written, or the connection has failed.                 *)
LEMMA TurnDone ==
  ASSUME TypeOK, NEW c \in Conn, NEW outcome \in Outcome, InTurn(c), TcpDone(c, outcome)
  PROVE  InTurn(c)'
<1>1. /\ current[c] \in Query /\ current[c] # Nothing /\ current'[c] = Nothing
      /\ current[c].serial \in 1 .. MaxQueries
      /\ taken' = taken
      /\ taken[c] \in Seq(Query) /\ written[c] \in Seq(1 .. MaxQueries)
  BY DEF TypeOK, TcpDone, Query
<1>2. /\ Len(taken[c]) = Len(written[c]) + 1
      /\ taken[c][Len(taken[c])] = current[c]
      /\ \A i \in 1 .. Len(written[c]) : written[c][i] = taken[c][i].serial
      /\ Len(written[c]) \in Nat
  BY <1>1, LenProperties DEF InTurn
<1>3. CASE TcpDoneLost(c, outcome)
  <2>1. link'[c] = "failed" /\ written' = written
    BY <1>3 DEF TypeOK, TcpDoneLost, Leave
  <2> QED
    BY <1>1, <1>2, <2>1 DEF InTurn
<1>4. CASE TcpDoneWritten(c, outcome)
  <2>1. written'[c] = Append(written[c], current[c].serial)
    BY <1>4 DEF TypeOK, TcpDoneWritten
  <2>2. /\ Len(written'[c]) = Len(written[c]) + 1
        /\ \A i \in 1 .. Len(written[c]) : written'[c][i] = written[c][i]
        /\ written'[c][Len(written[c]) + 1] = current[c].serial
    BY <1>1, <2>1, AppendProperties
  <2>3. Len(written'[c]) = Len(taken'[c])
    BY <1>1, <1>2, <2>2
  <2>4. ASSUME NEW i \in 1 .. Len(written'[c])
        PROVE  written'[c][i] = taken'[c][i].serial
    <3>1. i \in 1 .. Len(written[c]) \/ i = Len(written[c]) + 1
      BY <1>2, <2>2
    <3> QED
      BY <1>1, <1>2, <2>2, <3>1
  <2>5. Len(taken'[c]) \in Nat
    BY <1>1, LenProperties
  <2> QED
    BY <1>1, <2>3, <2>4, <2>5 DEF InTurn
<1> QED
  BY <1>3, <1>4 DEF TcpDone

(* Every step keeps every connection in turn.                              *)
LEMMA TurnsStep == TypeOK /\ Turns /\ [Next]_vars => Turns'
<1> SUFFICES ASSUME TypeOK, Turns, [Next]_vars, NEW c \in Conn
             PROVE  InTurn(c)'
  BY DEF Turns
<1>1. InTurn(c)
  BY DEF Turns
<1>2. CASE UNCHANGED vars \/ Start
  BY <1>1, <1>2, TurnSame DEF vars, Start, tcpVars, InTurn
<1>3. ASSUME NEW form \in Form, DatagramReceived(form)
      PROVE  InTurn(c)'
  BY <1>1, <1>3 DEF DatagramReceived, tcpVars, InTurn
<1>4. ASSUME NEW q \in tasks, NEW outcome \in Outcome, UdpDone(q, outcome)
      PROVE  InTurn(c)'
  BY <1>1, <1>4 DEF UdpDone, tcpVars, InTurn
<1>5. ASSUME NEW d \in Conn, Connect(d) \/ Collect(d) \/ Finish(d) \/ Drained(d) \/ Reset(d)
      PROVE  InTurn(c)'
  <2>1. /\ current' = current /\ taken' = taken /\ written' = written
        /\ \/ link'[c] \notin {"new", "open", "closed"}
           \/ link[c] \in {"new", "open", "closed"}
    BY <1>5 DEF TypeOK, Connect, Collect, Finish, Drained, Reset
  <2> QED
    BY <1>1, <2>1, TurnSame
<1>6. ASSUME NEW d \in Conn, NEW form \in Form, Send(d, form)
      PROVE  InTurn(c)'
  BY <1>1, <1>6 DEF Send, InTurn
<1>7. ASSUME NEW d \in Conn, Hangup(d)
      PROVE  InTurn(c)'
  <2>1. /\ current' = current /\ taken' = taken /\ written' = written
        /\ \/ link'[c] \notin {"new", "open", "closed"}
           \/ link[c] \in {"new", "open", "closed"}
    BY <1>7 DEF TypeOK, Hangup, AtEof, Leave
  <2> QED
    BY <1>1, <2>1, TurnSame
<1>8. ASSUME NEW d \in Conn, NEW outcome \in Outcome, d # c,
             Read(d) \/ TcpDone(d, outcome)
      PROVE  InTurn(c)'
  <2>1. /\ current'[c] = current[c] /\ taken'[c] = taken[c] /\ written'[c] = written[c]
        /\ link'[c] = link[c]
    BY <1>8 DEF TypeOK, Read, TcpDone, TcpDoneLost, TcpDoneWritten, Leave
  <2> QED
    BY <1>1, <2>1 DEF InTurn
<1>9. ASSUME Read(c)
      PROVE  InTurn(c)'
  BY <1>1, <1>9, TurnRead
<1>10. ASSUME NEW outcome \in Outcome, TcpDone(c, outcome)
       PROVE  InTurn(c)'
  BY <1>1, <1>10, TurnDone
<1>11. Outcome # {}
  BY DEF Outcome
<1> QED
  BY <1>2, <1>3, <1>4, <1>5, <1>6, <1>7, <1>8, <1>9, <1>10, <1>11
  DEF Next, HandleTcp, Quiesced

-----------------------------------------------------------------------------
(* Counting.                                                               *)

(* Nothing has been parsed.                                                *)
LEMMA CountInit == Init => Finite /\ EveryQueryCounted
<1> SUFFICES ASSUME Init
             PROVE  Finite /\ EveryQueryCounted
  OBVIOUS
<1>1. Busy = {} /\ tasks = {} /\ parsed = {} /\ counted = 0
  BY DEF Init, Busy
<1>2. Cardinality({}) = 0 /\ IsFiniteSet({})
  BY FS_EmptySet
<1> QED
  BY <1>1, <1>2 DEF Finite, EveryQueryCounted, Busy

(* A step that moves no query.                                             *)
LEMMA CountSame ==
  ASSUME Finite, EveryQueryCounted,
         UNCHANGED <<counted, tasks, parsed, current>>
  PROVE  Finite' /\ EveryQueryCounted'
BY DEF Finite, EveryQueryCounted, Busy

(* A datagram that is parsed becomes a task.                               *)
LEMMA CountDatagram ==
  ASSUME TypeOK, Fresh, Finite, EveryQueryCounted, NEW form \in Form, DatagramReceived(form)
  PROVE  Finite' /\ EveryQueryCounted'
<1>1. current' = current /\ counted' = counted
  BY DEF DatagramReceived, tcpVars
<1>2. CASE form = "garbage"
  BY <1>1, <1>2, CountSame DEF DatagramReceived
<1>3. CASE form # "garbage"
  <2>1. tasks' = tasks \cup {New(form)} /\ parsed' = parsed \cup {New(form)}
    BY <1>3 DEF DatagramReceived
  <2>2. New(form) \notin parsed
    BY ServerConstants DEF Fresh, New, TypeOK
  <2>3. New(form) \notin tasks
    BY <2>2 DEF TypeOK
  <2>4. /\ IsFiniteSet(tasks') /\ Cardinality(tasks') = Cardinality(tasks) + 1
        /\ IsFiniteSet(parsed') /\ Cardinality(parsed') = Cardinality(parsed) + 1
    BY <2>1, <2>2, <2>3, FS_AddElement DEF Finite
  <2>5. /\ Cardinality(tasks) \in Nat /\ Cardinality(parsed) \in Nat
        /\ Cardinality(Busy) \in Nat /\ counted \in Nat
    BY FS_CardinalityType DEF Finite, TypeOK
  <2>6. counted + Cardinality(tasks) + Cardinality(Busy) = Cardinality(parsed)
    BY DEF EveryQueryCounted, Busy
  <2>7. Busy' = Busy
    BY <1>1 DEF Busy
  <2>8. counted' + Cardinality(tasks') + Cardinality(Busy') = Cardinality(parsed')
    BY <1>1, <2>4, <2>5, <2>6, <2>7
  <2> QED
    BY <2>4, <2>7, <2>8 DEF Finite, EveryQueryCounted, Busy
<1> QED
  BY <1>2, <1>3

(* A task that ends is counted.                                            *)
LEMMA CountUdp ==
  ASSUME TypeOK, Finite, EveryQueryCounted, NEW q \in tasks, NEW outcome \in Outcome,
         UdpDone(q, outcome)
  PROVE  Finite' /\ EveryQueryCounted'
<1>1. /\ current' = current /\ parsed' = parsed /\ tasks' = tasks \ {q}
      /\ counted' = counted + 1
  BY DEF UdpDone, Report, tcpVars
<1>2. IsFiniteSet(tasks') /\ Cardinality(tasks') = Cardinality(tasks) - 1
  BY <1>1, FS_RemoveElement DEF Finite
<1>3. /\ Cardinality(tasks) \in Nat /\ Cardinality(parsed) \in Nat
      /\ Cardinality(Busy) \in Nat /\ counted \in Nat
  BY FS_CardinalityType DEF Finite, TypeOK
<1>4. counted + Cardinality(tasks) + Cardinality(Busy) = Cardinality(parsed)
  BY DEF EveryQueryCounted, Busy
<1>5. Busy' = Busy
  BY <1>1 DEF Busy
<1>6. counted' + Cardinality(tasks') + Cardinality(Busy') = Cardinality(parsed')
  BY <1>1, <1>2, <1>3, <1>4, <1>5
<1> QED
  BY <1>1, <1>2, <1>5, <1>6 DEF Finite, EveryQueryCounted, Busy

(* A query read from a connection keeps its loop busy.                     *)
LEMMA CountRead ==
  ASSUME TypeOK, Fresh, Finite, EveryQueryCounted, NEW c \in Conn, Read(c)
  PROVE  Finite' /\ EveryQueryCounted'
<1> DEFINE q == Head(inbox[c])
<1>1. /\ tasks' = tasks /\ counted' = counted /\ current[c] = Nothing
      /\ inbox[c] \in Seq(Query) /\ inbox[c] # <<>> /\ q = inbox[c][1]
  BY DEF TypeOK, Read, Ready, Reading, udpVars
<1>2. CASE q.form = "garbage"
  BY <1>1, <1>2, CountSame DEF Read
<1>3. CASE q.form # "garbage"
  <2>1. parsed' = parsed \cup {q} /\ current' = [current EXCEPT ![c] = q]
    BY <1>3 DEF Read
  <2>2. q \in Query /\ 1 \in 1 .. Len(inbox[c])
    BY <1>1, HeadTailProperties, EmptySeq
  <2>3. q \notin parsed /\ q # Nothing
    BY <1>1, <2>2, ServerConstants DEF Fresh, Arrived
  <2>4. Busy' = Busy \cup {c} /\ c \notin Busy
    BY <1>1, <2>1, <2>3 DEF Busy, TypeOK
  <2>5. /\ IsFiniteSet(Busy') /\ Cardinality(Busy') = Cardinality(Busy) + 1
        /\ IsFiniteSet(parsed') /\ Cardinality(parsed') = Cardinality(parsed) + 1
    BY <2>1, <2>3, <2>4, FS_AddElement DEF Finite
  <2>6. /\ Cardinality(tasks) \in Nat /\ Cardinality(parsed) \in Nat
        /\ Cardinality(Busy) \in Nat /\ counted \in Nat
    BY FS_CardinalityType DEF Finite, TypeOK
  <2>7. counted + Cardinality(tasks) + Cardinality(Busy) = Cardinality(parsed)
    BY DEF EveryQueryCounted, Busy
  <2>8. counted' + Cardinality(tasks') + Cardinality(Busy') = Cardinality(parsed')
    BY <1>1, <2>5, <2>6, <2>7
  <2> QED
    BY <1>1, <2>5, <2>8 DEF Finite, EveryQueryCounted, Busy
<1> QED
  BY <1>2, <1>3

(* A loop that goes on has counted its query.                              *)
LEMMA CountTcp ==
  ASSUME TypeOK, Finite, EveryQueryCounted, NEW c \in Conn, NEW outcome \in Outcome,
         TcpDone(c, outcome)
  PROVE  Finite' /\ EveryQueryCounted'
<1>1. /\ tasks' = tasks /\ parsed' = parsed /\ counted' = counted + 1
      /\ current[c] # Nothing /\ current' = [current EXCEPT ![c] = Nothing]
  BY DEF TcpDone, Report, udpVars
<1>2. Busy' = Busy \ {c} /\ c \in Busy
  BY <1>1 DEF Busy, TypeOK
<1>3. IsFiniteSet(Busy') /\ Cardinality(Busy') = Cardinality(Busy) - 1
  BY <1>2, FS_RemoveElement DEF Finite
<1>4. /\ Cardinality(tasks) \in Nat /\ Cardinality(parsed) \in Nat
      /\ Cardinality(Busy) \in Nat /\ counted \in Nat
  BY FS_CardinalityType DEF Finite, TypeOK
<1>5. counted + Cardinality(tasks) + Cardinality(Busy) = Cardinality(parsed)
  BY DEF EveryQueryCounted, Busy
<1>6. counted' + Cardinality(tasks') + Cardinality(Busy') = Cardinality(parsed')
  BY <1>1, <1>3, <1>4, <1>5
<1> QED
  BY <1>1, <1>3, <1>6 DEF Finite, EveryQueryCounted, Busy

(* Every step keeps the balance.                                           *)
LEMMA CountStep ==
  TypeOK /\ Fresh /\ Finite /\ EveryQueryCounted /\ [Next]_vars
    => Finite' /\ EveryQueryCounted'
<1> SUFFICES ASSUME TypeOK, Fresh, Finite, EveryQueryCounted, [Next]_vars
             PROVE  Finite' /\ EveryQueryCounted'
  OBVIOUS
<1>1. CASE UNCHANGED vars \/ Start
  BY <1>1, CountSame DEF vars, Start, udpVars, tcpVars
<1>2. ASSUME NEW c \in Conn,
             \/ Connect(c) \/ Collect(c) \/ Finish(c) \/ Drained(c) \/ Reset(c) \/ Hangup(c)
             \/ \E form \in Form : Send(c, form)
      PROVE  Finite' /\ EveryQueryCounted'
  BY <1>2, CountSame DEF Connect, Collect, Finish, Drained, Reset, Hangup, Send, udpVars
<1> QED
  BY <1>1, <1>2, CountDatagram, CountUdp, CountRead, CountTcp
  DEF Next, HandleTcp, Quiesced

-----------------------------------------------------------------------------
(* The invariant.                                                          *)

(* The inductive invariant.                                                *)
LEMMA Invariance == Spec => []IInv
<1>1. Init => IInv
  BY TypeInit, FreshInit, TurnsInit, CountInit DEF IInv, Turns
<1>2. IInv /\ [Next]_vars => IInv'
  BY TypeStep, FreshStep, TurnsStep, CountStep DEF IInv, Turns
<1> QED
  BY <1>1, <1>2, PTL DEF Spec

(* The state keeps its types; in particular no connection ever buffers     *)
(* more responses than its writer's high water mark.                       *)
THEOREM TypeCorrect == Spec => []TypeOK
<1>1. IInv => TypeOK
  BY DEF IInv
<1> QED
  BY <1>1, Invariance, PTL

(* On a connection queries are answered one after the other, in the order  *)
(* they came, however its client, its resolvers and its buffer behave.     *)
THEOREM AnsweredInTurn == Spec => []TcpInOrder
<1>1. IInv => TcpInOrder
  <2> SUFFICES ASSUME IInv, NEW c \in Conn
               PROVE  /\ Len(written[c]) <= Len(taken[c])
                      /\ \A i \in DOMAIN written[c] : written[c][i] = taken[c][i].serial
                      /\ Len(taken[c]) - Len(written[c]) <= 1
                      /\ current[c] = Nothing /\ link[c] \in {"open", "closed"} =>
                            Len(written[c]) = Len(taken[c])
    BY DEF TcpInOrder
  <2>1. InTurn(c)
    BY DEF IInv
  <2>2. /\ Len(written[c]) \in Nat /\ Len(taken[c]) \in Nat
        /\ DOMAIN written[c] = 1 .. Len(written[c])
    BY LenProperties DEF IInv, TypeOK
  <2> QED
    BY <2>1, <2>2 DEF InTurn
<1> QED
  BY <1>1, Invariance, PTL

(* Whatever becomes of its response and of its client, a query that was    *)
(* parsed is being resolved or has been counted, once.                     *)
THEOREM NoneUncounted == Spec => []EveryQueryCounted
<1>1. IInv => EveryQueryCounted
  BY DEF IInv
<1> QED
  BY <1>1, Invariance, PTL

=============================================================================
