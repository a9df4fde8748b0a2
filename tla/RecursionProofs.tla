-------------------------- MODULE RecursionProofs ---------------------------
(***************************************************************************)
(* Proofs about RecursiveResolver (Recursion), for any number of tasks,    *)
(* names and servers, any limits and any answers: type correctness, that   *)
(* MAX_DEPTH bounds every walk, that control always comes back to a        *)
(* coroutine that can go on, that no TTL outlasts what the authority of a  *)
(* record vouched for, that answers are the chain from the question, and   *)
(* that the cache the walks share implements LeaseTable.                   *)
(***************************************************************************)
EXTENDS Recursion, CacheLemmas, FiniteSetTheorems, SequenceTheorems

-----------------------------------------------------------------------------
(* The inductive invariant.                                                *)

(* A stack as the coroutines leave it: every frame but the innermost       *)
(* awaits a nested lookup, only a lookup that is about to be refused lies  *)
(* deeper than MaxDepth, and the name servers still to be tried are those  *)
(* of the referral.                                                        *)
WellFormed(s) ==
    /\ s \in Seq(Frame)
    /\ \A i \in 1 .. Len(s) - 1 : s[i].op \in {"alias", "glue"}
    /\ Len(s) <= MaxDepth + 2
    /\ Len(s) = MaxDepth + 2 => s[Len(s)].op = "lookup"
    /\ \A i \in 1 .. Len(s) : s[i].todo \subseteq DOMAIN s[i].referral

(* A task that does not have the event loop waits for a server.            *)
Waiting(s) == s # <<>> => s[Len(s)].op = "ask" /\ s[Len(s)].left >= 1

IInv ==
    /\ CacheTypeOK
    /\ running \in Task \cup {Idle}
    /\ stack \in [Task -> Seq(Frame)]
    /\ \A t \in Task : WellFormed(stack[t])
    /\ \A t \in Task : running # t => Waiting(stack[t])
    /\ result \in Result \cup {Nothing}
    /\ running = Idle => result = Nothing
    /\ question \in [Task -> Question \cup {Nothing}]
    /\ handled \in [Task -> Result \cup {Nothing}]
    /\ received \in 0 .. MaxQueries

(* What one step of task t does to the walk, whichever action it is.       *)
WalkStep(t) ==
    /\ \E s \in Seq(Frame) :
          /\ WellFormed(s)
          /\ stack' = [stack EXCEPT ![t] = s]
          /\ running' # t => Waiting(s)
    /\ running' \in {t, Idle}
    /\ running' = Idle => result' = Nothing
    /\ result' \in Result \cup {Nothing}
    /\ CacheTypeOK'

(* The invariant implies the properties the runs check.                    *)
LEMMA InvariantImplies == IInv => TypeOK /\ NestingBounded /\ ControlReturns
<1> SUFFICES ASSUME IInv
             PROVE  TypeOK /\ NestingBounded /\ ControlReturns
  OBVIOUS
<1>1. TypeOK
  BY DEF IInv, TypeOK
<1>2. NestingBounded
  BY DEF IInv, WellFormed, NestingBounded, Top, Last
<1>3. ControlReturns
  BY DEF IInv, WellFormed, Waiting, ControlReturns, Top, Last
<1> QED
  BY <1>1, <1>2, <1>3

(* Whatever keeps to WalkStep and types the rest keeps the invariant.      *)
LEMMA WalkStepKeeps ==
    ASSUME IInv, NEW t \in Task, running \in {t, Idle}, WalkStep(t),
           question' \in [Task -> Question \cup {Nothing}],
           handled' \in [Task -> Result \cup {Nothing}],
           received' \in 0 .. MaxQueries
    PROVE  IInv'
<1>1. PICK s \in Seq(Frame) : /\ WellFormed(s)
                              /\ stack' = [stack EXCEPT ![t] = s]
                              /\ running' # t => Waiting(s)
  BY DEF WalkStep
<1>2. /\ stack' \in [Task -> Seq(Frame)]
      /\ stack'[t] = s
      /\ \A u \in Task \ {t} : stack'[u] = stack[u]
  BY <1>1 DEF IInv
<1>3. \A u \in Task : WellFormed(stack'[u])
  BY <1>1, <1>2 DEF IInv
<1>4. \A u \in Task : running' # u => Waiting(stack'[u])
  <2> SUFFICES ASSUME NEW u \in Task, running' # u
               PROVE  Waiting(stack'[u])
    OBVIOUS
  <2>1. CASE u = t
    BY <1>1, <1>2, <2>1
  <2>2. CASE u # t
    <3>1. running # u
      BY <2>2, RecursionConstants
    <3> QED
      BY <1>2, <2>2, <3>1 DEF IInv
  <2> QED
    BY <2>1, <2>2
<1> QED
  BY <1>2, <1>3, <1>4 DEF IInv, WalkStep

-----------------------------------------------------------------------------
(* Stacks.                                                                 *)

LEMMA FrontProperties ==
    ASSUME NEW s \in Seq(Frame), s # <<>>
    PROVE  /\ Front(s) \in Seq(Frame)
           /\ Len(Front(s)) = Len(s) - 1
           /\ \A i \in 1 .. Len(s) - 1 : Front(s)[i] = s[i]
           /\ Last(s) \in Frame
<1>1. Len(s) \in Nat \ {0}
  OBVIOUS
<1>2. \A i \in 1 .. Len(s) - 1 : s[i] \in Frame
  OBVIOUS
<1> DEFINE n == Len(s) - 1
<1>3. n \in Nat
  BY <1>1
<1>4. /\ SubSeq(s, 1, n) \in Seq(Frame)
      /\ Len(SubSeq(s, 1, n)) = IF 1 <= n THEN n - 1 + 1 ELSE 0
      /\ \A i \in 1 .. n - 1 + 1 : SubSeq(s, 1, n)[i] = s[1 + i - 1]
  <2> HIDE DEF n
  <2> QED
    BY <1>2, <1>3, SubSeqProperties DEF n
<1>5. Front(s) = SubSeq(s, 1, n)
  BY DEF Front
<1>6. Len(Front(s)) = n
  <2> HIDE DEF n
  <2>1. (IF 1 <= n THEN n - 1 + 1 ELSE 0) = n
    BY <1>3
  <2> QED
    BY <1>4, <1>5, <2>1, Zenon
<1>7. \A i \in 1 .. n : Front(s)[i] = s[i]
  <2> SUFFICES ASSUME NEW i \in 1 .. n
               PROVE  Front(s)[i] = s[i]
    OBVIOUS
  <2>1. i \in 1 .. n - 1 + 1 /\ 1 + i - 1 = i
    BY <1>3
  <2> QED
    BY <1>4, <1>5, <2>1
<1>8. Last(s) \in Frame
  BY <1>1 DEF Last
<1> QED
  BY <1>4, <1>5, <1>6, <1>7, <1>8

(* Returning from the innermost coroutine.                                 *)
LEMMA PopWellFormed ==
    ASSUME NEW s, WellFormed(s), s # <<>>
    PROVE  WellFormed(Front(s))
<1>1. s \in Seq(Frame) /\ Len(s) \in Nat \ {0}
  BY DEF WellFormed
<1>2. /\ Front(s) \in Seq(Frame)
      /\ Len(Front(s)) = Len(s) - 1
      /\ \A i \in 1 .. Len(s) - 1 : Front(s)[i] = s[i]
  BY <1>1, FrontProperties
<1> QED
  BY <1>1, <1>2, RecursionConstants DEF WellFormed

(* Going on with the innermost coroutine.                                  *)
LEMMA ReplaceWellFormed ==
    ASSUME NEW s, WellFormed(s), s # <<>>, Len(s) <= MaxDepth + 1,
           NEW frame \in Frame, frame.todo \subseteq DOMAIN frame.referral
    PROVE  LET new == Append(Front(s), frame)
           IN  /\ WellFormed(new)
               /\ new # <<>> /\ Len(new) = Len(s)
               /\ new[Len(new)] = frame
<1>1. s \in Seq(Frame) /\ Len(s) \in Nat \ {0}
  BY DEF WellFormed
<1>2. /\ Front(s) \in Seq(Frame)
      /\ Len(Front(s)) = Len(s) - 1
      /\ \A i \in 1 .. Len(s) - 1 : Front(s)[i] = s[i]
  BY <1>1, FrontProperties
<1> DEFINE new == Append(Front(s), frame)
<1>3. /\ new \in Seq(Frame)
      /\ Len(new) = Len(s)
      /\ \A i \in 1 .. Len(s) - 1 : new[i] = s[i]
      /\ new[Len(s)] = frame
  BY <1>1, <1>2, AppendProperties
<1> HIDE DEF new
<1>4. WellFormed(new)
  <2>1. \A i \in 1 .. Len(new) : new[i].todo \subseteq DOMAIN new[i].referral
    BY <1>1, <1>3 DEF WellFormed
  <2>2. \A i \in 1 .. Len(new) - 1 : new[i].op \in {"alias", "glue"}
    BY <1>1, <1>3 DEF WellFormed
  <2>3. Len(new) <= MaxDepth + 2 /\ Len(new) # MaxDepth + 2
    BY <1>1, <1>3, RecursionConstants
  <2> QED
    BY <1>3, <2>1, <2>2, <2>3 DEF WellFormed
<1>5. new # <<>>
  BY <1>1, <1>3
<1> QED
  BY <1>3, <1>4, <1>5 DEF new

(* Awaiting a nested lookup from there.                                    *)
LEMMA PushWellFormed ==
    ASSUME NEW s, WellFormed(s), s # <<>>, Len(s) <= MaxDepth + 1,
           s[Len(s)].op \in {"alias", "glue"},
           NEW frame \in Frame, frame.todo \subseteq DOMAIN frame.referral,
           frame.op = "lookup"
    PROVE  WellFormed(Append(s, frame))
<1>1. s \in Seq(Frame) /\ Len(s) \in Nat \ {0}
  BY DEF WellFormed
<1> DEFINE new == Append(s, frame)
<1>2. /\ new \in Seq(Frame)
      /\ Len(new) = Len(s) + 1
      /\ \A i \in 1 .. Len(s) : new[i] = s[i]
      /\ new[Len(s) + 1] = frame
  BY <1>1, AppendProperties
<1> HIDE DEF new
<1>3. \A i \in 1 .. Len(new) : new[i].todo \subseteq DOMAIN new[i].referral
  BY <1>1, <1>2 DEF WellFormed
<1>4. \A i \in 1 .. Len(new) - 1 : new[i].op \in {"alias", "glue"}
  BY <1>1, <1>2 DEF WellFormed
<1>5. Len(new) <= MaxDepth + 2 /\ new[Len(new)].op = "lookup"
  BY <1>1, <1>2, RecursionConstants
<1> QED
  BY <1>2, <1>3, <1>4, <1>5 DEF WellFormed, new

(* A fresh lookup, the first of a query or a nested one.                   *)
LEMMA LookupFrameType ==
    ASSUME NEW name \in Name, NEW qtype \in RType
    PROVE  /\ LookupFrame(name, qtype) \in Frame
           /\ LookupFrame(name, qtype).op = "lookup"
           /\ LookupFrame(name, qtype).todo \subseteq
                  DOMAIN LookupFrame(name, qtype).referral
BY RecursionConstants DEF LookupFrame, Frame

LEMMA FirstFrameWellFormed ==
    ASSUME NEW frame \in Frame, frame.op = "lookup",
           frame.todo \subseteq DOMAIN frame.referral
    PROVE  WellFormed(<<frame>>)
<1>1. /\ <<frame>> \in Seq(Frame) /\ Len(<<frame>>) = 1 /\ <<frame>>[1] = frame
  OBVIOUS
<1> QED
  BY <1>1, RecursionConstants DEF WellFormed

(* The innermost frame of a task that is not asking the cache lies within  *)
(* the depth the resolver walks.                                           *)
LEMMA TopProperties ==
    ASSUME IInv, NEW t \in Task, stack[t] # <<>>
    PROVE  /\ WellFormed(stack[t])
           /\ Top(t) \in Frame
           /\ Top(t) = stack[t][Len(stack[t])]
           /\ Top(t).todo \subseteq DOMAIN Top(t).referral
           /\ Len(stack[t]) \in Nat \ {0}
           /\ Top(t).op # "lookup" => Len(stack[t]) <= MaxDepth + 1
<1>1. WellFormed(stack[t]) /\ stack[t] \in Seq(Frame)
  BY DEF IInv
<1>2. Len(stack[t]) \in Nat \ {0}
  BY <1>1
<1>3. Top(t) = stack[t][Len(stack[t])] /\ Top(t) \in Frame
  BY <1>1, FrontProperties DEF Top, Last
<1> QED
  BY <1>1, <1>2, <1>3, RecursionConstants DEF WellFormed

-----------------------------------------------------------------------------
(* What the operators the actions are built from do.                       *)

(* Finish types and caches the result, pops the frame, and keeps going.    *)
LEMMA FinishStep ==
    ASSUME IInv, NEW t \in Task, stack[t] # <<>>, NEW rcode \in RCode,
           NEW answers \in Seq(Record), NEW authorities \in Seq(Record),
           Finish(t, rcode, answers, authorities)
    PROVE  WalkStep(t)
<1>1. WellFormed(Front(stack[t])) /\ Front(stack[t]) \in Seq(Frame)
  BY TopProperties, PopWellFormed DEF WellFormed
<1>2. stack' = [stack EXCEPT ![t] = Front(stack[t])] /\ running' = t
  BY DEF Finish, Pop
<1>3. result' \in Result
  BY DEF Finish, Result
<1>4. CacheTypeOK'
  <2>1. Top(t) \in Frame
    BY TopProperties
  <2>2. KeyOf(Top(t)) \in Key
    <3>1. Top(t).name \in Name /\ Top(t).qtype \in RType /\ "IN" \in RClass
      BY <2>1, RecursionConstants DEF Frame
    <3> QED
      BY <3>1 DEF KeyOf, Key
  <2>3. CacheTypeOK
    BY DEF IInv
  <2>4. CASE rcode \in {"NOERROR", "NXDOMAIN"}
    BY <2>2, <2>3, <2>4, PutType DEF Finish
  <2>5. CASE rcode \notin {"NOERROR", "NXDOMAIN"}
    BY <2>3, <2>5 DEF Finish, cacheVars, CacheTypeOK
  <2> QED
    BY <2>4, <2>5
<1> QED
  BY <1>1, <1>2, <1>3, <1>4, RecursionConstants DEF WalkStep

LEMMA FailStep ==
    ASSUME IInv, NEW t \in Task, stack[t] # <<>>, Fail(t)
    PROVE  WalkStep(t)
<1>1. <<>> \in Seq(Record) /\ "SERVFAIL" \in RCode
  BY DEF RCode
<1> QED
  BY <1>1, FinishStep DEF Fail

(* Call leaves the frame waiting below a fresh lookup that runs at once.   *)
LEMMA CallStep ==
    ASSUME IInv, NEW t \in Task, stack[t] # <<>>, Top(t).op # "lookup",
           NEW frame \in Frame, frame.op \in {"alias", "glue"},
           frame.todo \subseteq DOMAIN frame.referral,
           NEW name \in Name, NEW qtype \in RType,
           Call(t, frame, name, qtype)
    PROVE  WalkStep(t)
<1> DEFINE below == Append(Front(stack[t]), frame)
           s == Append(below, LookupFrame(name, qtype))
<1>1. WellFormed(stack[t]) /\ Len(stack[t]) <= MaxDepth + 1
  BY TopProperties
<1>2. /\ WellFormed(below) /\ below # <<>> /\ Len(below) = Len(stack[t])
      /\ below[Len(below)] = frame
  BY <1>1, ReplaceWellFormed
<1>3. WellFormed(s)
  <2> HIDE DEF below
  <2> QED
    BY <1>1, <1>2, LookupFrameType, PushWellFormed
<1>4. s \in Seq(Frame)
  BY <1>3 DEF WellFormed
<1>5. stack' = [stack EXCEPT ![t] = s] /\ running' = t /\ result' = Nothing
  BY DEF Call
<1>6. CacheTypeOK'
  BY DEF Call, IInv, cacheVars, CacheTypeOK
<1> HIDE DEF s
<1> QED
  BY <1>3, <1>4, <1>5, <1>6, RecursionConstants DEF WalkStep

(* Descend waits for the servers of the next level, of which there is one. *)
LEMMA DescendStep ==
    ASSUME IInv, NEW t \in Task, stack[t] # <<>>, Top(t).op # "lookup",
           NEW servers \in Nat \ {0}, Descend(t, servers)
    PROVE  WalkStep(t)
<1>1. CASE Top(t).hops < MaxDelegations
  <2> DEFINE frame == [Top(t) EXCEPT !.op = "ask", !.left = servers,
                                     !.hops = @ + 1, !.referral = <<>>, !.todo = {}]
             s == Append(Front(stack[t]), frame)
  <2>1. /\ frame \in Frame /\ frame.op = "ask" /\ frame.left = servers
        /\ frame.todo = {}
    <3>1. Top(t) \in Frame
      BY TopProperties
    <3>2. Top(t).hops + 1 \in 0 .. MaxDelegations
      BY <1>1, <3>1, RecursionConstants DEF Frame
    <3>3. <<>> \in Seq(Name)
      OBVIOUS
    <3> QED
      BY <3>1, <3>2, <3>3 DEF Frame
  <2>2. WellFormed(stack[t]) /\ Len(stack[t]) <= MaxDepth + 1
    BY TopProperties
  <2>3. stack' = [stack EXCEPT ![t] = s] /\ running' = Idle /\ result' = Nothing
    BY <1>1 DEF Descend, ReplaceTop
  <2> HIDE DEF frame
  <2>4. WellFormed(s) /\ s # <<>> /\ s[Len(s)] = frame
    BY <2>1, <2>2, ReplaceWellFormed
  <2>5. Waiting(s) /\ s \in Seq(Frame)
    BY <2>1, <2>4 DEF Waiting, WellFormed
  <2>6. CacheTypeOK'
    BY <1>1 DEF Descend, IInv, cacheVars, CacheTypeOK
  <2> HIDE DEF s
  <2> QED
    BY <2>3, <2>4, <2>5, <2>6 DEF WalkStep
<1>2. CASE ~(Top(t).hops < MaxDelegations)
  BY <1>2, FailStep DEF Descend
<1> QED
  BY <1>1, <1>2

-----------------------------------------------------------------------------
(* Messages.                                                               *)

(* The records of a type can be counted, and the first of them found.      *)
LEMMA PositionsProperties ==
    ASSUME NEW records \in Seq(Record), NEW rtype, NEW S \in SUBSET PositionsOf(records, rtype)
    PROVE  /\ S \subseteq DOMAIN records
           /\ S \in SUBSET Nat
           /\ S # {} => /\ Cardinality(S) \in Nat \ {0}
                        /\ Min(S) \in S
                        /\ records[Min(S)] \in Record
<1>1. Len(records) \in Nat /\ DOMAIN records = 1 .. Len(records)
  OBVIOUS
<1>2. S \subseteq 1 .. Len(records) /\ S \in SUBSET Nat
  BY <1>1 DEF PositionsOf
<1>3. ASSUME S # {}
      PROVE  Cardinality(S) \in Nat \ {0}
  <2>1. IsFiniteSet(1 .. Len(records))
    BY <1>1, FS_Interval
  <2>2. IsFiniteSet(S)
    BY <1>2, <2>1, FS_Subset
  <2> QED
    BY <1>3, <2>2, FS_CardinalityType, FS_EmptySet
<1>4. ASSUME S # {}
      PROVE  Min(S) \in S /\ records[Min(S)] \in Record
  <2>1. Min(S) \in S
    BY <1>2, <1>4, MinNat
  <2>2. \A i \in 1 .. Len(records) : records[i] \in Record
    OBVIOUS
  <2> QED
    BY <1>2, <2>1, <2>2
<1> QED
  BY <1>1, <1>2, <1>3, <1>4

LEMMA FirstPosition ==
    ASSUME NEW records \in Seq(Record), NEW rtype, PositionsOf(records, rtype) # {}
    PROVE  /\ Min(PositionsOf(records, rtype)) \in DOMAIN records
           /\ PositionsOf(records, rtype) \subseteq DOMAIN records
           /\ PositionsOf(records, rtype) \in SUBSET Nat
           /\ records[Min(PositionsOf(records, rtype))].rtype = rtype
<1> DEFINE S == PositionsOf(records, rtype)
<1>1. S \in SUBSET PositionsOf(records, rtype)
  OBVIOUS
<1> HIDE DEF S
<1>2. S \subseteq DOMAIN records /\ S \in SUBSET Nat /\ (S # {} => Min(S) \in S)
  BY <1>1, PositionsProperties
<1>3. S # {} => records[Min(S)].rtype = rtype
  BY <1>2 DEF S, PositionsOf
<1> QED
  BY <1>2, <1>3 DEF S

(* The targets of a sequence of records are a sequence of names.           *)
LEMMA TargetsType ==
    ASSUME NEW records \in Seq(Record)
    PROVE  [i \in DOMAIN records |-> records[i].target] \in Seq(Name)
<1>1. PICK n \in Nat : records \in [1 .. n -> Record]
  OBVIOUS
<1>2. \A i \in 1 .. n : records[i].target \in Name
  BY <1>1 DEF Record
<1>3. [i \in DOMAIN records |-> records[i].target] \in [1 .. n -> Name]
  BY <1>1, <1>2
<1> QED
  BY <1>3

(* What a waiting task may hear.                                           *)
LEMMA MessageType ==
    ASSUME IInv, NEW t \in Task, Awaiting(t),
           NEW m \in Replies[<<Top(t).name, Top(t).qtype>>]
    PROVE  /\ Top(t).name \in Name /\ Top(t).qtype \in RType
           /\ m.answers \in Seq(Record)
           /\ m.authorities \in Seq(Record)
           /\ m.additionals \in Seq(Record)
           /\ Stamp(m.answers) \in Seq(Record)
           /\ DOMAIN Stamp(m.answers) = DOMAIN m.answers
           /\ Stamp(m.authorities) \in Seq(Record)
<1>1. Top(t).name \in Name /\ Top(t).qtype \in RType
  BY TopProperties DEF Awaiting, Frame
<1>2. m \in Message
  BY <1>1, RecursionConstants
<1>3. /\ m.answers \in Seq(Record)
      /\ m.authorities \in Seq(Record)
      /\ m.additionals \in Seq(Record)
  BY <1>2 DEF Message
<1> QED
  BY <1>1, <1>3, StampKeeps DEF IInv, CacheTypeOK

(* The target of a record is a name.                                       *)
LEMMA TargetType ==
    ASSUME NEW r \in Record
    PROVE  r.target \in Name
BY DEF Record

-----------------------------------------------------------------------------
(* Every action of a task in progress is a WalkStep.                       *)

LEMMA LookupSteps ==
    ASSUME IInv, NEW t \in Task, CacheHit(t) \/ StartWalk(t) \/ TooDeep(t)
    PROVE  WalkStep(t)
<1>1. running = t /\ stack[t] # <<>> /\ result = Nothing
  BY DEF CacheHit, StartWalk, TooDeep, LookingUp
<1>2. /\ Top(t) \in Frame /\ WellFormed(stack[t]) /\ Len(stack[t]) \in Nat \ {0}
      /\ Top(t).todo \subseteq DOMAIN Top(t).referral
  BY <1>1, TopProperties
<1>3. KeyOf(Top(t)) \in Key
  <2>1. Top(t).name \in Name /\ Top(t).qtype \in RType /\ "IN" \in RClass
    BY <1>2, RecursionConstants DEF Frame
  <2> QED
    BY <2>1 DEF KeyOf, Key
<1>4. WellFormed(Front(stack[t])) /\ Front(stack[t]) \in Seq(Frame)
  BY <1>1, <1>2, PopWellFormed DEF WellFormed
<1>5. CacheTypeOK
  BY DEF IInv
<1>6. ASSUME CacheHit(t)
      PROVE  WalkStep(t)
  <2>1. CacheTypeOK'
    BY <1>3, <1>5, <1>6, GetHitType DEF CacheHit
  <2>2. FreshCopy(KeyOf(Top(t))) \in Entry
    BY <1>3, <1>5, <1>6, FreshCopyType DEF CacheHit, GetHit
  <2>3. result' \in Result
    BY <1>6, <2>2 DEF CacheHit, Entry, Result
  <2> QED
    BY <1>1, <1>4, <1>6, <2>1, <2>3, RecursionConstants DEF CacheHit, Pop, WalkStep
<1>7. ASSUME StartWalk(t)
      PROVE  WalkStep(t)
  <2> DEFINE frame == [Top(t) EXCEPT !.op = "ask", !.hops = 1, !.left = RootServers]
             s == Append(Front(stack[t]), frame)
  <2>1. /\ frame \in Frame /\ frame.op = "ask" /\ frame.left >= 1
        /\ frame.todo \subseteq DOMAIN frame.referral
    <3>1. 1 \in 0 .. MaxDelegations /\ RootServers \in Nat /\ RootServers >= 1
      BY RecursionConstants
    <3> QED
      BY <1>2, <3>1 DEF Frame
  <2>2. Len(stack[t]) <= MaxDepth + 1
    BY <1>2, <1>7, RecursionConstants DEF StartWalk, Depth
  <2>3. stack' = [stack EXCEPT ![t] = s] /\ running' = Idle /\ result' = Nothing
    BY <1>1, <1>7 DEF StartWalk, ReplaceTop
  <2>4. CacheTypeOK'
    BY <1>3, <1>5, <1>7, GetMissType DEF StartWalk
  <2> HIDE DEF frame
  <2>5. WellFormed(s) /\ s # <<>> /\ s[Len(s)] = frame
    BY <1>1, <1>2, <2>1, <2>2, ReplaceWellFormed
  <2>6. Waiting(s) /\ s \in Seq(Frame)
    BY <2>1, <2>5 DEF Waiting, WellFormed
  <2> HIDE DEF s
  <2> QED
    BY <2>3, <2>4, <2>5, <2>6 DEF WalkStep
<1>8. ASSUME TooDeep(t)
      PROVE  WalkStep(t)
  <2>1. CacheTypeOK'
    BY <1>3, <1>5, <1>8, GetMissType DEF TooDeep
  <2>2. result' \in Result
    BY <1>8 DEF TooDeep, Result, RCode
  <2> QED
    BY <1>1, <1>4, <1>8, <2>1, <2>2, RecursionConstants DEF TooDeep, Pop, WalkStep
<1> QED
  BY <1>6, <1>7, <1>8

LEMMA HearSteps ==
    ASSUME IInv, NEW t \in Task, Awaiting(t), Hear(t)
    PROVE  WalkStep(t)
<1>1. stack[t] # <<>> /\ Top(t).op = "ask" /\ Top(t).op # "lookup"
  BY DEF Awaiting
<1>2. Top(t) \in Frame /\ Top(t).todo \subseteq DOMAIN Top(t).referral
  BY <1>1, TopProperties
<1>3. PICK m \in Replies[<<Top(t).name, Top(t).qtype>>] :
         \/ HearAnswer(t, m)   \/ HearAlias(t, m)    \/ HearDenial(t, m)
         \/ HearNoData(t, m)   \/ HearReferral(t, m) \/ HearGlueless(t, m)
  BY DEF Hear
<1>4. /\ Top(t).name \in Name /\ Top(t).qtype \in RType
      /\ m.answers \in Seq(Record) /\ m.authorities \in Seq(Record)
      /\ m.additionals \in Seq(Record)
      /\ Stamp(m.answers) \in Seq(Record)
      /\ DOMAIN Stamp(m.answers) = DOMAIN m.answers
      /\ Stamp(m.authorities) \in Seq(Record)
  BY MessageType
<1>5. <<>> \in Seq(Record) /\ {"NOERROR", "NXDOMAIN"} \subseteq RCode
  BY DEF RCode
<1>6. CASE HearAnswer(t, m)
  BY <1>1, <1>4, <1>5, <1>6, FinishStep DEF HearAnswer
<1>7. CASE HearDenial(t, m)
  BY <1>1, <1>4, <1>5, <1>7, FinishStep DEF HearDenial
<1>8. CASE HearNoData(t, m)
  BY <1>1, <1>4, <1>5, <1>8, FinishStep DEF HearNoData
<1>9. CASE HearAlias(t, m)
  <2> DEFINE i == Min(PositionsOf(m.answers, "CNAME"))
             cname == Stamp(m.answers)[i]
             frame == [Top(t) EXCEPT !.op = "alias", !.cname = <<cname>>]
  <2>1. i \in DOMAIN m.answers
    BY <1>4, <1>9, FirstPosition DEF HearAlias, IsAlias
  <2>2. cname \in Record
    BY <1>4, <2>1
  <2>3. cname.target \in Name /\ <<cname>> \in Seq(Record)
    BY <2>2, TargetType
  <2>4. Call(t, frame, cname.target, Top(t).qtype)
    BY <1>9 DEF HearAlias
  <2> HIDE DEF cname
  <2>5. frame \in Frame /\ frame.op = "alias" /\ frame.todo \subseteq DOMAIN frame.referral
    BY <1>2, <2>3 DEF Frame
  <2> HIDE DEF frame
  <2> QED
    BY <1>1, <1>4, <2>3, <2>4, <2>5, CallStep
<1>10. CASE HearReferral(t, m)
  <2>1. Glue(m) \in SUBSET PositionsOf(m.additionals, "A")
    BY DEF Glue
  <2>2. Cardinality(Glue(m)) \in Nat \ {0}
    BY <1>4, <1>10, <2>1, PositionsProperties DEF HearReferral
  <2> QED
    BY <1>1, <1>10, <2>2, DescendStep DEF HearReferral
<1>11. CASE HearGlueless(t, m)
  <2> DEFINE first == Min(NsPositions(m))
             names == [i \in DOMAIN m.authorities |-> m.authorities[i].target]
             rest == NsPositions(m) \ {first}
             frame == [Top(t) EXCEPT !.op = "glue", !.referral = names, !.todo = rest]
  <2>1. first \in DOMAIN m.authorities /\ NsPositions(m) \subseteq DOMAIN m.authorities
    BY <1>4, <1>11, FirstPosition DEF HearGlueless, NsPositions
  <2>2. m.authorities[first].target \in Name
    BY <1>4, <2>1, TargetType
  <2>3. /\ names \in Seq(Name) /\ DOMAIN names = DOMAIN m.authorities
        /\ rest \in SUBSET Nat /\ rest \subseteq DOMAIN names
    <3>1. names \in Seq(Name)
      BY <1>4, TargetsType
    <3>2. NsPositions(m) \in SUBSET Nat
      BY <1>4, <1>11, FirstPosition DEF HearGlueless, NsPositions
    <3> QED
      BY <2>1, <3>1, <3>2
  <2>4. Call(t, frame, m.authorities[first].target, "A")
    BY <1>11 DEF HearGlueless
  <2> HIDE DEF names, rest
  <2>5. frame \in Frame /\ frame.op = "glue" /\ frame.todo \subseteq DOMAIN frame.referral
    BY <1>2, <2>3 DEF Frame
  <2> HIDE DEF frame, first
  <2>6. "A" \in RType
    BY CacheConstants
  <2> QED
    BY <1>1, <2>2, <2>4, <2>5, <2>6, CallStep
<1> QED
  BY <1>3, <1>6, <1>7, <1>8, <1>9, <1>10, <1>11

LEMMA AskSteps ==
    ASSUME IInv, NEW t \in Task, TryNextServer(t) \/ NoServerAnswers(t)
    PROVE  WalkStep(t)
<1>1. stack[t] # <<>> /\ Top(t).op = "ask" /\ Top(t).op # "lookup" /\ running = Idle
  BY DEF TryNextServer, NoServerAnswers, Awaiting
<1>2. CASE NoServerAnswers(t)
  BY <1>1, <1>2, FailStep DEF NoServerAnswers
<1>3. CASE TryNextServer(t)
  <2> DEFINE frame == [Top(t) EXCEPT !.left = @ - 1]
             s == Append(Front(stack[t]), frame)
  <2>1. /\ Top(t) \in Frame /\ Top(t).left \in Nat /\ Top(t).left > 1
        /\ Top(t).todo \subseteq DOMAIN Top(t).referral
        /\ WellFormed(stack[t]) /\ Len(stack[t]) <= MaxDepth + 1
    BY <1>1, <1>3, TopProperties DEF TryNextServer, Frame
  <2>2. /\ frame \in Frame /\ frame.op = "ask" /\ frame.left >= 1
        /\ frame.todo \subseteq DOMAIN frame.referral
    <3>1. Top(t).left - 1 \in Nat /\ Top(t).left - 1 >= 1
      BY <2>1
    <3> QED
      BY <1>1, <2>1, <3>1 DEF Frame
  <2>3. /\ stack' = [stack EXCEPT ![t] = s] /\ running' = Idle
        /\ result' = result /\ result = Nothing
    BY <1>1, <1>3 DEF TryNextServer, ReplaceTop, IInv
  <2>4. CacheTypeOK'
    BY <1>3 DEF TryNextServer, IInv, CacheTypeOK
  <2> HIDE DEF frame
  <2>5. WellFormed(s) /\ s # <<>> /\ s[Len(s)] = frame
    BY <1>1, <2>1, <2>2, ReplaceWellFormed
  <2>6. Waiting(s) /\ s \in Seq(Frame)
    BY <2>2, <2>5 DEF Waiting, WellFormed
  <2> HIDE DEF s
  <2> QED
    BY <2>3, <2>4, <2>5, <2>6 DEF WalkStep
<1> QED
  BY <1>2, <1>3

LEMMA ReturnSteps ==
    ASSUME IInv, NEW t \in Task,
           \/ ReturnAlias(t) \/ ReturnAddresses(t)
           \/ ReturnNextName(t) \/ ReturnNoAddress(t)
    PROVE  WalkStep(t)
<1>1. stack[t] # <<>> /\ Top(t).op # "lookup" /\ result # Nothing
  BY DEF ReturnAlias, ReturnAddresses, ReturnNextName, ReturnNoAddress, Returning
<1>2. Top(t) \in Frame /\ Top(t).todo \subseteq DOMAIN Top(t).referral
  BY <1>1, TopProperties
<1>3. /\ result.rcode \in RCode
      /\ result.answers \in Seq(Record) /\ result.authorities \in Seq(Record)
  BY <1>1 DEF IInv, Result
<1>4. CASE ReturnAlias(t)
  <2>1. Top(t).cname \in Seq(Record)
    BY <1>2 DEF Frame
  <2>2. Top(t).cname \o result.answers \in Seq(Record)
    BY <1>3, <2>1, ConcatProperties
  <2> QED
    BY <1>1, <1>3, <1>4, <2>2, FinishStep DEF ReturnAlias
<1>5. CASE ReturnAddresses(t)
  <2>1. Addresses \in SUBSET PositionsOf(result.answers, "A")
    BY DEF Addresses
  <2>2. Cardinality(Addresses) \in Nat \ {0}
    BY <1>3, <1>5, <2>1, PositionsProperties DEF ReturnAddresses
  <2> QED
    BY <1>1, <1>5, <2>2, DescendStep DEF ReturnAddresses
<1>6. CASE ReturnNextName(t)
  <2> DEFINE next == Min(Top(t).todo)
             rest == Top(t).todo \ {next}
             frame == [Top(t) EXCEPT !.todo = rest]
  <2>1. Top(t).todo \in SUBSET Nat /\ Top(t).todo # {} /\ Top(t).referral \in Seq(Name)
    BY <1>2, <1>6 DEF ReturnNextName, Frame
  <2>2. next \in Top(t).todo
    BY <2>1, MinNat
  <2>3. Top(t).referral[next] \in Name
    BY <1>2, <2>1, <2>2
  <2>4. Call(t, frame, Top(t).referral[next], "A") /\ Top(t).op = "glue"
    BY <1>6 DEF ReturnNextName, Returning
  <2>5. rest \in SUBSET Nat /\ rest \subseteq DOMAIN Top(t).referral
    BY <1>2, <2>1
  <2> HIDE DEF rest, next
  <2>6. frame \in Frame /\ frame.op = "glue" /\ frame.todo \subseteq DOMAIN frame.referral
    BY <1>2, <2>4, <2>5 DEF Frame
  <2> HIDE DEF frame
  <2>7. "A" \in RType
    BY CacheConstants
  <2> QED
    BY <1>1, <2>3, <2>4, <2>6, <2>7, CallStep
<1>7. CASE ReturnNoAddress(t)
  BY <1>1, <1>7, FailStep DEF ReturnNoAddress
<1> QED
  BY <1>4, <1>5, <1>6, <1>7

-----------------------------------------------------------------------------
(* The invariant is inductive.                                             *)

LEMMA InitInv == Init => IInv
<1> SUFFICES ASSUME Init
             PROVE  IInv
  OBVIOUS
<1>1. CacheTypeOK
  BY CacheConstants DEF Init, CacheInit, CacheTypeOK
<1>2. \A t \in Task : stack[t] = <<>>
  BY DEF Init
<1>3. WellFormed(<<>>) /\ Waiting(<<>>) /\ <<>> \in Seq(Frame)
  BY RecursionConstants DEF WellFormed, Waiting
<1> QED
  BY <1>1, <1>2, <1>3, RecursionConstants DEF Init, IInv

LEMMA NextInv ==
    ASSUME IInv, [Next]_vars
    PROVE  IInv'
<1>1. ASSUME NEW t \in Task, NEW q \in Question, Receive(t, q)
      PROVE  IInv'
  <2> DEFINE frame == LookupFrame(q[1], q[2])
  <2>1. q[1] \in Name /\ q[2] \in RType
    BY RecursionConstants
  <2>2. WellFormed(<<frame>>) /\ <<frame>> \in Seq(Frame)
    BY <2>1, LookupFrameType, FirstFrameWellFormed
  <2>3. /\ stack' = [stack EXCEPT ![t] = <<frame>>] /\ running' = t
        /\ running = Idle /\ result' = result
    BY <1>1 DEF Receive, Free
  <2>4. CacheTypeOK'
    BY <1>1 DEF Receive, IInv, CacheTypeOK
  <2> HIDE DEF frame
  <2>5. WalkStep(t)
    BY <2>2, <2>3, <2>4, RecursionConstants DEF WalkStep, IInv
  <2>6. /\ question' \in [Task -> Question \cup {Nothing}]
        /\ handled' \in [Task -> Result \cup {Nothing}]
        /\ received' \in 0 .. MaxQueries
    BY <1>1, RecursionConstants DEF Receive, Free, IInv
  <2> QED
    BY <2>3, <2>5, <2>6, WalkStepKeeps
<1>2. ASSUME NEW t \in Task, RejectEmpty(t)
      PROVE  IInv'
  <2>1. /\ UNCHANGED <<stack, running, result, now, store, hits, misses>>
        /\ received' \in 0 .. MaxQueries
    BY <1>2, RecursionConstants DEF RejectEmpty, Free, IInv
  <2>2. CacheTypeOK'
    BY <2>1 DEF IInv, CacheTypeOK
  <2>3. question' \in [Task -> Question \cup {Nothing}]
    BY <1>2 DEF RejectEmpty, IInv
  <2>4. handled' \in [Task -> Result \cup {Nothing}]
    <3>1. [rcode |-> "FORMERR", answers |-> <<>>, authorities |-> <<>>,
           from_cache |-> FALSE] \in Result
      BY DEF Result, RCode
    <3> QED
      BY <1>2, <3>1 DEF RejectEmpty, IInv
  <2> QED
    BY <2>1, <2>2, <2>3, <2>4 DEF IInv
<1>3. ASSUME NEW t \in Task, Progress(t)
      PROVE  IInv'
  <2>1. CASE Respond(t)
    <3>1. /\ running = t /\ stack[t] = <<>> /\ result \in Result
          /\ running' = Idle /\ result' = Nothing
          /\ UNCHANGED <<stack, question, received, now, store, hits, misses>>
      BY <2>1 DEF Respond, IInv
    <3>2. CacheTypeOK'
      BY <3>1 DEF IInv, CacheTypeOK
    <3>3. handled' \in [Task -> Result \cup {Nothing}]
      BY <2>1, <3>1 DEF Respond, IInv
    <3>4. \A u \in Task : Waiting(stack[u])
      BY <3>1 DEF IInv, Waiting
    <3> QED
      BY <3>1, <3>2, <3>3, <3>4 DEF IInv
  <2>2. CASE ~Respond(t)
    <3>1. WalkStep(t)
      BY <1>3, <2>2, LookupSteps, HearSteps, AskSteps, ReturnSteps DEF Progress
    <3>2. running \in {t, Idle} /\ UNCHANGED <<question, handled, received>>
      BY <1>3, <2>2
      DEF Progress, CacheHit, StartWalk, TooDeep, LookingUp, Hear, HearAnswer,
          HearAlias, HearDenial, HearNoData, HearReferral, HearGlueless, Awaiting,
          TryNextServer, NoServerAnswers, ReturnAlias, ReturnAddresses,
          ReturnNextName, ReturnNoAddress, Returning, RestKept
    <3> QED
      BY <3>1, <3>2, WalkStepKeeps DEF IInv
  <2> QED
    BY <2>1, <2>2
<1>4. ASSUME Wait
      PROVE  IInv'
  <2>1. CacheTypeOK'
    BY <1>4, TickType DEF Wait, IInv
  <2> QED
    BY <1>4, <2>1 DEF Wait, walkVars, IInv
<1>5. ASSUME UNCHANGED vars
      PROVE  IInv'
  <2>1. CacheTypeOK'
    BY <1>5 DEF vars, IInv, CacheTypeOK
  <2> QED
    BY <1>5, <2>1 DEF vars, IInv
<1> QED
  BY <1>1, <1>2, <1>3, <1>4, <1>5 DEF Next, Quiesced

-----------------------------------------------------------------------------
(* Lifetimes: what the records of an entry, a result and a frame have left *)
(* of the life their authority gave them.                                  *)

AliasesOnly(records) == \A i \in DOMAIN records : records[i].rtype = "CNAME"

(* Only a positive answer holds records that are not aliases, and those    *)
(* live as long as they say from the given tick on.                        *)
AnswersLast(rcode, answers, tick) ==
    /\ rcode # "NOERROR" => AliasesOnly(answers)
    /\ \A i \in DOMAIN answers : VouchedFor(answers[i], answers[i].ttl, tick)

(* In an entry they live as long as the entry.                             *)
EntryLasts(e) ==
    /\ e.rcode # "NOERROR" => AliasesOnly(e.answers)
    /\ \A i \in DOMAIN e.answers : VouchedFor(e.answers[i], e.ttl, e.stored_at)

StoreLasts == \A k \in Key : store[k] # NoEntry => EntryLasts(store[k])

(* What waits in a frame to be put in front of a chain is an alias.        *)
HoldsAliases(s) == \A i \in 1 .. Len(s) : AliasesOnly(s[i].cname)

(* The strengthening of TargetsWithinLifetime: entries, the result on its  *)
(* way between two coroutines, and the aliases that wait in the frames.    *)
LifeInv ==
    /\ StoreLasts
    /\ result # Nothing => AnswersLast(result.rcode, result.answers, now)
    /\ \A t \in Task : HoldsAliases(stack[t])

LEMMA LifeInvImplies ==
    ASSUME IInv, LifeInv
    PROVE  TargetsWithinLifetime
<1>1. ASSUME NEW k \in Key, store[k] # NoEntry, NEW r \in Range(store[k].answers)
      PROVE  VouchedFor(r, store[k].ttl, store[k].stored_at)
  <2>1. PICK i \in DOMAIN store[k].answers : r = store[k].answers[i]
    BY <1>1 DEF Range
  <2> QED
    BY <1>1, <2>1 DEF LifeInv, StoreLasts, EntryLasts
<1>2. ASSUME result # Nothing, NEW r \in Range(result.answers)
      PROVE  VouchedFor(r, r.ttl, now)
  <2>1. PICK i \in DOMAIN result.answers : r = result.answers[i]
    BY <1>2 DEF Range
  <2> QED
    BY <1>2, <2>1 DEF LifeInv, AnswersLast
<1> QED
  BY <1>1, <1>2 DEF TargetsWithinLifetime

(* A shorter promise is kept by whoever keeps a longer one.                *)
LEMMA VouchedShorter ==
    ASSUME NEW r \in Record, NEW seconds \in Nat, NEW fewer \in Nat, fewer <= seconds,
           NEW tick \in Nat, VouchedFor(r, seconds, tick)
    PROVE  VouchedFor(r, fewer, tick)
<1>1. \A a, b, n \in Nat : a <= b => a * n <= b * n
  OBVIOUS
<1>2. fewer * TicksPerSecond <= seconds * TicksPerSecond
  BY <1>1, CacheConstants
<1>3. fewer * TicksPerSecond \in Nat /\ seconds * TicksPerSecond \in Nat
  BY CacheConstants
<1>4. r.until \in Nat
  BY DEF Record
<1> QED
  BY <1>2, <1>3, <1>4 DEF VouchedFor

(* Put gives an entry no longer life than the shortest of its answers.     *)
LEMMA PutLasts ==
    ASSUME MinTtl = 0, CacheTypeOK, StoreLasts, NEW k \in Key, NEW rcode \in RCode,
           NEW answers \in Seq(Record), NEW authorities \in Seq(Record),
           AnswersLast(rcode, answers, now),
           Put(k, rcode, answers, authorities)
    PROVE  StoreLasts'
<1> DEFINE ttl == ComputeTtl(rcode, answers, authorities)
           new == [rcode |-> rcode, answers |-> answers,
                   authorities |-> authorities, stored_at |-> now, ttl |-> ttl]
<1>1. ttl \in Nat /\ now \in Nat
  BY ComputeTtlType, CacheConstants DEF AtLeast, CacheTypeOK
<1>2. CASE ttl <= 0
  BY <1>2 DEF Put, StoreLasts
<1>3. CASE ttl > 0
  <2>1. store' = [store EXCEPT ![k] = new]
    BY <1>1, <1>3 DEF Put
  <2>2. EntryLasts(new)
    <3>1. CASE IsPositive(rcode, answers)
      <4>1. rcode = "NOERROR"
        BY <3>1 DEF IsPositive
      <4>2. ASSUME NEW i \in DOMAIN answers
            PROVE  VouchedFor(answers[i], ttl, now)
        <5>1. answers[i] \in Record /\ answers[i].ttl \in Nat
          BY RecordTtls
        <5>2. ttl <= answers[i].ttl
          BY <3>1, ComputeTtlWithin
        <5>3. VouchedFor(answers[i], answers[i].ttl, now)
          BY DEF AnswersLast
        <5> HIDE DEF ttl
        <5> QED
          BY <1>1, <5>1, <5>2, <5>3, VouchedShorter
      <4> QED
        BY <4>1, <4>2 DEF EntryLasts
    <3>2. CASE ~IsPositive(rcode, answers)
      <4>1. AliasesOnly(answers)
        BY <3>2 DEF IsPositive, AnswersLast, AliasesOnly
      <4> QED
        BY <4>1 DEF EntryLasts, AliasesOnly, VouchedFor
    <3> QED
      BY <3>1, <3>2
  <2> HIDE DEF new
  <2>3. \A j \in Key : store'[j] = new \/ store'[j] = store[j]
    BY <2>1 DEF CacheTypeOK
  <2> QED
    BY <2>2, <2>3 DEF StoreLasts
<1> QED
  BY <1>1, <1>2, <1>3

(* A copy of an entry counts down, so its records still live as long as    *)
(* they say.                                                               *)
LEMMA CopyLasts ==
    ASSUME CacheTypeOK, StoreLasts, NEW k \in Key, IsLive(k)
    PROVE  AnswersLast(FreshCopy(k).rcode, FreshCopy(k).answers, now)
<1> DEFINE e == store[k]
           left == Remaining(e)
<1>1. e \in Entry /\ now \in Nat /\ EntryLasts(e)
  BY DEF CacheTypeOK, IsLive, StoreLasts
<1>2. e.answers \in Seq(Record) /\ e.stored_at \in Nat /\ e.ttl \in Nat
  BY <1>1 DEF Entry
<1>3. left \in Nat /\ now + left * TicksPerSecond <= ExpiresAt(e)
  BY <1>1, RemainingRounds DEF IsLive
<1>4. FreshCopy(k).rcode = e.rcode /\ FreshCopy(k).answers = CountDown(e.answers, left)
  BY DEF FreshCopy
<1> HIDE DEF e, left
<1>5. /\ DOMAIN CountDown(e.answers, left) = DOMAIN e.answers
      /\ \A i \in DOMAIN e.answers :
            /\ CountDown(e.answers, left)[i].rtype = e.answers[i].rtype
            /\ CountDown(e.answers, left)[i].until = e.answers[i].until
            /\ CountDown(e.answers, left)[i].ttl = left
  <2>1. \A r \in Record : [r EXCEPT !.ttl = left].ttl = left
    BY <1>3 DEF Record
  <2>2. \A i \in DOMAIN e.answers : e.answers[i] \in Record
    BY <1>2, RecordTtls
  <2> QED
    BY <1>2, <1>3, <2>1, <2>2, CountDownKeeps DEF CountDown
<1>6. ASSUME NEW i \in DOMAIN e.answers, e.answers[i].rtype # "CNAME"
      PROVE  e.answers[i].until >= now + left * TicksPerSecond
  <2>1. e.answers[i].until >= e.stored_at + e.ttl * TicksPerSecond
    BY <1>1, <1>6 DEF EntryLasts, VouchedFor
  <2>2. e.answers[i].until \in Nat
    BY <1>2, RecordTtls DEF Record
  <2>3. left * TicksPerSecond \in Nat /\ e.ttl * TicksPerSecond \in Nat
    BY <1>2, <1>3, CacheConstants
  <2> QED
    BY <1>1, <1>2, <1>3, <2>1, <2>2, <2>3 DEF ExpiresAt
<1> QED
  BY <1>1, <1>4, <1>5, <1>6 DEF AnswersLast, AliasesOnly, EntryLasts, VouchedFor

(* The operators the actions are built from keep LifeInv.                  *)

(* The elements of two joined sequences.                                   *)
LEMMA ConcatElements ==
    ASSUME NEW a \in Seq(Record), NEW b \in Seq(Record)
    PROVE  /\ a \o b \in Seq(Record)
           /\ \A i \in DOMAIN (a \o b) : \/ \E j \in DOMAIN a : (a \o b)[i] = a[j]
                                         \/ \E j \in DOMAIN b : (a \o b)[i] = b[j]
<1> DEFINE c == a \o b
<1>1. /\ c \in Seq(Record)
      /\ Len(c) = Len(a) + Len(b)
      /\ \A i \in 1 .. Len(a) + Len(b) : c[i] = IF i <= Len(a) THEN a[i] ELSE b[i - Len(a)]
  BY ConcatProperties
<1> HIDE DEF c
<1>2. /\ DOMAIN a = 1 .. Len(a) /\ DOMAIN b = 1 .. Len(b) /\ DOMAIN c = 1 .. Len(c)
      /\ Len(a) \in Nat /\ Len(b) \in Nat
  BY <1>1
<1>3. ASSUME NEW i \in DOMAIN c
      PROVE  \/ \E j \in DOMAIN a : c[i] = a[j]
             \/ \E j \in DOMAIN b : c[i] = b[j]
  <2>1. CASE i <= Len(a)
    BY <1>1, <1>2, <2>1
  <2>2. CASE ~(i <= Len(a))
    <3>1. i - Len(a) \in DOMAIN b /\ c[i] = b[i - Len(a)]
      BY <1>1, <1>2, <2>2
    <3> QED
      BY <3>1
  <2> QED
    BY <2>1, <2>2
<1> QED
  BY <1>1, <1>3 DEF c

(* And every element of either is one of the whole.                        *)
LEMMA ConcatCovers ==
    ASSUME NEW a \in Seq(Record), NEW b \in Seq(Record)
    PROVE  /\ \A j \in DOMAIN a : \E i \in DOMAIN (a \o b) : (a \o b)[i] = a[j]
           /\ \A j \in DOMAIN b : \E i \in DOMAIN (a \o b) : (a \o b)[i] = b[j]
<1> DEFINE c == a \o b
<1>1. /\ Len(c) = Len(a) + Len(b) /\ c \in Seq(Record)
      /\ \A i \in 1 .. Len(a) + Len(b) : c[i] = IF i <= Len(a) THEN a[i] ELSE b[i - Len(a)]
  BY ConcatProperties
<1> HIDE DEF c
<1>2. /\ DOMAIN a = 1 .. Len(a) /\ DOMAIN b = 1 .. Len(b) /\ DOMAIN c = 1 .. Len(c)
      /\ Len(a) \in Nat /\ Len(b) \in Nat
  BY <1>1
<1>3. ASSUME NEW j \in DOMAIN a
      PROVE  j \in DOMAIN c /\ c[j] = a[j]
  BY <1>1, <1>2
<1>4. ASSUME NEW j \in DOMAIN b
      PROVE  j + Len(a) \in DOMAIN c /\ c[j + Len(a)] = b[j]
  <2>1. j + Len(a) \in 1 .. Len(a) + Len(b) /\ ~(j + Len(a) <= Len(a))
        /\ j + Len(a) - Len(a) = j
    BY <1>2
  <2> QED
    BY <1>1, <1>2, <2>1
<1> QED
  BY <1>3, <1>4 DEF c

LEMMA HoldsAliasesPop ==
    ASSUME NEW s \in Seq(Frame), s # <<>>, HoldsAliases(s)
    PROVE  HoldsAliases(Front(s))
<1>1. Len(s) \in Nat \ {0}
  OBVIOUS
<1>2. /\ Len(Front(s)) = Len(s) - 1
      /\ \A i \in 1 .. Len(s) - 1 : Front(s)[i] = s[i]
  BY FrontProperties
<1> QED
  BY <1>1, <1>2 DEF HoldsAliases

LEMMA HoldsAliasesAppend ==
    ASSUME NEW s \in Seq(Frame), HoldsAliases(s),
           NEW frame \in Frame, AliasesOnly(frame.cname)
    PROVE  Append(s, frame) \in Seq(Frame) /\ HoldsAliases(Append(s, frame))
<1>1. /\ Append(s, frame) \in Seq(Frame)
      /\ Len(Append(s, frame)) = Len(s) + 1
      /\ \A i \in 1 .. Len(s) : Append(s, frame)[i] = s[i]
      /\ Append(s, frame)[Len(s) + 1] = frame
  BY AppendProperties
<1>2. Len(s) \in Nat
  OBVIOUS
<1> QED
  BY <1>1, <1>2 DEF HoldsAliases

(* Whatever changes one stack and keeps the three parts keeps LifeInv.     *)
LEMMA LifeStep ==
    ASSUME IInv, LifeInv, NEW t \in Task, NEW s, HoldsAliases(s),
           stack' = [stack EXCEPT ![t] = s], StoreLasts',
           result' # Nothing => AnswersLast(result'.rcode, result'.answers, now')
    PROVE  LifeInv'
<1>1. \A u \in Task : stack'[u] = IF u = t THEN s ELSE stack[u]
  BY DEF IInv
<1>2. \A u \in Task : HoldsAliases(stack'[u])
  BY <1>1 DEF LifeInv
<1> QED
  BY <1>2 DEF LifeInv

(* The top of a task's stack: its frame, its key and what lies below it.   *)
LEMMA TopLife ==
    ASSUME IInv, LifeInv, NEW t \in Task, stack[t] # <<>>
    PROVE  /\ Top(t) \in Frame /\ KeyOf(Top(t)) \in Key
           /\ AliasesOnly(Top(t).cname)
           /\ Front(stack[t]) \in Seq(Frame)
           /\ HoldsAliases(Front(stack[t]))
<1>1. /\ Top(t) \in Frame /\ Top(t) = stack[t][Len(stack[t])]
      /\ Len(stack[t]) \in Nat \ {0} /\ stack[t] \in Seq(Frame)
  BY TopProperties DEF WellFormed
<1>2. KeyOf(Top(t)) \in Key
  <2>1. Top(t).name \in Name /\ Top(t).qtype \in RType /\ "IN" \in RClass
    BY <1>1, RecursionConstants DEF Frame
  <2> QED
    BY <2>1 DEF KeyOf, Key
<1>3. HoldsAliases(stack[t])
  BY DEF LifeInv
<1>4. AliasesOnly(Top(t).cname)
  BY <1>1, <1>3 DEF HoldsAliases
<1> QED
  BY <1>1, <1>2, <1>3, <1>4, FrontProperties, HoldsAliasesPop

LEMMA FinishLife ==
    ASSUME MinTtl = 0, IInv, LifeInv, NEW t \in Task, stack[t] # <<>>,
           NEW rcode \in RCode, NEW answers \in Seq(Record),
           NEW authorities \in Seq(Record), AnswersLast(rcode, answers, now),
           Finish(t, rcode, answers, authorities)
    PROVE  LifeInv'
<1>1. KeyOf(Top(t)) \in Key /\ HoldsAliases(Front(stack[t]))
  BY TopLife
<1>2. StoreLasts' /\ now' = now
  <2>1. CASE rcode \in {"NOERROR", "NXDOMAIN"}
    <3>1. Put(KeyOf(Top(t)), rcode, answers, authorities)
      BY <2>1 DEF Finish
    <3> QED
      BY <1>1, <3>1, PutLasts DEF IInv, LifeInv, Put
  <2>2. CASE rcode \notin {"NOERROR", "NXDOMAIN"}
    BY <2>2 DEF Finish, cacheVars, LifeInv, StoreLasts
  <2> QED
    BY <2>1, <2>2
<1>3. /\ result' = [rcode |-> rcode, answers |-> answers,
                    authorities |-> authorities, from_cache |-> FALSE]
      /\ stack' = [stack EXCEPT ![t] = Front(stack[t])]
  BY DEF Finish, Pop
<1>4. AnswersLast(result'.rcode, result'.answers, now')
  BY <1>2, <1>3
<1> QED
  BY <1>1, <1>2, <1>3, <1>4, LifeStep

LEMMA NoAnswersLast ==
    \A rcode, tick : AnswersLast(rcode, <<>>, tick)
BY DEF AnswersLast, AliasesOnly

LEMMA FailLife ==
    ASSUME MinTtl = 0, IInv, LifeInv, NEW t \in Task, stack[t] # <<>>, Fail(t)
    PROVE  LifeInv'
<1>1. <<>> \in Seq(Record) /\ "SERVFAIL" \in RCode
  BY DEF RCode
<1> QED
  BY <1>1, NoAnswersLast, FinishLife DEF Fail

(* Putting another frame on top, with or without a lookup above it.        *)
LEMMA ReplaceLife ==
    ASSUME IInv, LifeInv, NEW t \in Task, stack[t] # <<>>,
           NEW frame \in Frame, AliasesOnly(frame.cname),
           stack' = ReplaceTop(t, frame), StoreLasts', result' = Nothing
    PROVE  LifeInv'
<1>1. HoldsAliases(Append(Front(stack[t]), frame))
  BY TopLife, HoldsAliasesAppend
<1> DEFINE s == Append(Front(stack[t]), frame)
<1>2. stack' = [stack EXCEPT ![t] = s]
  BY DEF ReplaceTop
<1> HIDE DEF s
<1> QED
  BY <1>1, <1>2, LifeStep DEF s

LEMMA CallLife ==
    ASSUME IInv, LifeInv, NEW t \in Task, stack[t] # <<>>,
           NEW frame \in Frame, AliasesOnly(frame.cname),
           NEW name \in Name, NEW qtype \in RType,
           Call(t, frame, name, qtype)
    PROVE  LifeInv'
<1> DEFINE below == Append(Front(stack[t]), frame)
           s == Append(below, LookupFrame(name, qtype))
<1>1. below \in Seq(Frame) /\ HoldsAliases(below)
  BY TopLife, HoldsAliasesAppend
<1>2. AliasesOnly(LookupFrame(name, qtype).cname)
  BY DEF LookupFrame, AliasesOnly
<1>3. HoldsAliases(s)
  <2> HIDE DEF below
  <2> QED
    BY <1>1, <1>2, LookupFrameType, HoldsAliasesAppend
<1>4. stack' = [stack EXCEPT ![t] = s] /\ result' = Nothing
  BY DEF Call
<1>5. StoreLasts'
  BY DEF Call, cacheVars, LifeInv, StoreLasts
<1> HIDE DEF s
<1> QED
  BY <1>3, <1>4, <1>5, LifeStep

LEMMA DescendLife ==
    ASSUME MinTtl = 0, IInv, LifeInv, NEW t \in Task, stack[t] # <<>>,
           NEW servers \in Nat, Descend(t, servers)
    PROVE  LifeInv'
<1>1. CASE Top(t).hops < MaxDelegations
  <2> DEFINE frame == [Top(t) EXCEPT !.op = "ask", !.left = servers,
                                     !.hops = @ + 1, !.referral = <<>>, !.todo = {}]
  <2>1. Top(t) \in Frame /\ AliasesOnly(Top(t).cname)
    BY TopLife
  <2>2. frame \in Frame /\ frame.cname = Top(t).cname
    <3>1. Top(t).hops + 1 \in 0 .. MaxDelegations
      BY <1>1, <2>1, RecursionConstants DEF Frame
    <3>2. <<>> \in Seq(Name)
      OBVIOUS
    <3> QED
      BY <2>1, <3>1, <3>2 DEF Frame
  <2>3. stack' = ReplaceTop(t, frame) /\ result' = Nothing
    BY <1>1 DEF Descend
  <2>4. StoreLasts'
    BY <1>1 DEF Descend, cacheVars, LifeInv, StoreLasts
  <2> HIDE DEF frame
  <2> QED
    BY <2>1, <2>2, <2>3, <2>4, ReplaceLife
<1>2. CASE ~(Top(t).hops < MaxDelegations)
  BY <1>2, FailLife DEF Descend
<1> QED
  BY <1>1, <1>2

LEMMA LookupLife ==
    ASSUME IInv, LifeInv, NEW t \in Task, CacheHit(t) \/ StartWalk(t) \/ TooDeep(t)
    PROVE  LifeInv'
<1>1. stack[t] # <<>> /\ result = Nothing
  BY DEF CacheHit, StartWalk, TooDeep, LookingUp
<1>2. /\ Top(t) \in Frame /\ KeyOf(Top(t)) \in Key /\ AliasesOnly(Top(t).cname)
      /\ HoldsAliases(Front(stack[t]))
  BY <1>1, TopLife
<1>3. CacheTypeOK /\ StoreLasts
  BY DEF IInv, LifeInv
<1>4. CASE CacheHit(t)
  <2>1. AnswersLast(FreshCopy(KeyOf(Top(t))).rcode, FreshCopy(KeyOf(Top(t))).answers, now)
    BY <1>2, <1>3, <1>4, CopyLasts DEF CacheHit, GetHit
  <2>2. /\ result'.rcode = FreshCopy(KeyOf(Top(t))).rcode
        /\ result'.answers = FreshCopy(KeyOf(Top(t))).answers
        /\ now' = now /\ store' = store
        /\ stack' = [stack EXCEPT ![t] = Front(stack[t])]
    BY <1>4 DEF CacheHit, GetHit, Pop
  <2>3. StoreLasts'
    BY <1>3, <2>2 DEF StoreLasts
  <2> QED
    BY <1>2, <2>1, <2>2, <2>3, LifeStep
<1>5. ASSUME GetMiss(KeyOf(Top(t)))
      PROVE  StoreLasts'
  BY <1>2, <1>3, <1>5 DEF GetMiss, StoreLasts, CacheTypeOK
<1>6. CASE StartWalk(t)
  <2> DEFINE frame == [Top(t) EXCEPT !.op = "ask", !.hops = 1, !.left = RootServers]
  <2>1. frame \in Frame /\ frame.cname = Top(t).cname
    <3>1. 1 \in 0 .. MaxDelegations /\ RootServers \in Nat
      BY RecursionConstants
    <3> QED
      BY <1>2, <3>1 DEF Frame
  <2>2. stack' = ReplaceTop(t, frame) /\ result' = Nothing
    BY <1>1, <1>6 DEF StartWalk
  <2> HIDE DEF frame
  <2> QED
    BY <1>1, <1>2, <1>5, <1>6, <2>1, <2>2, ReplaceLife DEF StartWalk
<1>7. CASE TooDeep(t)
  <2>1. /\ result'.rcode = "SERVFAIL" /\ result'.answers = <<>>
        /\ stack' = [stack EXCEPT ![t] = Front(stack[t])]
    BY <1>7 DEF TooDeep, Pop
  <2> QED
    BY <1>2, <1>5, <1>7, <2>1, NoAnswersLast, LifeStep DEF TooDeep
<1> QED
  BY <1>4, <1>6, <1>7

LEMMA HearLife ==
    ASSUME MinTtl = 0, IInv, LifeInv, NEW t \in Task, Awaiting(t), Hear(t)
    PROVE  LifeInv'
<1>1. stack[t] # <<>> /\ Top(t).op = "ask"
  BY DEF Awaiting
<1>2. Top(t) \in Frame /\ AliasesOnly(Top(t).cname)
  BY <1>1, TopLife
<1>3. PICK m \in Replies[<<Top(t).name, Top(t).qtype>>] :
         \/ HearAnswer(t, m)   \/ HearAlias(t, m)    \/ HearDenial(t, m)
         \/ HearNoData(t, m)   \/ HearReferral(t, m) \/ HearGlueless(t, m)
  BY DEF Hear
<1>4. /\ Top(t).name \in Name /\ Top(t).qtype \in RType
      /\ m.answers \in Seq(Record) /\ m.authorities \in Seq(Record)
      /\ m.additionals \in Seq(Record)
      /\ Stamp(m.answers) \in Seq(Record)
      /\ DOMAIN Stamp(m.answers) = DOMAIN m.answers
      /\ Stamp(m.authorities) \in Seq(Record)
  BY MessageType
<1>5. <<>> \in Seq(Record) /\ {"NOERROR", "NXDOMAIN"} \subseteq RCode
  BY DEF RCode
<1>6. CASE HearAnswer(t, m)
  <2>1. now \in Nat
    BY DEF IInv, CacheTypeOK
  <2>2. \A i \in DOMAIN m.answers :
            /\ Stamp(m.answers)[i] \in Record
            /\ Stamp(m.answers)[i].until =
                   now + Stamp(m.answers)[i].ttl * TicksPerSecond
    BY <1>4, <2>1, StampKeeps
  <2>3. \A i \in DOMAIN m.answers :
            VouchedFor(Stamp(m.answers)[i], Stamp(m.answers)[i].ttl, now)
    <3>1. \A r \in Record : now + r.ttl * TicksPerSecond \in Nat
      <4>1. \A n \in Nat : now + n * TicksPerSecond \in Nat
        BY <2>1, CacheConstants
      <4> QED
        BY <4>1 DEF Record
    <3> QED
      BY <2>2, <3>1 DEF VouchedFor
  <2>4. AnswersLast("NOERROR", Stamp(m.answers), now)
    BY <1>4, <2>3 DEF AnswersLast
  <2> QED
    BY <1>1, <1>4, <1>5, <1>6, <2>4, FinishLife DEF HearAnswer
<1>7. CASE HearDenial(t, m)
  BY <1>1, <1>4, <1>5, <1>7, NoAnswersLast, FinishLife DEF HearDenial
<1>8. CASE HearNoData(t, m)
  BY <1>1, <1>4, <1>5, <1>8, NoAnswersLast, FinishLife DEF HearNoData
<1>9. CASE HearAlias(t, m)
  <2> DEFINE i == Min(PositionsOf(m.answers, "CNAME"))
             cname == Stamp(m.answers)[i]
             frame == [Top(t) EXCEPT !.op = "alias", !.cname = <<cname>>]
  <2>1. i \in DOMAIN m.answers /\ m.answers[i].rtype = "CNAME"
    BY <1>4, <1>9, FirstPosition DEF HearAlias, IsAlias
  <2>2. cname \in Record /\ cname.rtype = "CNAME"
    <3>1. now \in Nat
      BY DEF IInv, CacheTypeOK
    <3> QED
      BY <1>4, <2>1, <3>1, StampKeeps
  <2>3. cname.target \in Name /\ <<cname>> \in Seq(Record)
    BY <2>2, TargetType
  <2>4. Call(t, frame, cname.target, Top(t).qtype)
    BY <1>9 DEF HearAlias
  <2> HIDE DEF cname
  <2>5. frame \in Frame /\ frame.cname = <<cname>>
    BY <1>2, <2>3 DEF Frame
  <2>6. AliasesOnly(frame.cname)
    BY <2>2, <2>5 DEF AliasesOnly
  <2> HIDE DEF frame
  <2> QED
    BY <1>1, <1>4, <2>3, <2>4, <2>5, <2>6, CallLife
<1>10. CASE HearReferral(t, m)
  <2>1. Glue(m) \in SUBSET PositionsOf(m.additionals, "A")
    BY DEF Glue
  <2>2. Cardinality(Glue(m)) \in Nat \ {0}
    BY <1>4, <1>10, <2>1, PositionsProperties DEF HearReferral
  <2> QED
    BY <1>1, <1>10, <2>2, DescendLife DEF HearReferral
<1>11. CASE HearGlueless(t, m)
  <2> DEFINE first == Min(NsPositions(m))
             names == [i \in DOMAIN m.authorities |-> m.authorities[i].target]
             rest == NsPositions(m) \ {first}
             frame == [Top(t) EXCEPT !.op = "glue", !.referral = names, !.todo = rest]
  <2>1. first \in DOMAIN m.authorities /\ NsPositions(m) \in SUBSET Nat
    BY <1>4, <1>11, FirstPosition DEF HearGlueless, NsPositions
  <2>2. m.authorities[first].target \in Name
    BY <1>4, <2>1, TargetType
  <2>3. names \in Seq(Name)
    BY <1>4, TargetsType
  <2>4. Call(t, frame, m.authorities[first].target, "A")
    BY <1>11 DEF HearGlueless
  <2>5. rest \in SUBSET Nat
    BY <2>1
  <2> HIDE DEF names, rest
  <2>6. frame \in Frame /\ frame.cname = Top(t).cname
    BY <1>2, <2>3, <2>5 DEF Frame
  <2> HIDE DEF frame, first
  <2>7. "A" \in RType
    BY CacheConstants
  <2> QED
    BY <1>1, <1>2, <2>2, <2>4, <2>6, <2>7, CallLife
<1> QED
  BY <1>3, <1>6, <1>7, <1>8, <1>9, <1>10, <1>11

LEMMA AskLife ==
    ASSUME MinTtl = 0, IInv, LifeInv, NEW t \in Task,
           TryNextServer(t) \/ NoServerAnswers(t)
    PROVE  LifeInv'
<1>1. stack[t] # <<>> /\ running = Idle /\ result = Nothing
  BY DEF TryNextServer, NoServerAnswers, Awaiting, IInv
<1>2. CASE NoServerAnswers(t)
  BY <1>1, <1>2, FailLife DEF NoServerAnswers
<1>3. CASE TryNextServer(t)
  <2> DEFINE frame == [Top(t) EXCEPT !.left = @ - 1]
  <2>1. Top(t) \in Frame /\ AliasesOnly(Top(t).cname)
    BY <1>1, TopLife
  <2>2. frame \in Frame /\ frame.cname = Top(t).cname
    <3>1. Top(t).left - 1 \in Nat
      BY <1>3, <2>1 DEF TryNextServer, Frame
    <3> QED
      BY <2>1, <3>1 DEF Frame
  <2>3. stack' = ReplaceTop(t, frame) /\ result' = Nothing /\ store' = store
    BY <1>1, <1>3 DEF TryNextServer
  <2>4. StoreLasts'
    BY <2>3 DEF LifeInv, StoreLasts
  <2> HIDE DEF frame
  <2> QED
    BY <1>1, <2>1, <2>2, <2>3, <2>4, ReplaceLife
<1> QED
  BY <1>2, <1>3

LEMMA ReturnLife ==
    ASSUME MinTtl = 0, IInv, LifeInv, NEW t \in Task,
           \/ ReturnAlias(t) \/ ReturnAddresses(t)
           \/ ReturnNextName(t) \/ ReturnNoAddress(t)
    PROVE  LifeInv'
<1>1. stack[t] # <<>> /\ result # Nothing
  BY DEF ReturnAlias, ReturnAddresses, ReturnNextName, ReturnNoAddress, Returning
<1>2. Top(t) \in Frame /\ AliasesOnly(Top(t).cname)
  BY <1>1, TopLife
<1>3. /\ result.rcode \in RCode
      /\ result.answers \in Seq(Record) /\ result.authorities \in Seq(Record)
      /\ AnswersLast(result.rcode, result.answers, now)
  BY <1>1 DEF IInv, Result, LifeInv
<1>4. CASE ReturnAlias(t)
  <2> DEFINE chain == Top(t).cname \o result.answers
  <2>1. Top(t).cname \in Seq(Record)
    BY <1>2 DEF Frame
  <2>2. /\ chain \in Seq(Record)
        /\ \A i \in DOMAIN chain :
              \/ \E j \in DOMAIN Top(t).cname : chain[i] = Top(t).cname[j]
              \/ \E j \in DOMAIN result.answers : chain[i] = result.answers[j]
    BY <1>3, <2>1, ConcatElements
  <2> HIDE DEF chain
  <2>4. ASSUME NEW i \in DOMAIN chain
        PROVE  \/ chain[i].rtype = "CNAME"
               \/ \E j \in DOMAIN result.answers : chain[i] = result.answers[j]
    BY <1>2, <2>2 DEF AliasesOnly
  <2>5. AnswersLast(result.rcode, chain, now)
    BY <1>3, <2>4 DEF AnswersLast, AliasesOnly, VouchedFor
  <2> QED
    BY <1>1, <1>3, <1>4, <2>2, <2>5, FinishLife DEF ReturnAlias, chain
<1>5. CASE ReturnAddresses(t)
  <2>1. Addresses \in SUBSET PositionsOf(result.answers, "A")
    BY DEF Addresses
  <2>2. Cardinality(Addresses) \in Nat \ {0}
    BY <1>3, <1>5, <2>1, PositionsProperties DEF ReturnAddresses
  <2> QED
    BY <1>1, <1>5, <2>2, DescendLife DEF ReturnAddresses
<1>6. CASE ReturnNextName(t)
  <2> DEFINE next == Min(Top(t).todo)
             rest == Top(t).todo \ {next}
             frame == [Top(t) EXCEPT !.todo = rest]
  <2>1. /\ Top(t).todo \in SUBSET Nat /\ Top(t).todo # {}
        /\ Top(t).referral \in Seq(Name)
        /\ Top(t).todo \subseteq DOMAIN Top(t).referral
    BY <1>1, <1>2, <1>6, TopProperties DEF ReturnNextName, Frame
  <2>2. next \in Top(t).todo
    BY <2>1, MinNat
  <2>3. Top(t).referral[next] \in Name
    BY <2>1, <2>2
  <2>4. Call(t, frame, Top(t).referral[next], "A")
    BY <1>6 DEF ReturnNextName
  <2>5. rest \in SUBSET Nat
    BY <2>1
  <2> HIDE DEF rest, next
  <2>6. frame \in Frame /\ frame.cname = Top(t).cname
    BY <1>2, <2>5 DEF Frame
  <2> HIDE DEF frame
  <2>7. "A" \in RType
    BY CacheConstants
  <2> QED
    BY <1>1, <1>2, <2>3, <2>4, <2>6, <2>7, CallLife
<1>7. CASE ReturnNoAddress(t)
  BY <1>1, <1>7, FailLife DEF ReturnNoAddress
<1> QED
  BY <1>4, <1>5, <1>6, <1>7

LEMMA InitLife == Init => LifeInv
<1> SUFFICES ASSUME Init
             PROVE  LifeInv
  OBVIOUS
<1>1. StoreLasts
  BY DEF Init, CacheInit, StoreLasts
<1>2. \A t \in Task : HoldsAliases(stack[t])
  BY DEF Init, HoldsAliases
<1> QED
  BY <1>1, <1>2 DEF Init, LifeInv

LEMMA NextLife ==
    ASSUME MinTtl = 0, IInv, LifeInv, [Next]_vars
    PROVE  LifeInv'
<1>1. ASSUME NEW t \in Task, NEW q \in Question, Receive(t, q)
      PROVE  LifeInv'
  <2> DEFINE frame == LookupFrame(q[1], q[2])
  <2>1. /\ stack' = [stack EXCEPT ![t] = <<frame>>]
        /\ result' = Nothing /\ store' = store
    BY <1>1 DEF Receive, Free, IInv
  <2>2. AliasesOnly(frame.cname)
    BY DEF LookupFrame, AliasesOnly
  <2> HIDE DEF frame
  <2>3. HoldsAliases(<<frame>>)
    BY <2>2 DEF HoldsAliases
  <2>4. StoreLasts'
    BY <2>1 DEF LifeInv, StoreLasts
  <2> QED
    BY <2>1, <2>3, <2>4, LifeStep
<1>2. ASSUME UNCHANGED <<store, stack>>, now' = now \/ result' = Nothing,
             result' \in {result, Nothing}
      PROVE  LifeInv'
  BY <1>2 DEF LifeInv, StoreLasts
<1>3. ASSUME NEW t \in Task, Progress(t)
      PROVE  LifeInv'
  <2>1. CASE Respond(t)
    BY <1>2, <2>1 DEF Respond
  <2>2. CASE ~Respond(t)
    BY <1>3, <2>2, LookupLife, HearLife, AskLife, ReturnLife DEF Progress
  <2> QED
    BY <2>1, <2>2
<1>4. ASSUME NEW t \in Task, RejectEmpty(t)
      PROVE  LifeInv'
  BY <1>2, <1>4 DEF RejectEmpty
<1>5. ASSUME Wait
      PROVE  LifeInv'
  <2>1. UNCHANGED <<store, stack, result>> /\ result = Nothing
    BY <1>5 DEF Wait, Tick, walkVars, IInv
  <2> QED
    BY <1>2, <2>1
<1>6. ASSUME UNCHANGED vars
      PROVE  LifeInv'
  BY <1>2, <1>6 DEF vars
<1> QED
  BY <1>1, <1>3, <1>4, <1>5, <1>6 DEF Next, Quiesced

-----------------------------------------------------------------------------
(* Chains: how the answers of an entry, a result and a response hang       *)
(* together, and what the frames of a walk have to do with each other.     *)

(* Answers to a question about a name: each is owned by the name the alias *)
(* before it points to, the last is of the type or one more alias.         *)
Chain(answers, name, qtype) ==
    answers # <<>> =>
        /\ answers[1].owner = name
        /\ \A i \in 1 .. Len(answers) - 1 :
              answers[i].rtype = "CNAME" => answers[i + 1].owner = answers[i].target
        /\ answers[Len(answers)].rtype \in {qtype, "CNAME"}

(* HYPOTHESIS of ChainsLead: servers answer with records of the name they  *)
(* are asked, in order.  _recurse takes the answers as they are and never  *)
(* compares an owner.                                                      *)
ServersAnswerAsAsked ==
    \A q \in Name \X RType : \A m \in Replies[q] :
        /\ PositionsOf(m.answers, q[2]) # {} => Chain(m.answers, q[1], q[2])
        /\ PositionsOf(m.answers, "CNAME") # {} =>
               m.answers[Min(PositionsOf(m.answers, "CNAME"))].owner = q[1]

StoreChains == \A k \in Key : store[k] # NoEntry => Chain(store[k].answers, k[1], k[2])

(* A frame that waits for the target of an alias holds that alias.         *)
HoldsItsAlias(frame) ==
    frame.op = "alias" =>
        /\ Len(frame.cname) = 1
        /\ frame.cname[1].rtype = "CNAME" /\ frame.cname[1].owner = frame.name

(* The lookup above it looks its target up, for the same type.             *)
LooksUpTarget(frame, above) ==
    frame.op = "alias" => above.name = frame.cname[1].target /\ above.qtype = frame.qtype

(* The stack of a task walks for the question of its client.               *)
Walks(s, q) ==
    /\ s # <<>> => q # Nothing /\ s[1].name = q[1] /\ s[1].qtype = q[2]
    /\ \A i \in 1 .. Len(s) : HoldsItsAlias(s[i])
    /\ \A i \in 1 .. Len(s) - 1 : LooksUpTarget(s[i], s[i + 1])

(* What the frame that just returned leaves is what the one below asked.   *)
Delivers(s, q, answers) ==
    IF s = <<>> THEN q # Nothing => Chain(answers, q[1], q[2])
    ELSE s[Len(s)].op = "alias" =>
             Chain(answers, s[Len(s)].cname[1].target, s[Len(s)].qtype)

(* The strengthening of ChainLeadsFromQuestion.                            *)
ChainInv ==
    /\ StoreChains
    /\ \A t \in Task : Walks(stack[t], question[t])
    /\ \A t \in Task : running = t /\ result # Nothing =>
           Delivers(stack[t], question[t], result.answers)
    /\ \A t \in Task : handled[t] # Nothing /\ question[t] # Nothing =>
           Chain(handled[t].answers, question[t][1], question[t][2])

LEMMA ChainInvImplies == ChainInv => ChainLeadsFromQuestion
BY DEF ChainInv, ChainLeadsFromQuestion, Chain, Last

LEMMA NoAnswersChain == \A name, qtype : Chain(<<>>, name, qtype)
BY DEF Chain

(* Chain reads owners, types and targets only.                             *)
LEMMA ChainSameShape ==
    ASSUME NEW a \in Seq(Record), NEW b \in Seq(Record), DOMAIN b = DOMAIN a,
           \A i \in DOMAIN a : /\ b[i].owner = a[i].owner
                               /\ b[i].rtype = a[i].rtype
                               /\ b[i].target = a[i].target,
           NEW name, NEW qtype, Chain(a, name, qtype)
    PROVE  Chain(b, name, qtype)
<1>1. /\ DOMAIN a = 1 .. Len(a) /\ DOMAIN b = 1 .. Len(b)
      /\ Len(a) \in Nat /\ Len(b) \in Nat
  OBVIOUS
<1>2. Len(a) = Len(b)
  BY <1>1
<1>3. CASE b = <<>>
  BY <1>3 DEF Chain
<1>4. CASE b # <<>>
  <2>1. Len(b) \in Nat \ {0} /\ a # <<>>
    BY <1>1, <1>2, <1>4
  <2>2. 1 \in DOMAIN a /\ Len(b) \in DOMAIN a
    BY <1>1, <1>2, <2>1
  <2>3. \A i \in 1 .. Len(b) - 1 : i \in DOMAIN a /\ i + 1 \in DOMAIN a
    BY <1>1, <1>2, <2>1
  <2> QED
    BY <1>2, <2>1, <2>2, <2>3 DEF Chain
<1> QED
  BY <1>3, <1>4

LEMMA StampedChain ==
    ASSUME NEW records \in Seq(Record), now \in Nat,
           NEW name, NEW qtype, Chain(records, name, qtype)
    PROVE  Chain(Stamp(records), name, qtype)
<1>1. Stamp(records) \in Seq(Record) /\ DOMAIN Stamp(records) = DOMAIN records
  BY StampKeeps
<1>2. \A i \in DOMAIN records : /\ Stamp(records)[i].owner = records[i].owner
                                /\ Stamp(records)[i].rtype = records[i].rtype
                                /\ Stamp(records)[i].target = records[i].target
  BY StampKeeps
<1> QED
  BY <1>1, <1>2, ChainSameShape

LEMMA CountedDownChain ==
    ASSUME NEW records \in Seq(Record), NEW ttl \in Nat,
           NEW name, NEW qtype, Chain(records, name, qtype)
    PROVE  Chain(CountDown(records, ttl), name, qtype)
<1>1. /\ CountDown(records, ttl) \in Seq(Record)
      /\ DOMAIN CountDown(records, ttl) = DOMAIN records
  BY CountDownKeeps
<1>2. \A r \in Record : /\ [r EXCEPT !.ttl = ttl].owner = r.owner
                        /\ [r EXCEPT !.ttl = ttl].rtype = r.rtype
                        /\ [r EXCEPT !.ttl = ttl].target = r.target
  BY DEF Record
<1>3. \A i \in DOMAIN records : records[i] \in Record
  BY RecordTtls
<1>4. \A i \in DOMAIN records :
         /\ CountDown(records, ttl)[i].owner = records[i].owner
         /\ CountDown(records, ttl)[i].rtype = records[i].rtype
         /\ CountDown(records, ttl)[i].target = records[i].target
  BY <1>2, <1>3 DEF CountDown
<1> QED
  BY <1>1, <1>4, ChainSameShape

(* An alias in front of the chain from its target is a chain.              *)
LEMMA AliasedChain ==
    ASSUME NEW cname \in Seq(Record), Len(cname) = 1, cname[1].rtype = "CNAME",
           NEW answers \in Seq(Record), NEW qtype,
           Chain(answers, cname[1].target, qtype)
    PROVE  Chain(cname \o answers, cname[1].owner, qtype)
<1> DEFINE c == cname \o answers
<1>1. /\ c \in Seq(Record)
      /\ Len(c) = 1 + Len(answers)
      /\ \A i \in 1 .. 1 + Len(answers) :
            c[i] = IF i <= 1 THEN cname[i] ELSE answers[i - 1]
  <2>1. /\ c \in Seq(Record)
        /\ Len(c) = Len(cname) + Len(answers)
        /\ \A i \in 1 .. Len(cname) + Len(answers) :
              c[i] = IF i <= Len(cname) THEN cname[i] ELSE answers[i - Len(cname)]
    BY ConcatProperties
  <2> HIDE DEF c
  <2> QED
    BY <2>1
<1> HIDE DEF c
<1>2. Len(answers) \in Nat
  OBVIOUS
<1>3. c[1] = cname[1]
  BY <1>1, <1>2
<1>4. \A i \in 2 .. Len(c) : c[i] = answers[i - 1]
  BY <1>1, <1>2
<1>5. CASE answers = <<>>
  <2>1. Len(c) = 1
    BY <1>1, <1>5
  <2> QED
    BY <1>3, <2>1 DEF Chain, c
<1>6. CASE answers # <<>>
  <2>1. Len(answers) >= 1 /\ Len(c) >= 2 /\ Len(c) = 1 + Len(answers)
    BY <1>1, <1>2, <1>6
  <2>2. c[Len(c)] = answers[Len(answers)]
    BY <1>2, <1>4, <2>1
  <2>3. ASSUME NEW i \in 1 .. Len(c) - 1, c[i].rtype = "CNAME"
        PROVE  c[i + 1].owner = c[i].target
    <3>1. c[i + 1] = answers[i]
      BY <1>2, <1>4, <2>1
    <3>2. CASE i = 1
      BY <1>3, <1>6, <3>1, <3>2 DEF Chain
    <3>3. CASE i # 1
      <4>1. c[i] = answers[i - 1] /\ i - 1 \in 1 .. Len(answers) - 1 /\ (i - 1) + 1 = i
        BY <1>2, <1>4, <2>1, <3>3
      <4> QED
        BY <1>6, <2>3, <3>1, <4>1 DEF Chain
    <3> QED
      BY <3>2, <3>3
  <2> QED
    BY <1>3, <1>6, <2>2, <2>3 DEF Chain, c
<1> QED
  BY <1>5, <1>6

(* The stacks.                                                             *)

(* A coroutine that returns what it was asked delivers it to the one below.*)
LEMMA WalksPop ==
    ASSUME NEW s \in Seq(Frame), s # <<>>, NEW q, Walks(s, q), NEW answers,
           Chain(answers, s[Len(s)].name, s[Len(s)].qtype)
    PROVE  Walks(Front(s), q) /\ Delivers(Front(s), q, answers)
<1>1. Len(s) \in Nat \ {0}
  OBVIOUS
<1>2. /\ Front(s) \in Seq(Frame)
      /\ Len(Front(s)) = Len(s) - 1
      /\ \A i \in 1 .. Len(s) - 1 : Front(s)[i] = s[i]
  BY FrontProperties
<1>3. Walks(Front(s), q)
  BY <1>1, <1>2 DEF Walks
<1>4. CASE Front(s) = <<>>
  <2>1. Len(s) = 1
    BY <1>1, <1>2, <1>4
  <2> QED
    BY <1>3, <1>4, <2>1 DEF Walks, Delivers
<1>5. CASE Front(s) # <<>>
  <2>1. Len(s) - 1 \in 1 .. Len(s) - 1 /\ (Len(s) - 1) + 1 = Len(s)
    BY <1>1, <1>2, <1>5
  <2>2. LooksUpTarget(s[Len(s) - 1], s[Len(s)])
    BY <2>1 DEF Walks
  <2>3. Front(s)[Len(Front(s))] = s[Len(s) - 1]
    BY <1>2, <2>1
  <2> QED
    BY <1>3, <1>5, <2>2, <2>3 DEF Delivers, LooksUpTarget
<1> QED
  BY <1>4, <1>5

(* A frame is followed by one for the same question.                       *)
LEMMA WalksReplace ==
    ASSUME NEW s \in Seq(Frame), s # <<>>, NEW q, Walks(s, q),
           NEW frame \in Frame, HoldsItsAlias(frame),
           frame.name = s[Len(s)].name, frame.qtype = s[Len(s)].qtype
    PROVE  LET new == Append(Front(s), frame)
           IN  /\ new \in Seq(Frame) /\ Walks(new, q)
               /\ new # <<>> /\ new[Len(new)] = frame
<1> DEFINE new == Append(Front(s), frame)
<1>1. Len(s) \in Nat \ {0}
  OBVIOUS
<1>2. /\ Front(s) \in Seq(Frame)
      /\ Len(Front(s)) = Len(s) - 1
      /\ \A i \in 1 .. Len(s) - 1 : Front(s)[i] = s[i]
  BY FrontProperties
<1>3. /\ new \in Seq(Frame)
      /\ Len(new) = Len(s)
      /\ \A i \in 1 .. Len(s) - 1 : new[i] = s[i]
      /\ new[Len(s)] = frame
  BY <1>1, <1>2, AppendProperties
<1> HIDE DEF new
<1>4. new # <<>>
  BY <1>1, <1>3
<1>5. new[1].name = s[1].name /\ new[1].qtype = s[1].qtype
  BY <1>1, <1>3
<1>6. \A i \in 1 .. Len(new) : HoldsItsAlias(new[i])
  BY <1>1, <1>3 DEF Walks
<1>7. ASSUME NEW i \in 1 .. Len(new) - 1
      PROVE  LooksUpTarget(new[i], new[i + 1])
  <2>1. new[i] = s[i] /\ LooksUpTarget(s[i], s[i + 1])
    BY <1>1, <1>3 DEF Walks
  <2>2. new[i + 1].name = s[i + 1].name /\ new[i + 1].qtype = s[i + 1].qtype
    BY <1>1, <1>3
  <2> QED
    BY <2>1, <2>2 DEF LooksUpTarget
<1>8. Walks(new, q)
  BY <1>4, <1>5, <1>6, <1>7 DEF Walks
<1> QED
  BY <1>3, <1>4, <1>8 DEF new

(* A frame above an alias looks up its target.                             *)
LEMMA WalksPush ==
    ASSUME NEW s \in Seq(Frame), s # <<>>, NEW q, Walks(s, q),
           NEW frame \in Frame, HoldsItsAlias(frame),
           LooksUpTarget(s[Len(s)], frame)
    PROVE  Walks(Append(s, frame), q)
<1> DEFINE new == Append(s, frame)
<1>1. Len(s) \in Nat \ {0}
  OBVIOUS
<1>2. /\ new \in Seq(Frame)
      /\ Len(new) = Len(s) + 1
      /\ \A i \in 1 .. Len(s) : new[i] = s[i]
      /\ new[Len(s) + 1] = frame
  BY AppendProperties
<1> HIDE DEF new
<1>3. new[1] = s[1] /\ new # <<>>
  BY <1>1, <1>2
<1>4. \A i \in 1 .. Len(new) : HoldsItsAlias(new[i])
  BY <1>1, <1>2 DEF Walks
<1>5. \A i \in 1 .. Len(new) - 1 : LooksUpTarget(new[i], new[i + 1])
  BY <1>1, <1>2 DEF Walks
<1> QED
  BY <1>3, <1>4, <1>5 DEF Walks, new

(* The operators the actions are built from keep ChainInv.                 *)

LEMMA ChainStep ==
    ASSUME IInv, ChainInv, NEW t \in Task, NEW s, Walks(s, question[t]),
           stack' = [stack EXCEPT ![t] = s], StoreChains',
           running' \in {t, Idle}, UNCHANGED <<question, handled>>,
           running' = t /\ result' # Nothing => Delivers(s, question[t], result'.answers)
    PROVE  ChainInv'
<1>1. \A u \in Task : stack'[u] = IF u = t THEN s ELSE stack[u]
  BY DEF IInv
<1>2. \A u \in Task : Walks(stack'[u], question'[u])
  BY <1>1 DEF ChainInv
<1>3. \A u \in Task : running' = u /\ result' # Nothing =>
          Delivers(stack'[u], question'[u], result'.answers)
  BY <1>1, RecursionConstants
<1>4. \A u \in Task : handled'[u] # Nothing /\ question'[u] # Nothing =>
          Chain(handled'[u].answers, question'[u][1], question'[u][2])
  BY DEF ChainInv
<1> QED
  BY <1>2, <1>3, <1>4 DEF ChainInv

LEMMA TopChain ==
    ASSUME IInv, ChainInv, NEW t \in Task, stack[t] # <<>>
    PROVE  /\ Top(t) \in Frame /\ Top(t) = stack[t][Len(stack[t])]
           /\ KeyOf(Top(t)) \in Key
           /\ KeyOf(Top(t))[1] = Top(t).name /\ KeyOf(Top(t))[2] = Top(t).qtype
           /\ stack[t] \in Seq(Frame) /\ Walks(stack[t], question[t])
           /\ HoldsItsAlias(Top(t))
<1>1. /\ Top(t) \in Frame /\ Top(t) = stack[t][Len(stack[t])]
      /\ Len(stack[t]) \in Nat \ {0} /\ stack[t] \in Seq(Frame)
  BY TopProperties DEF WellFormed
<1>2. KeyOf(Top(t)) \in Key
  <2>1. Top(t).name \in Name /\ Top(t).qtype \in RType /\ "IN" \in RClass
    BY <1>1, RecursionConstants DEF Frame
  <2> QED
    BY <2>1 DEF KeyOf, Key
<1>3. Walks(stack[t], question[t])
  BY DEF ChainInv
<1>4. HoldsItsAlias(Top(t))
  BY <1>1, <1>3 DEF Walks
<1> QED
  BY <1>1, <1>2, <1>3, <1>4 DEF KeyOf

LEMMA FinishChain ==
    ASSUME IInv, ChainInv, NEW t \in Task, stack[t] # <<>>, RestKept,
           NEW rcode, NEW answers, NEW authorities,
           Chain(answers, Top(t).name, Top(t).qtype),
           Finish(t, rcode, answers, authorities)
    PROVE  ChainInv'
<1> DEFINE k == KeyOf(Top(t))
<1>1. /\ k \in Key /\ k[1] = Top(t).name /\ k[2] = Top(t).qtype
      /\ stack[t] \in Seq(Frame) /\ Walks(stack[t], question[t])
      /\ Top(t) = stack[t][Len(stack[t])]
  BY TopChain
<1>2. Walks(Front(stack[t]), question[t]) /\ Delivers(Front(stack[t]), question[t], answers)
  BY <1>1, WalksPop
<1>3. \/ store' = store
      \/ \E e : e.answers = answers /\ store' = [store EXCEPT ![k] = e]
  BY DEF Finish, Put, cacheVars
<1>4. StoreChains'
  <2> HIDE DEF k
  <2>1. CASE store' = store
    BY <2>1 DEF ChainInv, StoreChains
  <2>2. ASSUME NEW e, e.answers = answers, store' = [store EXCEPT ![k] = e]
        PROVE  StoreChains'
    <3>1. \A j \in Key : IF j = k THEN store'[j] = e ELSE store'[j] = store[j]
      BY <2>2 DEF IInv, CacheTypeOK
    <3>2. \A j \in Key : store'[j] # NoEntry => Chain(store'[j].answers, j[1], j[2])
      BY <1>1, <2>2, <3>1 DEF ChainInv, StoreChains
    <3> QED
      BY <3>2 DEF StoreChains
  <2> QED
    BY <1>3, <2>1, <2>2
<1>5. /\ result'.answers = answers /\ running' = t
      /\ stack' = [stack EXCEPT ![t] = Front(stack[t])]
  BY DEF Finish, Pop
<1> HIDE DEF k
<1> QED
  BY <1>2, <1>4, <1>5, ChainStep DEF RestKept

LEMMA FailChain ==
    ASSUME IInv, ChainInv, NEW t \in Task, stack[t] # <<>>, RestKept, Fail(t)
    PROVE  ChainInv'
BY NoAnswersChain, FinishChain DEF Fail

LEMMA ReplaceChain ==
    ASSUME IInv, ChainInv, NEW t \in Task, stack[t] # <<>>, RestKept,
           NEW frame \in Frame, HoldsItsAlias(frame),
           frame.name = Top(t).name, frame.qtype = Top(t).qtype,
           stack' = ReplaceTop(t, frame), StoreChains',
           running' \in {t, Idle}, result' = Nothing
    PROVE  ChainInv'
<1> DEFINE s == Append(Front(stack[t]), frame)
<1>1. Walks(s, question[t])
  BY TopChain, WalksReplace
<1>2. stack' = [stack EXCEPT ![t] = s]
  BY DEF ReplaceTop
<1> HIDE DEF s
<1> QED
  BY <1>1, <1>2, ChainStep DEF RestKept

LEMMA CallChain ==
    ASSUME IInv, ChainInv, NEW t \in Task, stack[t] # <<>>, RestKept,
           NEW frame \in Frame, HoldsItsAlias(frame),
           frame.name = Top(t).name, frame.qtype = Top(t).qtype,
           NEW name \in Name, NEW qtype \in RType,
           LooksUpTarget(frame, LookupFrame(name, qtype)),
           Call(t, frame, name, qtype)
    PROVE  ChainInv'
<1> DEFINE below == Append(Front(stack[t]), frame)
           above == LookupFrame(name, qtype)
           s == Append(below, above)
<1>1. /\ below \in Seq(Frame) /\ Walks(below, question[t])
      /\ below # <<>> /\ below[Len(below)] = frame
  BY TopChain, WalksReplace
<1>2. above \in Frame /\ HoldsItsAlias(above)
  BY LookupFrameType DEF HoldsItsAlias
<1>3. stack' = [stack EXCEPT ![t] = s] /\ result' = Nothing /\ running' = t
  BY DEF Call
<1>4. Walks(s, question[t])
  <2> HIDE DEF below, above
  <2>1. LooksUpTarget(below[Len(below)], above)
    BY <1>1 DEF above
  <2> QED
    BY <1>1, <1>2, <2>1, WalksPush
<1>5. StoreChains'
  BY DEF Call, cacheVars, ChainInv, StoreChains
<1> HIDE DEF s
<1> QED
  BY <1>3, <1>4, <1>5, ChainStep DEF RestKept

LEMMA DescendChain ==
    ASSUME IInv, ChainInv, NEW t \in Task, stack[t] # <<>>, RestKept,
           NEW servers \in Nat, Descend(t, servers)
    PROVE  ChainInv'
<1>1. CASE Top(t).hops < MaxDelegations
  <2> DEFINE frame == [Top(t) EXCEPT !.op = "ask", !.left = servers,
                                     !.hops = @ + 1, !.referral = <<>>, !.todo = {}]
  <2>1. Top(t) \in Frame
    BY TopChain
  <2>2. /\ frame \in Frame /\ frame.op = "ask"
        /\ frame.name = Top(t).name /\ frame.qtype = Top(t).qtype
    <3>1. Top(t).hops + 1 \in 0 .. MaxDelegations
      BY <1>1, <2>1, RecursionConstants DEF Frame
    <3>2. <<>> \in Seq(Name)
      OBVIOUS
    <3> QED
      BY <2>1, <3>1, <3>2 DEF Frame
  <2>3. stack' = ReplaceTop(t, frame) /\ result' = Nothing /\ running' = Idle
    BY <1>1 DEF Descend
  <2>4. StoreChains'
    BY <1>1 DEF Descend, cacheVars, ChainInv, StoreChains
  <2> HIDE DEF frame
  <2>5. HoldsItsAlias(frame)
    BY <2>2 DEF HoldsItsAlias
  <2> QED
    BY <2>2, <2>3, <2>4, <2>5, ReplaceChain
<1>2. CASE ~(Top(t).hops < MaxDelegations)
  BY <1>2, FailChain DEF Descend
<1> QED
  BY <1>1, <1>2

(* A miss only takes away.                                                 *)
LEMMA MissChain ==
    ASSUME IInv, ChainInv, NEW k \in Key, GetMiss(k)
    PROVE  StoreChains'
BY DEF GetMiss, IInv, CacheTypeOK, ChainInv, StoreChains

LEMMA LookupChain ==
    ASSUME IInv, ChainInv, NEW t \in Task, RestKept,
           CacheHit(t) \/ StartWalk(t) \/ TooDeep(t)
    PROVE  ChainInv'
<1>1. stack[t] # <<>> /\ result = Nothing /\ running = t
  BY DEF CacheHit, StartWalk, TooDeep, LookingUp
<1> DEFINE k == KeyOf(Top(t))
<1>2. /\ k \in Key /\ k[1] = Top(t).name /\ k[2] = Top(t).qtype
      /\ stack[t] \in Seq(Frame) /\ Walks(stack[t], question[t])
      /\ Top(t) \in Frame /\ Top(t) = stack[t][Len(stack[t])]
  BY <1>1, TopChain
<1>3. \A answers : Chain(answers, Top(t).name, Top(t).qtype) =>
          /\ Walks(Front(stack[t]), question[t])
          /\ Delivers(Front(stack[t]), question[t], answers)
  BY <1>1, <1>2, WalksPop
<1>4. CASE CacheHit(t)
  <2>1. IsLive(k) /\ store' = store /\ running' = t
    BY <1>1, <1>4 DEF CacheHit, GetHit
  <2>2. Chain(FreshCopy(k).answers, Top(t).name, Top(t).qtype)
    <3>1. /\ store[k] \in Entry /\ now \in Nat
          /\ Chain(store[k].answers, k[1], k[2])
      BY <1>2, <2>1 DEF IsLive, IInv, CacheTypeOK, ChainInv, StoreChains
    <3>2. store[k].answers \in Seq(Record) /\ Remaining(store[k]) \in Nat
      BY <2>1, <3>1, RemainingRounds DEF IsLive, Entry
    <3>3. Chain(CountDown(store[k].answers, Remaining(store[k])), k[1], k[2])
      BY <3>1, <3>2, CountedDownChain
    <3> QED
      BY <1>2, <3>3 DEF FreshCopy
  <2>3. /\ result'.answers = FreshCopy(k).answers
        /\ stack' = [stack EXCEPT ![t] = Front(stack[t])]
    BY <1>4 DEF CacheHit, Pop
  <2>4. StoreChains'
    BY <2>1 DEF ChainInv, StoreChains
  <2> QED
    BY <1>3, <2>1, <2>2, <2>3, <2>4, ChainStep DEF RestKept
<1>5. CASE StartWalk(t)
  <2> DEFINE frame == [Top(t) EXCEPT !.op = "ask", !.hops = 1, !.left = RootServers]
  <2>1. /\ frame \in Frame /\ frame.op = "ask"
        /\ frame.name = Top(t).name /\ frame.qtype = Top(t).qtype
    <3>1. 1 \in 0 .. MaxDelegations /\ RootServers \in Nat
      BY RecursionConstants
    <3> QED
      BY <1>2, <3>1 DEF Frame
  <2>2. stack' = ReplaceTop(t, frame) /\ result' = Nothing /\ running' = Idle
    BY <1>1, <1>5 DEF StartWalk
  <2>3. StoreChains'
    BY <1>2, <1>5, MissChain DEF StartWalk
  <2> HIDE DEF frame
  <2>4. HoldsItsAlias(frame)
    BY <2>1 DEF HoldsItsAlias
  <2> QED
    BY <1>1, <2>1, <2>2, <2>3, <2>4, ReplaceChain
<1>6. CASE TooDeep(t)
  <2>1. /\ result'.answers = <<>> /\ running' = t
        /\ stack' = [stack EXCEPT ![t] = Front(stack[t])]
    BY <1>1, <1>6 DEF TooDeep, Pop
  <2>2. StoreChains'
    BY <1>2, <1>6, MissChain DEF TooDeep
  <2> QED
    BY <1>3, <2>1, <2>2, NoAnswersChain, ChainStep DEF RestKept
<1> QED
  BY <1>4, <1>5, <1>6

LEMMA HearChain ==
    ASSUME ServersAnswerAsAsked, IInv, ChainInv, NEW t \in Task, RestKept,
           Awaiting(t), Hear(t)
    PROVE  ChainInv'
<1>1. stack[t] # <<>> /\ Top(t).op = "ask"
  BY DEF Awaiting
<1>2. Top(t) \in Frame
  BY <1>1, TopChain
<1>3. PICK m \in Replies[<<Top(t).name, Top(t).qtype>>] :
         \/ HearAnswer(t, m)   \/ HearAlias(t, m)    \/ HearDenial(t, m)
         \/ HearNoData(t, m)   \/ HearReferral(t, m) \/ HearGlueless(t, m)
  BY DEF Hear
<1>4. /\ Top(t).name \in Name /\ Top(t).qtype \in RType /\ now \in Nat
      /\ m.answers \in Seq(Record) /\ m.authorities \in Seq(Record)
      /\ m.additionals \in Seq(Record)
  BY MessageType DEF IInv, CacheTypeOK
<1>5. /\ PositionsOf(m.answers, Top(t).qtype) # {} =>
             Chain(m.answers, Top(t).name, Top(t).qtype)
      /\ PositionsOf(m.answers, "CNAME") # {} =>
             m.answers[Min(PositionsOf(m.answers, "CNAME"))].owner = Top(t).name
  <2> DEFINE q == <<Top(t).name, Top(t).qtype>>
  <2>1. q \in Name \X RType /\ q[1] = Top(t).name /\ q[2] = Top(t).qtype /\ m \in Replies[q]
    BY <1>4
  <2> HIDE DEF q
  <2> QED
    BY <2>1 DEF ServersAnswerAsAsked
<1>6. CASE HearAnswer(t, m)
  <2>1. Chain(Stamp(m.answers), Top(t).name, Top(t).qtype)
    BY <1>4, <1>5, <1>6, StampedChain DEF HearAnswer, IsAnswer
  <2> QED
    BY <1>1, <1>6, <2>1, FinishChain DEF HearAnswer
<1>7. CASE HearDenial(t, m)
  BY <1>1, <1>7, NoAnswersChain, FinishChain DEF HearDenial
<1>8. CASE HearNoData(t, m)
  BY <1>1, <1>8, NoAnswersChain, FinishChain DEF HearNoData
<1>9. CASE HearAlias(t, m)
  <2> DEFINE i == Min(PositionsOf(m.answers, "CNAME"))
             cname == Stamp(m.answers)[i]
             frame == [Top(t) EXCEPT !.op = "alias", !.cname = <<cname>>]
             above == LookupFrame(cname.target, Top(t).qtype)
  <2>1. /\ i \in DOMAIN m.answers /\ m.answers[i].rtype = "CNAME"
        /\ m.answers[i].owner = Top(t).name
    BY <1>4, <1>5, <1>9, FirstPosition DEF HearAlias, IsAlias
  <2>2. cname \in Record /\ cname.rtype = "CNAME" /\ cname.owner = Top(t).name
    BY <1>4, <2>1, StampKeeps
  <2>3. cname.target \in Name /\ <<cname>> \in Seq(Record)
    BY <2>2, TargetType
  <2>4. Call(t, frame, cname.target, Top(t).qtype)
    BY <1>9 DEF HearAlias
  <2>5. above.name = cname.target /\ above.qtype = Top(t).qtype
    BY DEF LookupFrame
  <2> HIDE DEF cname
  <2>6. /\ frame \in Frame /\ frame.cname = <<cname>>
        /\ frame.name = Top(t).name /\ frame.qtype = Top(t).qtype
    BY <1>2, <2>3 DEF Frame
  <2> HIDE DEF frame, above
  <2>7. HoldsItsAlias(frame) /\ LooksUpTarget(frame, above)
    BY <2>2, <2>5, <2>6 DEF HoldsItsAlias, LooksUpTarget
  <2> QED
    BY <1>1, <1>4, <2>3, <2>4, <2>6, <2>7, CallChain DEF above
<1>10. CASE HearReferral(t, m)
  <2>1. Glue(m) \in SUBSET PositionsOf(m.additionals, "A")
    BY DEF Glue
  <2>2. Cardinality(Glue(m)) \in Nat \ {0}
    BY <1>4, <1>10, <2>1, PositionsProperties DEF HearReferral
  <2> QED
    BY <1>1, <1>10, <2>2, DescendChain DEF HearReferral
<1>11. CASE HearGlueless(t, m)
  <2> DEFINE first == Min(NsPositions(m))
             names == [i \in DOMAIN m.authorities |-> m.authorities[i].target]
             rest == NsPositions(m) \ {first}
             frame == [Top(t) EXCEPT !.op = "glue", !.referral = names, !.todo = rest]
  <2>1. first \in DOMAIN m.authorities /\ NsPositions(m) \in SUBSET Nat
    BY <1>4, <1>11, FirstPosition DEF HearGlueless, NsPositions
  <2>2. m.authorities[first].target \in Name
    BY <1>4, <2>1, TargetType
  <2>3. names \in Seq(Name)
    BY <1>4, TargetsType
  <2>4. Call(t, frame, m.authorities[first].target, "A")
    BY <1>11 DEF HearGlueless
  <2>5. rest \in SUBSET Nat
    BY <2>1
  <2> HIDE DEF names, rest
  <2>6. /\ frame \in Frame /\ frame.op = "glue"
        /\ frame.name = Top(t).name /\ frame.qtype = Top(t).qtype
    BY <1>2, <2>3, <2>5 DEF Frame
  <2> HIDE DEF frame, first
  <2>7. "A" \in RType
    BY CacheConstants
  <2>8. \A above : HoldsItsAlias(frame) /\ LooksUpTarget(frame, above)
    BY <2>6 DEF HoldsItsAlias, LooksUpTarget
  <2> QED
    BY <1>1, <2>2, <2>4, <2>6, <2>7, <2>8, CallChain
<1> QED
  BY <1>3, <1>6, <1>7, <1>8, <1>9, <1>10, <1>11

LEMMA AskChain ==
    ASSUME IInv, ChainInv, NEW t \in Task, RestKept,
           TryNextServer(t) \/ NoServerAnswers(t)
    PROVE  ChainInv'
<1>1. stack[t] # <<>> /\ running = Idle /\ result = Nothing
  BY DEF TryNextServer, NoServerAnswers, Awaiting, IInv
<1>2. CASE NoServerAnswers(t)
  BY <1>1, <1>2, FailChain DEF NoServerAnswers
<1>3. CASE TryNextServer(t)
  <2> DEFINE frame == [Top(t) EXCEPT !.left = @ - 1]
  <2>1. Top(t) \in Frame /\ Top(t).op = "ask"
    BY <1>1, <1>3, TopChain DEF TryNextServer, Awaiting
  <2>2. /\ frame \in Frame /\ frame.op = "ask"
        /\ frame.name = Top(t).name /\ frame.qtype = Top(t).qtype
    <3>1. Top(t).left - 1 \in Nat
      BY <1>3, <2>1 DEF TryNextServer, Frame
    <3> QED
      BY <2>1, <3>1 DEF Frame
  <2>3. /\ stack' = ReplaceTop(t, frame) /\ result' = Nothing
        /\ store' = store /\ running' = Idle
    BY <1>1, <1>3 DEF TryNextServer
  <2>4. StoreChains'
    BY <2>3 DEF ChainInv, StoreChains
  <2> HIDE DEF frame
  <2>5. HoldsItsAlias(frame)
    BY <2>2 DEF HoldsItsAlias
  <2> QED
    BY <1>1, <2>2, <2>3, <2>4, <2>5, ReplaceChain
<1> QED
  BY <1>2, <1>3

LEMMA ReturnChain ==
    ASSUME IInv, ChainInv, NEW t \in Task, RestKept,
           \/ ReturnAlias(t) \/ ReturnAddresses(t)
           \/ ReturnNextName(t) \/ ReturnNoAddress(t)
    PROVE  ChainInv'
<1>1. running = t /\ stack[t] # <<>> /\ result # Nothing
  BY DEF ReturnAlias, ReturnAddresses, ReturnNextName, ReturnNoAddress, Returning
<1>2. /\ Top(t) \in Frame /\ Top(t) = stack[t][Len(stack[t])] /\ HoldsItsAlias(Top(t))
  BY <1>1, TopChain
<1>3. result.answers \in Seq(Record)
  BY <1>1 DEF IInv, Result
<1>4. CASE ReturnAlias(t)
  <2>1. Top(t).op = "alias" /\ Top(t).cname \in Seq(Record)
    BY <1>2, <1>4 DEF ReturnAlias, Returning, Frame
  <2>2. Chain(result.answers, Top(t).cname[1].target, Top(t).qtype)
    BY <1>1, <1>2, <2>1 DEF ChainInv, Delivers
  <2>3. Chain(Top(t).cname \o result.answers, Top(t).cname[1].owner, Top(t).qtype)
    BY <1>2, <1>3, <2>1, <2>2, AliasedChain DEF HoldsItsAlias
  <2>4. Chain(Top(t).cname \o result.answers, Top(t).name, Top(t).qtype)
    BY <1>2, <2>1, <2>3 DEF HoldsItsAlias
  <2> QED
    BY <1>1, <1>4, <2>4, FinishChain DEF ReturnAlias
<1>5. CASE ReturnAddresses(t)
  <2>1. Addresses \in SUBSET PositionsOf(result.answers, "A")
    BY DEF Addresses
  <2>2. Cardinality(Addresses) \in Nat \ {0}
    BY <1>3, <1>5, <2>1, PositionsProperties DEF ReturnAddresses
  <2> QED
    BY <1>1, <1>5, <2>2, DescendChain DEF ReturnAddresses
<1>6. CASE ReturnNextName(t)
  <2> DEFINE next == Min(Top(t).todo)
             rest == Top(t).todo \ {next}
             frame == [Top(t) EXCEPT !.todo = rest]
  <2>1. /\ Top(t).todo \in SUBSET Nat /\ Top(t).todo # {}
        /\ Top(t).referral \in Seq(Name) /\ Top(t).op = "glue"
        /\ Top(t).todo \subseteq DOMAIN Top(t).referral
    BY <1>1, <1>2, <1>6, TopProperties DEF ReturnNextName, Returning, Frame
  <2>2. next \in Top(t).todo
    BY <2>1, MinNat
  <2>3. Top(t).referral[next] \in Name
    BY <2>1, <2>2
  <2>4. Call(t, frame, Top(t).referral[next], "A")
    BY <1>6 DEF ReturnNextName
  <2>5. rest \in SUBSET Nat
    BY <2>1
  <2> HIDE DEF rest, next
  <2>6. /\ frame \in Frame /\ frame.op = "glue"
        /\ frame.name = Top(t).name /\ frame.qtype = Top(t).qtype
    BY <1>2, <2>1, <2>5 DEF Frame
  <2> HIDE DEF frame
  <2>7. "A" \in RType
    BY CacheConstants
  <2>8. \A above : HoldsItsAlias(frame) /\ LooksUpTarget(frame, above)
    BY <2>6 DEF HoldsItsAlias, LooksUpTarget
  <2> QED
    BY <1>1, <2>3, <2>4, <2>6, <2>7, <2>8, CallChain
<1>7. CASE ReturnNoAddress(t)
  BY <1>1, <1>7, FailChain DEF ReturnNoAddress
<1> QED
  BY <1>4, <1>5, <1>6, <1>7

LEMMA InitChain == Init => ChainInv
<1> SUFFICES ASSUME Init
             PROVE  ChainInv
  OBVIOUS
<1>1. StoreChains
  BY DEF Init, CacheInit, StoreChains
<1>2. \A t \in Task : Walks(stack[t], question[t])
  <2>1. \A t \in Task : stack[t] = <<>>
    BY DEF Init
  <2>2. \A q : Walks(<<>>, q)
    BY DEF Walks
  <2> QED
    BY <2>1, <2>2
<1> QED
  BY <1>1, <1>2 DEF Init, ChainInv

LEMMA NextChain ==
    ASSUME ServersAnswerAsAsked, IInv, ChainInv, [Next]_vars
    PROVE  ChainInv'
<1>1. ASSUME NEW t \in Task, NEW q \in Question, Receive(t, q)
      PROVE  ChainInv'
  <2> DEFINE frame == LookupFrame(q[1], q[2])
  <2>1. /\ stack' = [stack EXCEPT ![t] = <<frame>>]
        /\ question' = [question EXCEPT ![t] = q]
        /\ handled' = [handled EXCEPT ![t] = Nothing]
        /\ result' = Nothing /\ store' = store
    BY <1>1 DEF Receive, Free, IInv
  <2>2. frame.name = q[1] /\ frame.qtype = q[2] /\ frame.op = "lookup"
    BY DEF LookupFrame
  <2> HIDE DEF frame
  <2>3. q # Nothing
    BY RecursionConstants
  <2>4. Walks(<<frame>>, q)
    BY <2>2, <2>3 DEF Walks, HoldsItsAlias
  <2>5. \A u \in Task : /\ stack'[u] = IF u = t THEN <<frame>> ELSE stack[u]
                        /\ question'[u] = IF u = t THEN q ELSE question[u]
                        /\ handled'[u] = IF u = t THEN Nothing ELSE handled[u]
    BY <2>1 DEF IInv
  <2>6. StoreChains'
    BY <2>1 DEF ChainInv, StoreChains
  <2>7. \A u \in Task : Walks(stack'[u], question'[u])
    BY <2>4, <2>5 DEF ChainInv
  <2>8. \A u \in Task : handled'[u] # Nothing /\ question'[u] # Nothing =>
            Chain(handled'[u].answers, question'[u][1], question'[u][2])
    BY <2>5 DEF ChainInv
  <2> QED
    BY <2>1, <2>6, <2>7, <2>8 DEF ChainInv
<1>2. ASSUME NEW t \in Task, RejectEmpty(t)
      PROVE  ChainInv'
  <2>1. /\ UNCHANGED <<store, stack, running, result>> /\ result = Nothing
        /\ stack[t] = <<>>
        /\ \A u \in Task : question'[u] = IF u = t THEN Nothing ELSE question[u]
        /\ \A u \in Task \ {t} : handled'[u] = handled[u]
    BY <1>2 DEF RejectEmpty, Free, IInv
  <2>2. \A u \in Task : Walks(stack'[u], question'[u])
    BY <2>1 DEF ChainInv, Walks
  <2>3. \A u \in Task : handled'[u] # Nothing /\ question'[u] # Nothing =>
            Chain(handled'[u].answers, question'[u][1], question'[u][2])
    BY <2>1 DEF ChainInv
  <2>4. StoreChains'
    BY <2>1 DEF ChainInv, StoreChains
  <2> QED
    BY <2>1, <2>2, <2>3, <2>4 DEF ChainInv
<1>3. ASSUME NEW t \in Task, Progress(t)
      PROVE  ChainInv'
  <2>1. CASE Respond(t)
    <3>1. /\ UNCHANGED <<store, stack, question>> /\ result' = Nothing
          /\ running = t /\ stack[t] = <<>> /\ result # Nothing
          /\ \A u \in Task : handled'[u] = IF u = t THEN result ELSE handled[u]
      BY <2>1 DEF Respond, IInv
    <3>2. question[t] # Nothing => Chain(result.answers, question[t][1], question[t][2])
      BY <3>1 DEF ChainInv, Delivers
    <3>3. \A u \in Task : handled'[u] # Nothing /\ question'[u] # Nothing =>
              Chain(handled'[u].answers, question'[u][1], question'[u][2])
      BY <3>1, <3>2 DEF ChainInv
    <3>4. StoreChains'
      BY <3>1 DEF ChainInv, StoreChains
    <3> QED
      BY <3>1, <3>3, <3>4 DEF ChainInv
  <2>2. CASE ~Respond(t)
    <3>1. RestKept
      BY <1>3, <2>2
      DEF Progress, CacheHit, StartWalk, TooDeep, Hear, HearAnswer,
          HearAlias, HearDenial, HearNoData, HearReferral, HearGlueless,
          TryNextServer, NoServerAnswers, ReturnAlias, ReturnAddresses,
          ReturnNextName, ReturnNoAddress, RestKept
    <3> QED
      BY <1>3, <2>2, <3>1, LookupChain, HearChain, AskChain, ReturnChain DEF Progress
  <2> QED
    BY <2>1, <2>2
<1>4. ASSUME UNCHANGED <<store, walkVars>>
      PROVE  ChainInv'
  BY <1>4 DEF walkVars, ChainInv, StoreChains
<1>5. ASSUME Wait
      PROVE  ChainInv'
  BY <1>4, <1>5 DEF Wait, Tick
<1>6. ASSUME UNCHANGED vars
      PROVE  ChainInv'
  BY <1>4, <1>6 DEF vars, walkVars
<1> QED
  BY <1>1, <1>2, <1>3, <1>5, <1>6 DEF Next, Quiesced

-----------------------------------------------------------------------------
(* Leases: when the records of an entry, a result and a frame were heard,  *)
(* and why a walk puts the same value on a key a second time only if it is *)
(* a bare alias.                                                           *)

HeardBy(records, tick) == \A i \in DOMAIN records : records[i].heard <= tick

HeardAt(records, tick) == \E i \in DOMAIN records : records[i].heard = tick

(* An entry is what its put computed, from records that had arrived.       *)
EntryHeard(e) ==
    /\ e.ttl = ComputeTtl(e.rcode, e.answers, e.authorities)
    /\ HeardBy(e.answers, e.stored_at)
    /\ HeardBy(e.authorities, e.stored_at)

StoreHeard == \A k \in Key : store[k] # NoEntry => EntryHeard(store[k])

(* What put does not cache: errors, and denials without an SOA.            *)
Uncacheable(rcode, authorities) ==
    \/ rcode \notin {"NOERROR", "NXDOMAIN"}
    \/ rcode = "NXDOMAIN" /\ SoaPositions(authorities) = {}

OnlyAliases(records) == \A i \in DOMAIN records : records[i].rtype = "CNAME"

(* Nobody has said anything, but perhaps that the name is an alias.        *)
Bare(answers, authorities) == authorities = <<>> /\ OnlyAliases(answers)

(* A value that holds a record which has just arrived is like no value     *)
(* stored before; a bare one may be.                                       *)
Novel(rcode, answers, authorities, tick) ==
    \/ Uncacheable(rcode, authorities)
    \/ HeardAt(answers, tick) \/ HeardAt(authorities, tick)
    \/ Bare(answers, authorities)

(* What frames wait with: aliases that have arrived.                       *)
Carried(records, tick) == HeardBy(records, tick) /\ OnlyAliases(records)

(* What a walk holds has arrived.  When a result is handed to a frame that *)
(* waits with an alias, or a lookup above one is about to read the cache,  *)
(* something of what the frame will put has arrived at this very tick.     *)
FreshWalk(runs, s, res, tick) ==
    /\ \A i \in 1 .. Len(s) : Carried(s[i].cname, tick)
    /\ runs /\ res # Nothing /\ s # <<>> /\ s[Len(s)].op = "alias" =>
           \/ Novel(res.rcode, res.answers, res.authorities, tick)
           \/ HeardAt(s[Len(s)].cname, tick)
    /\ runs /\ res = Nothing /\ Len(s) >= 2 /\ s[Len(s) - 1].op = "alias" =>
           HeardAt(s[Len(s) - 1].cname, tick)

FreshInv ==
    /\ StoreHeard
    /\ result # Nothing => HeardBy(result.answers, now) /\ HeardBy(result.authorities, now)
    /\ \A t \in Task : FreshWalk(running = t, stack[t], result, now)

(* A step of the table of leases, or the one it has no name for.           *)
LeaseStep == [Leases!Next \/ RenewsBareAlias]_(Leases!leaseVars)

LEMMA NoneInNothing == SoaPositions(<<>>) = {}
BY DEF SoaPositions

(* What a put of a novel value does to the leases: it leaves the store as  *)
(* it is, or grants a lease on a value the key did not have, or renews one *)
(* on a bare alias.                                                        *)
LEMMA PutNovel ==
    ASSUME MinTtl = 0, CacheTypeOK, StoreHeard, NEW k \in Key, NEW rcode \in RCode,
           NEW answers \in Seq(Record), NEW authorities \in Seq(Record),
           HeardBy(answers, now), HeardBy(authorities, now),
           Novel(rcode, answers, authorities, now),
           rcode \in {"NOERROR", "NXDOMAIN"},
           Put(k, rcode, answers, authorities)
    PROVE  StoreHeard' /\ LeaseStep
<1> DEFINE ttl == ComputeTtl(rcode, answers, authorities)
           new == [rcode |-> rcode, answers |-> answers,
                   authorities |-> authorities, stored_at |-> now, ttl |-> ttl]
           lease == [j \in Key |-> LeaseOf(store[j])]
<1>1. /\ ttl \in 0 .. AtLeast(MinTtl, MaxTtl) /\ AtLeast(MinTtl, MaxTtl) \in Nat
      /\ now \in Nat /\ now' = now /\ store \in [Key -> Entry \cup {NoEntry}]
  BY ComputeTtlType, CacheConstants DEF AtLeast, CacheTypeOK, Put
<1>2. CASE ttl <= 0
  BY <1>1, <1>2 DEF Put, StoreHeard, LeaseStep, Leases!leaseVars
<1>3. CASE ttl > 0
  <2>1. store' = [store EXCEPT ![k] = new]
    BY <1>1, <1>3 DEF Put
  <2>2. new \in Entry /\ EntryHeard(new)
    BY <1>1 DEF Entry, EntryHeard
  <2>3. /\ new.rcode = rcode /\ new.answers = answers /\ new.authorities = authorities
        /\ new.stored_at = now /\ new.ttl = ttl
    OBVIOUS
  <2>4. new.ttl \in 1 .. AtLeast(MinTtl, MaxTtl)
    BY <1>1, <1>3, <2>3
  <2>5. \/ HeardAt(answers, now) \/ HeardAt(authorities, now)
        \/ Bare(answers, authorities) /\ answers # <<>>
    <3>1. IsPositive(rcode, answers) \/ SoaPositions(authorities) # {}
      BY <1>3, ComputeTtlWithin
    <3>2. authorities = <<>> => SoaPositions(authorities) = {}
      BY NoneInNothing
    <3> QED
      BY <3>1, <3>2 DEF Novel, Uncacheable, IsPositive, Bare
  <2> HIDE DEF new, ttl
  <2>6. StoreHeard'
    BY <1>1, <2>1, <2>2 DEF StoreHeard
  <2>7. CASE /\ HeardAt(answers, now) \/ HeardAt(authorities, now)
             /\ store[k] # NoEntry /\ LeaseOf(store[k]).value = LeaseOf(new).value
    <3> DEFINE d == store[k]
    <3>1. d \in Entry /\ EntryHeard(d) /\ d.stored_at <= now
      BY <1>1, <2>7 DEF StoreHeard, CacheTypeOK
    <3>2. d.rcode = rcode /\ d.answers = answers /\ d.authorities = authorities
      BY <2>2, <2>3, <2>7, CacheConstants DEF LeaseOf
    <3>3. d.ttl = new.ttl
      BY <2>3, <3>1, <3>2 DEF EntryHeard, ttl
    <3>4. d.stored_at = now
      <4>1. d.stored_at \in Nat
        BY <3>1 DEF Entry
      <4> QED
        BY <1>1, <2>7, <3>1, <3>2, <4>1 DEF HeardAt, HeardBy, EntryHeard
    <3>5. d = new
      BY <2>2, <2>3, <3>1, <3>2, <3>3, <3>4 DEF Entry
    <3>6. store' = store
      BY <1>1, <2>1, <3>5
    <3> QED
      BY <1>1, <2>6, <3>6 DEF LeaseStep, Leases!leaseVars
  <2>8. Leases!Begin(k) /\ lease'[k] = LeaseOf(new)
    <3>1. lease' = [lease EXCEPT ![k] = LeaseOf(new)]
      BY <1>1, <2>1, <2>2, LeaseOfUpdate
    <3>2. lease'[k] = LeaseOf(new) /\ lease' = [lease EXCEPT ![k] = lease'[k]]
      BY <3>1
    <3>3. LeaseOf(new).start = now /\ LeaseOf(new).end = ExpiresAt(new)
      BY <2>2, <2>3, CacheConstants DEF LeaseOf
    <3>4. /\ ExpiresAt(new) \in Nat /\ ExpiresAt(new) > now
          /\ ExpiresAt(new) <= now + AtLeast(MinTtl, MaxTtl) * TicksPerSecond
      BY <2>2, <2>3, <2>4, LeaseLength
    <3>5. LeaseOf(new) # VoidLease
      BY <1>1, <3>3, <3>4 DEF VoidLease
    <3> HIDE DEF lease
    <3> QED
      BY <1>1, <3>2, <3>3, <3>4, <3>5 DEF Leases!Begin, lease
  <2>9. lease[k] = LeaseOf(store[k]) /\ (lease[k] = VoidLease => store[k] = NoEntry)
    <3>1. ASSUME store[k] # NoEntry
          PROVE  LeaseOf(store[k]) # VoidLease
      <4>1. /\ store[k] \in Entry /\ store[k].ttl \in 1 .. AtLeast(MinTtl, MaxTtl)
            /\ LeaseOf(store[k]).end = ExpiresAt(store[k])
        BY <1>1, <3>1 DEF CacheTypeOK, LeaseOf
      <4> QED
        BY <4>1, LeaseLength DEF VoidLease, Entry
    <3> QED
      BY <3>1
  <2>10. CASE store[k] = NoEntry \/ LeaseOf(store[k]).value # LeaseOf(new).value
    <3>1. lease[k] # VoidLease => lease'[k].value # lease[k].value
      BY <2>8, <2>9, <2>10 DEF LeaseOf
    <3> HIDE DEF lease
    <3>2. Leases!Grant(k)
      BY <2>8, <3>1 DEF Leases!Grant, lease
    <3> QED
      BY <2>6, <3>2 DEF LeaseStep, Leases!Next
  <2>11. CASE /\ Bare(answers, authorities) /\ answers # <<>>
              /\ store[k] # NoEntry /\ LeaseOf(store[k]).value = LeaseOf(new).value
    <3>1. lease[k] # VoidLease /\ lease'[k].value = lease[k].value
      BY <2>8, <2>9, <2>11
    <3> HIDE DEF lease
    <3>2. Leases!Renew(k)
      BY <2>8, <3>1 DEF Leases!Renew, lease
    <3>3. store'[k].answers = answers /\ store'[k].authorities = authorities
      BY <1>1, <2>1, <2>3
    <3>4. RenewsBareAlias
      BY <2>11, <3>2, <3>3 DEF RenewsBareAlias, Bare, OnlyAliases, Range
    <3> QED
      BY <2>6, <3>4 DEF LeaseStep
  <2> QED
    BY <2>5, <2>7, <2>10, <2>11
<1> QED
  BY <1>1, <1>2, <1>3

(* The operators the actions are built from keep FreshInv and refine the   *)
(* table of leases.                                                        *)

(* Whatever changes one stack of the task that has the event loop, or gets *)
(* it or gives it up, keeps the parts of FreshInv.                         *)
LEMMA FreshStep ==
    ASSUME IInv, FreshInv, NEW t \in Task, running \in {t, Idle}, running' \in {t, Idle},
           NEW s, stack' = [stack EXCEPT ![t] = s],
           now' = now, StoreHeard',
           result' # Nothing => HeardBy(result'.answers, now) /\ HeardBy(result'.authorities, now),
           FreshWalk(running' = t, s, result', now)
    PROVE  FreshInv'
<1>1. \A u \in Task : stack'[u] = IF u = t THEN s ELSE stack[u]
  BY DEF IInv
<1>2. ASSUME NEW u \in Task
      PROVE  FreshWalk(running' = u, stack'[u], result', now')
  <2>1. CASE u = t
    BY <1>1, <2>1
  <2>2. CASE u # t
    <3>1. running' # u /\ stack'[u] = stack[u]
      BY <1>1, <2>2, RecursionConstants
    <3>2. \A i \in 1 .. Len(stack[u]) : Carried(stack[u][i].cname, now)
      BY DEF FreshInv, FreshWalk
    <3> QED
      BY <3>1, <3>2 DEF FreshWalk
  <2> QED
    BY <2>1, <2>2
<1> QED
  BY <1>2 DEF FreshInv

(* The top of a task's stack and the frames below it.                      *)
LEMMA TopFresh ==
    ASSUME IInv, FreshInv, NEW t \in Task, stack[t] # <<>>
    PROVE  /\ Top(t) \in Frame /\ KeyOf(Top(t)) \in Key
           /\ Top(t) = stack[t][Len(stack[t])]
           /\ Carried(Top(t).cname, now)
           /\ Front(stack[t]) \in Seq(Frame) /\ Len(stack[t]) \in Nat \ {0}
           /\ Len(Front(stack[t])) = Len(stack[t]) - 1
           /\ \A i \in 1 .. Len(stack[t]) - 1 : Front(stack[t])[i] = stack[t][i]
           /\ \A i \in 1 .. Len(Front(stack[t])) : Carried(Front(stack[t])[i].cname, now)
<1>1. /\ Top(t) \in Frame /\ Top(t) = stack[t][Len(stack[t])]
      /\ Len(stack[t]) \in Nat \ {0} /\ stack[t] \in Seq(Frame)
  BY TopProperties DEF WellFormed
<1>2. KeyOf(Top(t)) \in Key
  <2>1. Top(t).name \in Name /\ Top(t).qtype \in RType /\ "IN" \in RClass
    BY <1>1, RecursionConstants DEF Frame
  <2> QED
    BY <2>1 DEF KeyOf, Key
<1>3. \A i \in 1 .. Len(stack[t]) : Carried(stack[t][i].cname, now)
  BY DEF FreshInv, FreshWalk
<1>4. /\ Front(stack[t]) \in Seq(Frame)
      /\ Len(Front(stack[t])) = Len(stack[t]) - 1
      /\ \A i \in 1 .. Len(stack[t]) - 1 : Front(stack[t])[i] = stack[t][i]
  BY <1>1, FrontProperties
<1> QED
  BY <1>1, <1>2, <1>3, <1>4

(* Popping the frame and handing a novel result to the one below.          *)
LEMMA PopFresh ==
    ASSUME IInv, FreshInv, NEW t \in Task, stack[t] # <<>>, NEW res, NEW runs \in BOOLEAN,
           res # Nothing,
           \/ Novel(res.rcode, res.answers, res.authorities, now)
           \/ Len(stack[t]) >= 2 /\ stack[t][Len(stack[t]) - 1].op = "alias"
                => HeardAt(stack[t][Len(stack[t]) - 1].cname, now)
    PROVE  FreshWalk(runs, Front(stack[t]), res, now)
<1> DEFINE s == Front(stack[t])
           n == Len(stack[t])
<1>1. /\ n \in Nat \ {0} /\ s \in Seq(Frame) /\ Len(s) = n - 1
      /\ \A i \in 1 .. n - 1 : s[i] = stack[t][i]
      /\ \A i \in 1 .. Len(s) : Carried(s[i].cname, now)
  BY TopFresh
<1>2. s # <<>> => n >= 2 /\ s[Len(s)] = stack[t][n - 1]
  <2> HIDE DEF s, n
  <2> QED
    BY <1>1
<1> HIDE DEF s
<1>3. ASSUME s # <<>>, s[Len(s)].op = "alias"
      PROVE  \/ Novel(res.rcode, res.answers, res.authorities, now)
             \/ HeardAt(s[Len(s)].cname, now)
  BY <1>2, <1>3
<1>4. FreshWalk(runs, s, res, now)
  BY <1>1, <1>3 DEF FreshWalk
<1> QED
  BY <1>4 DEF s

LEMMA FinishFresh ==
    ASSUME MinTtl = 0, IInv, FreshInv, NEW t \in Task, running \in {t, Idle},
           stack[t] # <<>>, NEW rcode \in RCode, NEW answers \in Seq(Record),
           NEW authorities \in Seq(Record),
           HeardBy(answers, now), HeardBy(authorities, now),
           Novel(rcode, answers, authorities, now),
           Finish(t, rcode, answers, authorities)
    PROVE  FreshInv' /\ LeaseStep
<1>1. KeyOf(Top(t)) \in Key
  BY TopFresh
<1>2. StoreHeard' /\ now' = now /\ LeaseStep
  <2>1. CASE rcode \in {"NOERROR", "NXDOMAIN"}
    <3>1. Put(KeyOf(Top(t)), rcode, answers, authorities)
      BY <2>1 DEF Finish
    <3>2. CacheTypeOK /\ StoreHeard
      BY DEF IInv, FreshInv
    <3> QED
      BY <1>1, <2>1, <3>1, <3>2, PutNovel DEF Put
  <2>2. CASE rcode \notin {"NOERROR", "NXDOMAIN"}
    BY <2>2 DEF Finish, cacheVars, FreshInv, StoreHeard, LeaseStep, Leases!leaseVars
  <2> QED
    BY <2>1, <2>2
<1> DEFINE res == [rcode |-> rcode, answers |-> answers,
                   authorities |-> authorities, from_cache |-> FALSE]
<1>3. /\ result' = res /\ running' = t
      /\ stack' = [stack EXCEPT ![t] = Front(stack[t])]
  BY DEF Finish, Pop
<1>4. /\ res # Nothing /\ res.rcode = rcode /\ res.answers = answers
      /\ res.authorities = authorities
  <2>1. res \in Result
    BY DEF Result
  <2> QED
    BY <2>1, RecursionConstants
<1> HIDE DEF res
<1>5. FreshWalk(running' = t, Front(stack[t]), result', now)
  BY <1>3, <1>4, PopFresh
<1> QED
  BY <1>2, <1>3, <1>4, <1>5, FreshStep

LEMMA NothingHeard ==
    /\ \A tick : HeardBy(<<>>, tick) /\ Carried(<<>>, tick)
    /\ Bare(<<>>, <<>>)
BY DEF HeardBy, Carried, OnlyAliases, Bare

LEMMA FailFresh ==
    ASSUME MinTtl = 0, IInv, FreshInv, NEW t \in Task, running \in {t, Idle},
           stack[t] # <<>>, Fail(t)
    PROVE  FreshInv' /\ LeaseStep
<1>1. <<>> \in Seq(Record) /\ "SERVFAIL" \in RCode
  BY DEF RCode
<1>2. Novel("SERVFAIL", <<>>, <<>>, now)
  BY DEF Novel, Uncacheable
<1> QED
  BY <1>1, <1>2, NothingHeard, FinishFresh DEF Fail

(* Waiting for the network with another frame on top.                      *)
LEMMA ReplaceFresh ==
    ASSUME IInv, FreshInv, NEW t \in Task, running \in {t, Idle}, stack[t] # <<>>,
           NEW frame \in Frame, Carried(frame.cname, now),
           stack' = ReplaceTop(t, frame), StoreHeard', now' = now,
           result' = Nothing, running' = Idle
    PROVE  FreshInv'
<1> DEFINE s == Append(Front(stack[t]), frame)
<1>1. /\ Front(stack[t]) \in Seq(Frame)
      /\ \A i \in 1 .. Len(Front(stack[t])) : Carried(Front(stack[t])[i].cname, now)
  BY TopFresh
<1>2. \A i \in 1 .. Len(s) : Carried(s[i].cname, now)
  <2>1. /\ Len(s) = Len(Front(stack[t])) + 1
        /\ \A i \in 1 .. Len(Front(stack[t])) : s[i] = Front(stack[t])[i]
        /\ s[Len(Front(stack[t])) + 1] = frame
        /\ Len(Front(stack[t])) \in Nat
    BY <1>1, AppendProperties
  <2> HIDE DEF s
  <2> QED
    BY <1>1, <2>1
<1>3. stack' = [stack EXCEPT ![t] = s]
  BY DEF ReplaceTop
<1> HIDE DEF s
<1>4. running' # t
  BY RecursionConstants
<1>5. FreshWalk(running' = t, s, result', now)
  BY <1>2, <1>4 DEF FreshWalk
<1> QED
  BY <1>3, <1>5, FreshStep

(* A frame that awaits a lookup: if it waits with an alias, that has just  *)
(* arrived.                                                                *)
LEMMA CallFresh ==
    ASSUME IInv, FreshInv, NEW t \in Task, running \in {t, Idle}, stack[t] # <<>>,
           NEW frame \in Frame, Carried(frame.cname, now),
           frame.op = "alias" => HeardAt(frame.cname, now),
           NEW name \in Name, NEW qtype \in RType,
           Call(t, frame, name, qtype)
    PROVE  FreshInv' /\ LeaseStep
<1> DEFINE front == Front(stack[t])
           below == Append(front, frame)
           above == LookupFrame(name, qtype)
           s == Append(below, above)
<1>1. front \in Seq(Frame) /\ \A i \in 1 .. Len(front) : Carried(front[i].cname, now)
  BY TopFresh
<1>2. above \in Frame /\ Carried(above.cname, now)
  BY LookupFrameType, NothingHeard DEF LookupFrame
<1> HIDE DEF front, above
<1>3. /\ below \in Seq(Frame) /\ Len(below) = Len(front) + 1 /\ Len(front) \in Nat
      /\ \A i \in 1 .. Len(front) : below[i] = front[i]
      /\ below[Len(front) + 1] = frame
  BY <1>1, AppendProperties
<1> HIDE DEF below
<1>4. /\ Len(s) = Len(below) + 1
      /\ \A i \in 1 .. Len(below) : s[i] = below[i]
      /\ s[Len(below) + 1] = above
  BY <1>2, <1>3, AppendProperties
<1> HIDE DEF s
<1>5. /\ \A i \in 1 .. Len(s) : Carried(s[i].cname, now)
      /\ s[Len(s) - 1] = frame
  BY <1>1, <1>2, <1>3, <1>4
<1>6. stack' = [stack EXCEPT ![t] = s] /\ result' = Nothing /\ running' = t
  BY DEF Call, s, below, above, front
<1>7. StoreHeard' /\ now' = now /\ LeaseStep
  BY DEF Call, cacheVars, FreshInv, StoreHeard, LeaseStep, Leases!leaseVars
<1>8. FreshWalk(running' = t, s, result', now)
  BY <1>5, <1>6 DEF FreshWalk
<1> QED
  BY <1>6, <1>7, <1>8, FreshStep

LEMMA DescendFresh ==
    ASSUME MinTtl = 0, IInv, FreshInv, NEW t \in Task, running \in {t, Idle},
           stack[t] # <<>>, NEW servers \in Nat, Descend(t, servers)
    PROVE  FreshInv' /\ LeaseStep
<1>1. CASE Top(t).hops < MaxDelegations
  <2> DEFINE frame == [Top(t) EXCEPT !.op = "ask", !.left = servers,
                                     !.hops = @ + 1, !.referral = <<>>, !.todo = {}]
  <2>1. Top(t) \in Frame /\ Carried(Top(t).cname, now)
    BY TopFresh
  <2>2. frame \in Frame /\ frame.cname = Top(t).cname
    <3>1. Top(t).hops + 1 \in 0 .. MaxDelegations
      BY <1>1, <2>1, RecursionConstants DEF Frame
    <3>2. <<>> \in Seq(Name)
      OBVIOUS
    <3> QED
      BY <2>1, <3>1, <3>2 DEF Frame
  <2>3. /\ stack' = ReplaceTop(t, frame) /\ result' = Nothing /\ running' = Idle
        /\ UNCHANGED <<now, store>>
    BY <1>1 DEF Descend, cacheVars
  <2>4. StoreHeard' /\ LeaseStep
    BY <2>3 DEF FreshInv, StoreHeard, LeaseStep, Leases!leaseVars
  <2> HIDE DEF frame
  <2> QED
    BY <2>1, <2>2, <2>3, <2>4, ReplaceFresh
<1>2. CASE ~(Top(t).hops < MaxDelegations)
  BY <1>2, FailFresh DEF Descend
<1> QED
  BY <1>1, <1>2

(* Records that arrive bear the tick.                                      *)
LEMMA StampedHeard ==
    ASSUME NEW records \in Seq(Record), now \in Nat
    PROVE  /\ Stamp(records) \in Seq(Record)
           /\ HeardBy(Stamp(records), now)
           /\ records # <<>> => HeardAt(Stamp(records), now)
<1>1. /\ Stamp(records) \in Seq(Record)
      /\ DOMAIN Stamp(records) = DOMAIN records
      /\ \A i \in DOMAIN records : Stamp(records)[i].heard = now
  BY StampKeeps
<1>2. records # <<>> => 1 \in DOMAIN records
  OBVIOUS
<1> QED
  BY <1>1, <1>2 DEF HeardBy, HeardAt

LEMMA LookupFresh ==
    ASSUME IInv, FreshInv, NEW t \in Task, CacheHit(t) \/ StartWalk(t) \/ TooDeep(t)
    PROVE  FreshInv' /\ LeaseStep
<1>1. stack[t] # <<>> /\ result = Nothing /\ running = t
  BY DEF CacheHit, StartWalk, TooDeep, LookingUp
<1>2. /\ Top(t) \in Frame /\ KeyOf(Top(t)) \in Key /\ Carried(Top(t).cname, now)
  BY <1>1, TopFresh
<1>3. CacheTypeOK /\ StoreHeard
  BY DEF IInv, FreshInv
<1> DEFINE n == Len(stack[t])
           k == KeyOf(Top(t))
<1>4. n >= 2 /\ stack[t][n - 1].op = "alias" => HeardAt(stack[t][n - 1].cname, now)
  BY <1>1 DEF FreshInv, FreshWalk
<1>5. CASE CacheHit(t)
  <2> DEFINE e == store[k]
             copy == FreshCopy(k)
             res == [rcode |-> copy.rcode, answers |-> copy.answers,
                     authorities |-> copy.authorities, from_cache |-> TRUE]
  <2>1. IsLive(k) /\ e # NoEntry /\ e \in Entry /\ copy \in Entry
    <3>1. IsLive(k)
      BY <1>5 DEF CacheHit, GetHit
    <3> QED
      BY <1>2, <1>3, <3>1, FreshCopyType DEF IsLive, CacheTypeOK
  <2>2. /\ result' = res /\ running' = t
        /\ now' = now /\ store' = store
        /\ stack' = [stack EXCEPT ![t] = Front(stack[t])]
    BY <1>1, <1>5 DEF CacheHit, GetHit, Pop
  <2>3. ASSUME NEW records \in Seq(Record), NEW tick \in Nat, HeardBy(records, tick),
               tick <= now
        PROVE  HeardBy(CountDown(records, Remaining(e)), now)
    <3>1. Remaining(e) \in Nat /\ now \in Nat
      BY <1>3, <2>1, RemainingRounds DEF IsLive, CacheTypeOK
    <3>2. /\ DOMAIN CountDown(records, Remaining(e)) = DOMAIN records
          /\ \A i \in DOMAIN records :
                CountDown(records, Remaining(e))[i].heard = records[i].heard
      BY <3>1, CountDownKeeps
    <3>3. \A i \in DOMAIN records : records[i].heard \in Nat
      <4>1. \A r \in Record : r.heard \in Nat
        BY DEF Record
      <4> QED
        BY <4>1, RecordTtls
    <3> QED
      BY <2>3, <3>1, <3>2, <3>3 DEF HeardBy
  <2>4. HeardBy(copy.answers, now) /\ HeardBy(copy.authorities, now)
    <3>1. /\ e.answers \in Seq(Record) /\ e.authorities \in Seq(Record)
          /\ e.stored_at \in Nat /\ e.stored_at <= now
      BY <1>2, <1>3, <2>1 DEF Entry, CacheTypeOK
    <3>2. HeardBy(e.answers, e.stored_at) /\ HeardBy(e.authorities, e.stored_at)
      BY <1>2, <1>3, <2>1 DEF StoreHeard, EntryHeard
    <3>3. /\ copy.answers = CountDown(e.answers, Remaining(e))
          /\ copy.authorities = CountDown(e.authorities, Remaining(e))
      BY DEF FreshCopy
    <3> HIDE DEF e, copy
    <3> QED
      BY <2>3, <3>1, <3>2, <3>3
  <2>5. res # Nothing /\ res.answers = copy.answers /\ res.authorities = copy.authorities
    <3>1. res \in Result
      BY <2>1 DEF Result, Entry
    <3> QED
      BY <3>1, RecursionConstants
  <2> HIDE DEF res, copy, e
  <2>6. FreshWalk(running' = t, Front(stack[t]), result', now)
    BY <1>1, <1>4, <2>2, <2>5, PopFresh
  <2>7. StoreHeard' /\ LeaseStep
    BY <1>3, <2>2 DEF StoreHeard, LeaseStep, Leases!leaseVars
  <2> QED
    BY <1>1, <2>2, <2>4, <2>5, <2>6, <2>7, FreshStep
<1>6. ASSUME GetMiss(KeyOf(Top(t)))
      PROVE  /\ StoreHeard' /\ now' = now
             /\ LeaseStep
  <2>1. LeaseStep
    BY <1>2, <1>3, <1>6, GetMissRefines DEF LeaseStep
  <2>2. StoreHeard' /\ now' = now
    BY <1>2, <1>3, <1>6 DEF GetMiss, StoreHeard, CacheTypeOK
  <2> QED
    BY <2>1, <2>2
<1>7. CASE StartWalk(t)
  <2> DEFINE frame == [Top(t) EXCEPT !.op = "ask", !.hops = 1, !.left = RootServers]
  <2>1. frame \in Frame /\ frame.cname = Top(t).cname
    <3>1. 1 \in 0 .. MaxDelegations /\ RootServers \in Nat
      BY RecursionConstants
    <3> QED
      BY <1>2, <3>1 DEF Frame
  <2>2. stack' = ReplaceTop(t, frame) /\ result' = Nothing /\ running' = Idle
    BY <1>1, <1>7 DEF StartWalk
  <2>3. GetMiss(KeyOf(Top(t)))
    BY <1>7 DEF StartWalk
  <2> HIDE DEF frame
  <2> QED
    BY <1>1, <1>2, <1>6, <2>1, <2>2, <2>3, ReplaceFresh
<1>8. CASE TooDeep(t)
  <2> DEFINE res == [rcode |-> "SERVFAIL", answers |-> <<>>, authorities |-> <<>>,
                     from_cache |-> FALSE]
  <2>1. /\ result' = res /\ running' = t
        /\ stack' = [stack EXCEPT ![t] = Front(stack[t])]
        /\ GetMiss(KeyOf(Top(t)))
    BY <1>1, <1>8 DEF TooDeep, Pop
  <2>2. /\ res # Nothing /\ HeardBy(res.answers, now) /\ HeardBy(res.authorities, now)
        /\ Novel(res.rcode, res.answers, res.authorities, now)
    <3>1. res \in Result
      BY DEF Result, RCode
    <3> QED
      BY <3>1, RecursionConstants, NothingHeard DEF Novel, Uncacheable
  <2> HIDE DEF res
  <2>3. FreshWalk(running' = t, Front(stack[t]), result', now)
    BY <1>1, <2>1, <2>2, PopFresh
  <2> QED
    BY <1>1, <1>6, <2>1, <2>2, <2>3, FreshStep
<1> QED
  BY <1>5, <1>7, <1>8

LEMMA HearFresh ==
    ASSUME MinTtl = 0, IInv, FreshInv,
           NEW t \in Task, Awaiting(t), Hear(t)
    PROVE  FreshInv' /\ LeaseStep
<1>1. stack[t] # <<>> /\ Top(t).op = "ask" /\ running \in {t, Idle} /\ now \in Nat
  BY DEF Awaiting, IInv, CacheTypeOK
<1>2. Top(t) \in Frame /\ Carried(Top(t).cname, now)
  BY <1>1, TopFresh
<1>3. PICK m \in Replies[<<Top(t).name, Top(t).qtype>>] :
         \/ HearAnswer(t, m)   \/ HearAlias(t, m)    \/ HearDenial(t, m)
         \/ HearNoData(t, m)   \/ HearReferral(t, m) \/ HearGlueless(t, m)
  BY DEF Hear
<1>4. /\ Top(t).name \in Name /\ Top(t).qtype \in RType
      /\ m.answers \in Seq(Record) /\ m.authorities \in Seq(Record)
      /\ m.additionals \in Seq(Record)
  BY MessageType
<1>5. <<>> \in Seq(Record) /\ {"NOERROR", "NXDOMAIN"} \subseteq RCode
  BY DEF RCode
<1>6. /\ Stamp(m.answers) \in Seq(Record) /\ Stamp(m.authorities) \in Seq(Record)
      /\ DOMAIN Stamp(m.answers) = DOMAIN m.answers
      /\ HeardBy(Stamp(m.answers), now) /\ HeardBy(Stamp(m.authorities), now)
      /\ m.answers # <<>> => HeardAt(Stamp(m.answers), now)
      /\ m.authorities # <<>> => HeardAt(Stamp(m.authorities), now)
  BY <1>1, <1>4, StampedHeard, StampKeeps
<1>7. CASE HearAnswer(t, m)
  <2>1. m.answers # <<>>
    BY <1>4, <1>7 DEF HearAnswer, IsAnswer, PositionsOf
  <2>2. Novel("NOERROR", Stamp(m.answers), Stamp(m.authorities), now)
    BY <1>6, <2>1 DEF Novel
  <2> QED
    BY <1>1, <1>5, <1>6, <1>7, <2>2, FinishFresh DEF HearAnswer
<1>8. CASE HearDenial(t, m)
  <2>1. m.authorities = <<>> => SoaPositions(Stamp(m.authorities)) = {}
    <3>1. DOMAIN Stamp(m.authorities) = DOMAIN m.authorities
      BY <1>1, <1>4, StampKeeps
    <3>2. m.authorities = <<>> => DOMAIN m.authorities = {}
      OBVIOUS
    <3> QED
      BY <3>1, <3>2 DEF SoaPositions
  <2>2. Novel("NXDOMAIN", <<>>, Stamp(m.authorities), now)
    BY <1>6, <2>1 DEF Novel, Uncacheable
  <2> QED
    BY <1>1, <1>5, <1>6, <1>8, <2>2, NothingHeard, FinishFresh DEF HearDenial
<1>9. CASE HearNoData(t, m)
  <2>1. m.authorities = <<>> => Stamp(m.authorities) = <<>>
    <3>1. DOMAIN Stamp(m.authorities) = DOMAIN m.authorities
      BY <1>1, <1>4, StampKeeps
    <3>2. m.authorities = <<>> => DOMAIN m.authorities = {}
      OBVIOUS
    <3> QED
      BY <1>6, <3>1, <3>2
  <2>2. Novel("NOERROR", <<>>, Stamp(m.authorities), now)
    BY <1>6, <2>1, NothingHeard DEF Novel
  <2> QED
    BY <1>1, <1>5, <1>6, <1>9, <2>2, NothingHeard, FinishFresh DEF HearNoData
<1>10. CASE HearAlias(t, m)
  <2> DEFINE i == Min(PositionsOf(m.answers, "CNAME"))
             cname == Stamp(m.answers)[i]
             frame == [Top(t) EXCEPT !.op = "alias", !.cname = <<cname>>]
  <2>1. i \in DOMAIN m.answers /\ m.answers[i].rtype = "CNAME"
    BY <1>4, <1>10, FirstPosition DEF HearAlias, IsAlias
  <2>2. cname \in Record /\ cname.heard = now /\ cname.rtype = "CNAME"
    BY <1>1, <1>4, <1>6, <2>1, StampKeeps
  <2>3. cname.target \in Name /\ <<cname>> \in Seq(Record)
    BY <2>2, TargetType
  <2>4. Call(t, frame, cname.target, Top(t).qtype)
    BY <1>10 DEF HearAlias
  <2> HIDE DEF cname
  <2>5. frame \in Frame /\ frame.cname = <<cname>>
    BY <1>2, <2>3 DEF Frame
  <2>6. Carried(<<cname>>, now) /\ HeardAt(<<cname>>, now)
    <3>1. DOMAIN <<cname>> = {1} /\ <<cname>>[1] = cname
      OBVIOUS
    <3> QED
      BY <1>1, <2>2, <3>1 DEF Carried, OnlyAliases, HeardBy, HeardAt
  <2> HIDE DEF frame
  <2> QED
    BY <1>1, <1>4, <2>3, <2>4, <2>5, <2>6, CallFresh
<1>11. CASE HearReferral(t, m)
  <2>1. Glue(m) \in SUBSET PositionsOf(m.additionals, "A")
    BY DEF Glue
  <2>2. Cardinality(Glue(m)) \in Nat \ {0}
    BY <1>4, <1>11, <2>1, PositionsProperties DEF HearReferral
  <2> QED
    BY <1>1, <1>11, <2>2, DescendFresh DEF HearReferral
<1>12. CASE HearGlueless(t, m)
  <2> DEFINE first == Min(NsPositions(m))
             names == [i \in DOMAIN m.authorities |-> m.authorities[i].target]
             rest == NsPositions(m) \ {first}
             frame == [Top(t) EXCEPT !.op = "glue", !.referral = names, !.todo = rest]
  <2>1. first \in DOMAIN m.authorities /\ NsPositions(m) \in SUBSET Nat
    BY <1>4, <1>12, FirstPosition DEF HearGlueless, NsPositions
  <2>2. m.authorities[first].target \in Name
    BY <1>4, <2>1, TargetType
  <2>3. names \in Seq(Name)
    BY <1>4, TargetsType
  <2>4. Call(t, frame, m.authorities[first].target, "A")
    BY <1>12 DEF HearGlueless
  <2>5. rest \in SUBSET Nat
    BY <2>1
  <2> HIDE DEF names, rest
  <2>6. frame \in Frame /\ frame.cname = Top(t).cname /\ frame.op = "glue"
    BY <1>2, <2>3, <2>5 DEF Frame
  <2> HIDE DEF frame, first
  <2>7. "A" \in RType
    BY CacheConstants
  <2> QED
    BY <1>1, <1>2, <2>2, <2>4, <2>6, <2>7, CallFresh
<1> QED
  BY <1>3, <1>7, <1>8, <1>9, <1>10, <1>11, <1>12

LEMMA AskFresh ==
    ASSUME MinTtl = 0, IInv, FreshInv, NEW t \in Task,
           TryNextServer(t) \/ NoServerAnswers(t)
    PROVE  FreshInv' /\ LeaseStep
<1>1. stack[t] # <<>> /\ running = Idle /\ result = Nothing
  BY DEF TryNextServer, NoServerAnswers, Awaiting, IInv
<1>2. CASE NoServerAnswers(t)
  BY <1>1, <1>2, FailFresh DEF NoServerAnswers
<1>3. CASE TryNextServer(t)
  <2> DEFINE frame == [Top(t) EXCEPT !.left = @ - 1]
  <2>1. Top(t) \in Frame /\ Carried(Top(t).cname, now)
    BY <1>1, TopFresh
  <2>2. frame \in Frame /\ frame.cname = Top(t).cname
    <3>1. Top(t).left - 1 \in Nat
      BY <1>3, <2>1 DEF TryNextServer, Frame
    <3> QED
      BY <2>1, <3>1 DEF Frame
  <2>3. /\ stack' = ReplaceTop(t, frame) /\ result' = Nothing /\ running' = Idle
        /\ UNCHANGED <<now, store>>
    BY <1>1, <1>3 DEF TryNextServer
  <2>4. StoreHeard' /\ LeaseStep
    BY <2>3 DEF FreshInv, StoreHeard, LeaseStep, Leases!leaseVars
  <2> HIDE DEF frame
  <2> QED
    BY <1>1, <2>1, <2>2, <2>3, <2>4, ReplaceFresh
<1> QED
  BY <1>2, <1>3

LEMMA ReturnFresh ==
    ASSUME MinTtl = 0, IInv, FreshInv, NEW t \in Task,
           \/ ReturnAlias(t) \/ ReturnAddresses(t)
           \/ ReturnNextName(t) \/ ReturnNoAddress(t)
    PROVE  FreshInv' /\ LeaseStep
<1>1. stack[t] # <<>> /\ result # Nothing /\ running = t
  BY DEF ReturnAlias, ReturnAddresses, ReturnNextName, ReturnNoAddress, Returning
<1>2. Top(t) \in Frame /\ Carried(Top(t).cname, now)
  BY <1>1, TopFresh
<1>3. /\ result.rcode \in RCode
      /\ result.answers \in Seq(Record) /\ result.authorities \in Seq(Record)
      /\ HeardBy(result.answers, now) /\ HeardBy(result.authorities, now)
  BY <1>1 DEF IInv, Result, FreshInv
<1>4. CASE ReturnAlias(t)
  <2> DEFINE chain == Top(t).cname \o result.answers
  <2>1. Top(t).cname \in Seq(Record) /\ Top(t).op = "alias"
    BY <1>2, <1>4 DEF Frame, ReturnAlias, Returning
  <2>2. /\ chain \in Seq(Record)
        /\ \A i \in DOMAIN chain :
              \/ \E j \in DOMAIN Top(t).cname : chain[i] = Top(t).cname[j]
              \/ \E j \in DOMAIN result.answers : chain[i] = result.answers[j]
    BY <1>3, <2>1, ConcatElements
  <2>3. /\ \A j \in DOMAIN Top(t).cname : \E i \in DOMAIN chain : chain[i] = Top(t).cname[j]
        /\ \A j \in DOMAIN result.answers : \E i \in DOMAIN chain : chain[i] = result.answers[j]
    BY <1>3, <2>1, ConcatCovers
  <2> HIDE DEF chain
  <2>4. HeardBy(chain, now)
    BY <1>2, <1>3, <2>2 DEF Carried, HeardBy
  <2>5. \/ Novel(result.rcode, result.answers, result.authorities, now)
        \/ HeardAt(Top(t).cname, now)
    <3>1. Top(t) = stack[t][Len(stack[t])]
      BY <1>1, TopFresh
    <3>2. FreshWalk(running = t, stack[t], result, now)
      BY DEF FreshInv
    <3> QED
      BY <1>1, <2>1, <3>1, <3>2 DEF FreshWalk
  <2>6. HeardAt(result.answers, now) \/ HeardAt(Top(t).cname, now) => HeardAt(chain, now)
    BY <2>3 DEF HeardAt
  <2>7. Bare(result.answers, result.authorities) => Bare(chain, result.authorities)
    BY <1>2, <2>2 DEF Bare, Carried, OnlyAliases
  <2>8. Novel(result.rcode, chain, result.authorities, now)
    BY <2>5, <2>6, <2>7 DEF Novel
  <2> QED
    BY <1>1, <1>3, <1>4, <2>2, <2>4, <2>8, FinishFresh DEF ReturnAlias, chain
<1>5. CASE ReturnAddresses(t)
  <2>1. Addresses \in SUBSET PositionsOf(result.answers, "A")
    BY DEF Addresses
  <2>2. Cardinality(Addresses) \in Nat \ {0}
    BY <1>3, <1>5, <2>1, PositionsProperties DEF ReturnAddresses
  <2> QED
    BY <1>1, <1>5, <2>2, DescendFresh DEF ReturnAddresses
<1>6. CASE ReturnNextName(t)
  <2> DEFINE next == Min(Top(t).todo)
             rest == Top(t).todo \ {next}
             frame == [Top(t) EXCEPT !.todo = rest]
  <2>1. /\ Top(t).todo \in SUBSET Nat /\ Top(t).todo # {}
        /\ Top(t).referral \in Seq(Name) /\ Top(t).op = "glue"
        /\ Top(t).todo \subseteq DOMAIN Top(t).referral
    BY <1>1, <1>2, <1>6, TopProperties DEF ReturnNextName, Returning, Frame
  <2>2. next \in Top(t).todo
    BY <2>1, MinNat
  <2>3. Top(t).referral[next] \in Name
    BY <2>1, <2>2
  <2>4. Call(t, frame, Top(t).referral[next], "A")
    BY <1>6 DEF ReturnNextName
  <2>5. rest \in SUBSET Nat
    BY <2>1
  <2> HIDE DEF rest, next
  <2>6. frame \in Frame /\ frame.cname = Top(t).cname /\ frame.op = "glue"
    BY <1>2, <2>1, <2>5 DEF Frame
  <2> HIDE DEF frame
  <2>7. "A" \in RType
    BY CacheConstants
  <2> QED
    BY <1>1, <1>2, <2>3, <2>4, <2>6, <2>7, CallFresh
<1>7. CASE ReturnNoAddress(t)
  BY <1>1, <1>7, FailFresh DEF ReturnNoAddress
<1> QED
  BY <1>4, <1>5, <1>6, <1>7

LEMMA InitFresh == Init => FreshInv /\ Leases!Init
<1> SUFFICES ASSUME Init
             PROVE  FreshInv /\ Leases!Init
  OBVIOUS
<1>1. StoreHeard /\ Leases!Init
  BY DEF Init, CacheInit, StoreHeard, Leases!Init, LeaseOf
<1>2. \A t \in Task : stack[t] = <<>>
  BY DEF Init
<1>3. \A runs, res, tick : FreshWalk(runs, <<>>, res, tick)
  BY DEF FreshWalk
<1> QED
  BY <1>1, <1>2, <1>3 DEF Init, FreshInv

LEMMA NextFresh ==
    ASSUME MinTtl = 0, IInv, FreshInv, [Next]_vars
    PROVE  FreshInv' /\ LeaseStep
<1>1. ASSUME NEW t \in Task, NEW q \in Question, Receive(t, q)
      PROVE  FreshInv' /\ LeaseStep
  <2> DEFINE s == <<LookupFrame(q[1], q[2])>>
  <2>1. /\ stack' = [stack EXCEPT ![t] = s]
        /\ result' = Nothing /\ UNCHANGED <<now, store>>
        /\ running = Idle /\ running' = t
    BY <1>1 DEF Receive, Free, IInv
  <2>2. Len(s) = 1 /\ s[1].cname = <<>>
    BY DEF LookupFrame
  <2> HIDE DEF s
  <2>3. FreshWalk(running' = t, s, result', now)
    BY <2>1, <2>2, NothingHeard DEF FreshWalk
  <2>4. StoreHeard' /\ LeaseStep
    BY <2>1 DEF FreshInv, StoreHeard, LeaseStep, Leases!leaseVars
  <2> QED
    BY <2>1, <2>3, <2>4, FreshStep
<1>2. ASSUME NEW t \in Task, Respond(t)
      PROVE  FreshInv' /\ LeaseStep
  <2>1. /\ stack' = [stack EXCEPT ![t] = <<>>] /\ running = t /\ running' = Idle
        /\ result' = Nothing /\ UNCHANGED <<now, store>>
    BY <1>2 DEF Respond, IInv
  <2>2. FreshWalk(running' = t, <<>>, result', now)
    BY DEF FreshWalk
  <2>3. StoreHeard' /\ LeaseStep
    BY <2>1 DEF FreshInv, StoreHeard, LeaseStep, Leases!leaseVars
  <2> QED
    BY <2>1, <2>2, <2>3, FreshStep
<1>3. ASSUME UNCHANGED <<now, store, stack, running, result>>
      PROVE  FreshInv' /\ LeaseStep
  BY <1>3 DEF FreshInv, StoreHeard, LeaseStep, Leases!leaseVars
<1>4. ASSUME NEW t \in Task, Progress(t)
      PROVE  FreshInv' /\ LeaseStep
  BY <1>2, <1>4, LookupFresh, HearFresh, AskFresh, ReturnFresh DEF Progress
<1>5. ASSUME NEW t \in Task, RejectEmpty(t)
      PROVE  FreshInv' /\ LeaseStep
  BY <1>3, <1>5 DEF RejectEmpty
<1>6. ASSUME Wait
      PROVE  FreshInv' /\ LeaseStep
  <2>1. /\ UNCHANGED <<store, stack, running, result>> /\ now' = now + 1 /\ now \in Nat
        /\ running = Idle /\ result = Nothing
    BY <1>6 DEF Wait, Tick, walkVars, IInv, CacheTypeOK
  <2>2. LeaseStep
    <3>1. Leases!Advance
      BY <2>1 DEF Leases!Advance
    <3> QED
      BY <3>1 DEF LeaseStep, Leases!Next
  <2>3. ASSUME NEW t \in Task
        PROVE  FreshWalk(running' = t, stack'[t], result', now')
    <3>1. running' # t /\ stack'[t] = stack[t] /\ stack[t] \in Seq(Frame)
      BY <2>1, RecursionConstants DEF IInv
    <3>2. \A i \in 1 .. Len(stack[t]) : Carried(stack[t][i].cname, now)
      BY DEF FreshInv, FreshWalk
    <3>3. \A i \in 1 .. Len(stack[t]) : Carried(stack[t][i].cname, now')
      <4>1. \A f \in Frame : f.cname \in Seq(Record)
        BY DEF Frame
      <4>2. \A i \in 1 .. Len(stack[t]) : stack[t][i].cname \in Seq(Record)
        BY <3>1, <4>1
      <4>3. \A r \in Record : r.heard \in Nat
        BY DEF Record
      <4>4. ASSUME NEW records \in Seq(Record), Carried(records, now)
            PROVE  Carried(records, now')
        <5>1. \A i \in DOMAIN records : records[i].heard \in Nat
          BY <4>3, RecordTtls
        <5> QED
          BY <2>1, <4>4, <5>1 DEF Carried, HeardBy
      <4> QED
        BY <3>2, <4>2, <4>4
    <3> QED
      BY <3>1, <3>3 DEF FreshWalk
  <2>4. StoreHeard'
    BY <2>1 DEF FreshInv, StoreHeard
  <2> QED
    BY <2>1, <2>2, <2>3, <2>4 DEF FreshInv
<1>7. ASSUME UNCHANGED vars
      PROVE  FreshInv' /\ LeaseStep
  BY <1>3, <1>7 DEF vars
<1> QED
  BY <1>1, <1>4, <1>5, <1>6, <1>7 DEF Next, Quiesced

-----------------------------------------------------------------------------
(* TYPE CORRECTNESS of the walk, for every tree and every answer.          *)
THEOREM TypeCorrect == Spec => []TypeOK
BY InitInv, NextInv, InvariantImplies, PTL DEF Spec

(* DEPTH: MAX_DEPTH holds for aliases and glueless name servers together,  *)
(* whatever the servers answer (resolver.py:213).                          *)
THEOREM DepthIsBounded == Spec => []NestingBounded
BY InitInv, NextInv, InvariantImplies, PTL DEF Spec

(* CONTROL: a task that gave up the event loop waits for a server that     *)
(* exists, and no result is lost between coroutines.                       *)
THEOREM ControlComesBack == Spec => []ControlReturns
BY InitInv, NextInv, InvariantImplies, PTL DEF Spec

(* LIFETIMES: no TTL the resolver hands out or stores promises more life   *)
(* than the authority of the record gave it, for any tree, any number of   *)
(* concurrent walks and any resolution of the clock.                       *)
THEOREM TargetsLast == Spec => []TargetsWithinLifetime
<1>1. CASE MinTtl = 0
  <2>1. Init => IInv /\ LifeInv
    BY InitInv, InitLife
  <2>2. IInv /\ LifeInv /\ [Next]_vars => (IInv /\ LifeInv)'
    BY <1>1, NextInv, NextLife
  <2>3. IInv /\ LifeInv => TargetsWithinLifetime
    BY LifeInvImplies
  <2> QED
    BY <2>1, <2>2, <2>3, PTL DEF Spec
<1>2. CASE MinTtl # 0
  <2>1. TargetsWithinLifetime
    BY <1>2 DEF TargetsWithinLifetime
  <2> QED
    BY <2>1, PTL
<1> QED
  BY <1>1, <1>2

(* CHAINS: if servers answer with records of the name they are asked, a    *)
(* client gets the chain from the name it asked to the records it asked    *)
(* for, whichever links came from the cache and whichever task put them    *)
(* there.                                                                  *)
THEOREM ChainsLead ==
    ASSUME ServersAnswerAsAsked
    PROVE  Spec => []ChainLeadsFromQuestion
<1>1. Init => IInv /\ ChainInv
  BY InitInv, InitChain
<1>2. IInv /\ ChainInv /\ [Next]_vars => (IInv /\ ChainInv)'
  BY NextInv, NextChain
<1> QED
  BY <1>1, <1>2, ChainInvImplies, PTL DEF Spec

(* LEASES: the cache all walks share is a table of leases, whatever the    *)
(* servers answer, if no minimum TTL is set.  No walk, however it          *)
(* interleaves with the others, revives, alters or prolongs what is        *)
(* cached: what it puts over an entry holds a record that arrived at that  *)
(* very tick, or is the entry itself, or is a bare alias, which may be     *)
(* renewed.                                                                *)
THEOREM RecursionKeepsLeases ==
    ASSUME MinTtl = 0
    PROVE  Spec => KeepsLeases
<1>1. Init => IInv /\ FreshInv /\ Leases!Init
  BY InitInv, InitFresh
<1>2. IInv /\ FreshInv /\ [Next]_vars =>
          (IInv /\ FreshInv)' /\ [Leases!Next \/ RenewsBareAlias]_(Leases!leaseVars)
  BY NextInv, NextFresh DEF LeaseStep
<1> QED
  BY <1>1, <1>2, PTL DEF Spec, KeepsLeases

=============================================================================
