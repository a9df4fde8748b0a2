---------------------------- MODULE CodecProofs ----------------------------
(***************************************************************************)
(* Proofs about domain names on the wire (NameCodec), for messages of any  *)
(* length with any names and fields, any limits of reader and pointers:    *)
(* whatever suffixes names share, each is read back as it was written; and *)
(* about the messages around them (MessageCodec), whose composition and    *)
(* parsing take no other steps with names, and of which every item is read *)
(* back: first the header, then, from Marks on, all of them.               *)
(***************************************************************************)
EXTENDS MessageCodec, SequenceTheorems, FiniteSetTheorems, WellFoundedInduction, TLAPS

-----------------------------------------------------------------------------
(* Labels and suffixes.                                                    *)

(* One character of a label in lower case.                                 *)
Small(c) == IF c \in 65 .. 90 THEN c + 32 ELSE c

LEMMA LowerProperties ==
  ASSUME NEW label \in Label
  PROVE  /\ Lower(label) \in Label /\ Len(Lower(label)) = Len(label)
         /\ \A k \in 1 .. Len(label) : Lower(label)[k] = Small(label[k])
<1>1. /\ Len(label) \in Nat /\ DOMAIN label = 1 .. Len(label) /\ label # <<>>
      /\ \A k \in 1 .. Len(label) : label[k] \in Nat
  BY LenProperties, ElementOfSeq DEF Label
<1>2. \A k \in 1 .. Len(label) : Small(label[k]) \in Nat
  BY <1>1 DEF Small
<1>3. Lower(label) = [k \in 1 .. Len(label) |-> Small(label[k])]
  BY <1>1 DEF Lower, Small
<1>4. Lower(label) \in Seq(Nat)
  BY <1>1, <1>2, <1>3, IsASeq
<1>5. Len(Lower(label)) = Len(label)
  BY <1>1, <1>3, <1>4, LenProperties
<1>6. Lower(label) # <<>>
  BY <1>1, <1>5, EmptySeq DEF Label
<1> QED
  BY <1>3, <1>4, <1>5, <1>6 DEF Label

LEMMA KeyProperties ==
  ASSUME NEW suffix \in Seq(Label)
  PROVE  /\ Key(suffix) \in Seq(Label) /\ Len(Key(suffix)) = Len(suffix)
         /\ \A i \in 1 .. Len(suffix) : Key(suffix)[i] = Lower(suffix[i])
<1>1. /\ Len(suffix) \in Nat /\ DOMAIN suffix = 1 .. Len(suffix)
      /\ \A i \in 1 .. Len(suffix) : suffix[i] \in Label
  BY LenProperties, ElementOfSeq
<1>2. \A i \in 1 .. Len(suffix) : Lower(suffix[i]) \in Label
  BY <1>1, LowerProperties
<1>3. Key(suffix) = [i \in 1 .. Len(suffix) |-> Lower(suffix[i])]
  BY <1>1 DEF Key
<1>4. Key(suffix) \in Seq(Label)
  BY <1>1, <1>2, <1>3, IsASeq
<1> QED
  BY <1>1, <1>3, <1>4, LenProperties

LEMMA KeyOfNothing == Key(<<>>) = <<>>
BY KeyProperties, EmptySeq

(* The key of what is left behind a label is what is left of the key.      *)
LEMMA KeyOfTail ==
  ASSUME NEW suffix \in Seq(Label), suffix # <<>>
  PROVE  /\ Key(suffix) # <<>> /\ Key(suffix)[1] = Lower(suffix[1])
         /\ suffix[1] \in Label /\ Tail(suffix) \in Seq(Label)
         /\ Key(Tail(suffix)) = Tail(Key(suffix))
<1>1. /\ Len(suffix) \in Nat \ {0} /\ suffix[1] \in Label
  BY EmptySeq, ElementOfSeq
<1>2. /\ Tail(suffix) \in Seq(Label) /\ Len(Tail(suffix)) = Len(suffix) - 1
      /\ \A i \in 1 .. Len(Tail(suffix)) : Tail(suffix)[i] = suffix[i + 1]
  BY HeadTailProperties
<1>3. /\ Key(suffix) \in Seq(Label) /\ Len(Key(suffix)) = Len(suffix)
      /\ \A i \in 1 .. Len(suffix) : Key(suffix)[i] = Lower(suffix[i])
  BY KeyProperties
<1>4. Key(suffix) # <<>>
  BY <1>1, <1>3, EmptySeq
<1>5. /\ Tail(Key(suffix)) \in Seq(Label)
      /\ Len(Tail(Key(suffix))) = Len(suffix) - 1
      /\ \A i \in 1 .. Len(Tail(Key(suffix))) :
             Tail(Key(suffix))[i] = Key(suffix)[i + 1]
  BY <1>3, <1>4, HeadTailProperties
<1>6. /\ Key(Tail(suffix)) \in Seq(Label)
      /\ Len(Key(Tail(suffix))) = Len(suffix) - 1
      /\ \A i \in 1 .. Len(suffix) - 1 : Key(Tail(suffix))[i] = Lower(Tail(suffix)[i])
  BY <1>2, KeyProperties
<1>7. \A i \in 1 .. Len(suffix) - 1 : Key(Tail(suffix))[i] = Tail(Key(suffix))[i]
  BY <1>1, <1>2, <1>3, <1>5, <1>6
<1>8. Key(Tail(suffix)) = Tail(Key(suffix))
  BY <1>5, <1>6, <1>7, SeqEqual
<1> QED
  BY <1>1, <1>2, <1>3, <1>4, <1>8

(* Bytes that spell a label in ASCII are read as this label.               *)
LEMMA SpelledIsDecoded ==
  ASSUME NEW bytes \in Seq(Byte), NEW label \in Label, Len(bytes) = Len(label),
         \A k \in 1 .. Len(label) : bytes[k] < 128 /\ Small(bytes[k]) = label[k]
  PROVE  Decoded(bytes) = label
<1> DEFINE ascii == [k \in DOMAIN bytes |-> IF bytes[k] < 128 THEN bytes[k] ELSE 65533]
<1>1. /\ Len(label) \in Nat /\ DOMAIN bytes = 1 .. Len(label)
      /\ DOMAIN label = 1 .. Len(label) /\ label \in Seq(Nat)
      /\ \A k \in 1 .. Len(label) : label[k] \in Nat
  BY LenProperties, ElementOfSeq DEF Label
<1>2. ascii = [k \in 1 .. Len(label) |-> bytes[k]]
  BY <1>1
<1>3. Decoded(bytes) = Lower(ascii)
  BY DEF Decoded
<1> HIDE DEF ascii
<1>4. Lower(ascii) = [k \in 1 .. Len(label) |-> Small(bytes[k])]
  BY <1>2 DEF Lower, Small
<1>5. Decoded(bytes) = [k \in 1 .. Len(label) |-> label[k]]
  BY <1>3, <1>4
<1>6. Decoded(bytes) \in Seq(Nat)
  BY <1>1, <1>5, IsASeq
<1>7. Len(Decoded(bytes)) = Len(label)
  BY <1>1, <1>5, <1>6, LenProperties
<1> QED
  BY <1>1, <1>5, <1>6, <1>7, SeqEqual

(* Moving the first element from one part to the other.                    *)
LEMMA AppendThenTail ==
  ASSUME NEW S, NEW s \in Seq(S), NEW t \in Seq(S), t # <<>>
  PROVE  Append(s, t[1]) \o Tail(t) = s \o t
<1>1. Len(t) \in Nat \ {0} /\ t[1] \in S /\ Len(s) \in Nat
  BY EmptySeq, ElementOfSeq, LenProperties
<1>2. /\ Tail(t) \in Seq(S) /\ Len(Tail(t)) = Len(t) - 1
      /\ \A i \in 1 .. Len(Tail(t)) : Tail(t)[i] = t[i + 1]
  BY HeadTailProperties
<1>3. /\ Append(s, t[1]) \in Seq(S) /\ Len(Append(s, t[1])) = Len(s) + 1
      /\ \A i \in 1 .. Len(s) : Append(s, t[1])[i] = s[i]
      /\ Append(s, t[1])[Len(s) + 1] = t[1]
  BY <1>1, AppendProperties
<1> DEFINE a == Append(s, t[1]) \o Tail(t)
           b == s \o t
<1>4. /\ a \in Seq(S) /\ Len(a) = Len(s) + Len(t)
      /\ \A i \in 1 .. Len(s) + Len(t) :
             a[i] = IF i <= Len(s) + 1 THEN Append(s, t[1])[i] ELSE Tail(t)[i - (Len(s) + 1)]
  BY <1>1, <1>2, <1>3, ConcatProperties
<1>5. /\ b \in Seq(S) /\ Len(b) = Len(s) + Len(t)
      /\ \A i \in 1 .. Len(s) + Len(t) :
             b[i] = IF i <= Len(s) THEN s[i] ELSE t[i - Len(s)]
  BY ConcatProperties
<1> HIDE DEF a, b
<1>6. ASSUME NEW i \in 1 .. Len(s) + Len(t) PROVE a[i] = b[i]
  <2>1. CASE i <= Len(s)
    BY <1>1, <1>3, <1>4, <1>5, <2>1
  <2>2. CASE i = Len(s) + 1
    BY <1>1, <1>3, <1>4, <1>5, <2>2
  <2>3. CASE i > Len(s) + 1
    <3>1. i - (Len(s) + 1) \in 1 .. Len(Tail(t))
      BY <1>1, <1>2, <2>3
    <3>2. Tail(t)[i - (Len(s) + 1)] = t[i - Len(s)]
      BY <1>1, <1>2, <3>1
    <3> QED
      BY <1>1, <1>4, <1>5, <2>3, <3>2
  <2> QED
    BY <1>1, <2>1, <2>2, <2>3
<1>7. a = b
  BY <1>4, <1>5, <1>6, SeqEqual
<1> QED
  BY <1>7 DEF a, b

(* The two bytes of a pointer lead back to where it points.                *)
LEMMA PointerProperties ==
  ASSUME NEW o \in Nat, o < OffsetSpace
  PROVE  /\ Pointer(o) \in Seq(Byte) /\ Len(Pointer(o)) = 2
         /\ Pointer(o)[1] >= 192 /\ Pointer(o)[1] <= 255 /\ Pointer(o)[2] \in Byte
         /\ (Pointer(o)[1] - 192) * 256 + Pointer(o)[2] = o
<1>1. OffsetSpace \in Nat \ {0} /\ OffsetSpace <= 16384
  BY NameCodecConstants
<1>2. o % OffsetSpace = o
  BY <1>1
<1>3. o < 16384
  BY <1>1
<1>4. /\ o \div 256 \in 0 .. 63 /\ o % 256 \in 0 .. 255
      /\ (o \div 256) * 256 + (o % 256) = o
  <2>1. o % 256 \in 0 .. 255
    OBVIOUS
  <2>2. o = 256 * (o \div 256) + (o % 256)
    OBVIOUS
  <2>3. o \div 256 \in Int
    OBVIOUS
  <2> QED
    BY <1>3, <2>1, <2>2, <2>3
<1>5. Pointer(o) = <<192 + o \div 256, o % 256>>
  BY <1>2 DEF Pointer
<1> QED
  BY <1>4, <1>5 DEF Byte

-----------------------------------------------------------------------------
(* The invariant.  The offsets at which labels, pointers and terminators   *)
(* begin are the parts of names; what the bytes at a part say agrees with  *)
(* what rest and owner remember of it, and each part leads to the next.    *)

Bookkeeping ==
    /\ DOMAIN rest \subseteq Nat
    /\ plain \subseteq 0 .. Len(buf) - 1
    /\ stage = "reading" => naming = Nothing
    /\ stage \in {"writing", "lost"} => op = "ready"
    /\ naming = Nothing => Len(stops) = Len(names)
    /\ naming # Nothing => Len(names) = Len(stops) + 1

(* A terminator: nothing is left of the name, which ends here.             *)
EndsAt(o) ==
    /\ rest[o] = <<>>
    /\ At(o) = 0
    /\ owner[o] \in 1 .. Len(stops) /\ stops[owner[o]] = o + 1

Target(o) == (At(o) - 192) * 256 + At(o + 1)

(* A pointer: it leads to the same suffix, and its own name ends here.     *)
PointsAt(o) ==
    /\ o + 1 < Len(buf) /\ o + 1 \notin plain
    /\ At(o) >= 192
    /\ Target(o) \in DOMAIN rest /\ rest[Target(o)] = rest[o]
    /\ owner[o] \in 1 .. Len(stops) /\ stops[owner[o]] = o + 2

(* The part behind a label, which may be the one to be written next.       *)
LeadsTo(o, next) ==
    \/ /\ next \in DOMAIN rest
       /\ rest[next] = Tail(rest[o]) /\ owner[next] = owner[o]
    \/ /\ next = Len(buf)
       /\ naming # Nothing /\ Key(naming) = Tail(rest[o]) /\ owner[o] = Len(names)

(* A label: its bytes spell the first label of the suffix.                 *)
LabelAt(o) ==
    /\ rest[o] # <<>>
    /\ At(o) \in 1 .. 63 /\ At(o) = Len(rest[o][1])
    /\ o + At(o) < Len(buf)
    /\ \A k \in 1 .. At(o) : /\ o + k \notin plain
                             /\ At(o + k) < 128 /\ Small(At(o + k)) = rest[o][1][k]
    /\ LeadsTo(o, o + 1 + At(o))

PartOK(o) ==
    /\ o < Len(buf) /\ o \notin plain
    /\ owner[o] \in 1 .. Len(names) /\ rest[o] \in Seq(Label)
    /\ EndsAt(o) \/ PointsAt(o) \/ LabelAt(o)

PartsOK == \A o \in DOMAIN rest : PartOK(o)

(* The table of the writer only knows suffixes that a pointer can reach.   *)
TableOK ==
    \A s \in DOMAIN offsets :
        offsets[s] \in DOMAIN rest /\ offsets[s] < OffsetSpace /\ rest[offsets[s]] = s

(* Every name begins with a part, unless nothing of it is written yet.     *)
Begun(i) ==
    \/ /\ names[i].start \in DOMAIN rest
       /\ rest[names[i].start] = Key(names[i].labels) /\ owner[names[i].start] = i
    \/ i = Len(names) /\ naming = names[i].labels /\ names[i].start = Len(buf)

AllBegun == \A i \in 1 .. Len(names) : Begun(i)

(* What the reader has collected and what is left where it is.             *)
OnTheWay(i) ==
    /\ op = "busy" =>
        /\ pos \in DOMAIN rest
        /\ Name \o rest[pos] = Key(names[i].labels)
        /\ IF jumped THEN after = stops[i] ELSE owner[pos] = i
    /\ op = "done" => Name = Key(names[i].labels) /\ after = stops[i]
    /\ op = "raised" => guard = Guard

ReaderOK ==
    stage = "reading" =>
        \A i \in 1 .. Len(names) : names[i].start = from => OnTheWay(i)

CursorOK ==
    /\ op = "busy" => IF jumped THEN from < after /\ after <= Len(buf)
                      ELSE after = pos /\ from <= pos
    /\ CursorMovesOn

IInv == TypeOK /\ Bookkeeping /\ PartsOK /\ TableOK /\ AllBegun /\ ReaderOK /\ CursorOK

-----------------------------------------------------------------------------
(* What a step of the writer leaves as it was: the bytes of names, the     *)
(* parts and the names themselves; and if a name is being written, the     *)
(* next part of it comes where the last one ended.                         *)
Keeps ==
    /\ Len(buf') \in Nat /\ Len(buf') >= Len(buf)
    /\ \A x \in 0 .. Len(buf) - 1 : x \notin plain =>
           buf'[x + 1] = buf[x + 1] /\ x \notin plain'
    /\ \A x \in DOMAIN rest :
           x \in DOMAIN rest' /\ rest'[x] = rest[x] /\ owner'[x] = owner[x]
    /\ Len(stops') \in Nat /\ Len(stops') >= Len(stops)
    /\ \A i \in 1 .. Len(stops) : stops'[i] = stops[i]
    /\ Len(names') \in Nat /\ Len(names') >= Len(names)
    /\ \A i \in 1 .. Len(names) : names'[i] = names[i]
    /\ \/ naming = Nothing
       \/ /\ Len(buf) \in DOMAIN rest'
          /\ rest'[Len(buf)] = Key(naming) /\ owner'[Len(buf)] = Len(names)

LEMMA KeptPart ==
  ASSUME TypeOK, Bookkeeping, Keeps, NEW o \in DOMAIN rest, PartOK(o)
  PROVE  PartOK(o)'
<1>1. /\ o \in Nat /\ Len(buf) \in Nat /\ Len(stops) \in Nat /\ Len(names) \in Nat
      /\ o < Len(buf) /\ o \notin plain
  BY LenProperties DEF TypeOK, Bookkeeping, PartOK
<1>2. /\ o \in DOMAIN rest' /\ rest'[o] = rest[o] /\ owner'[o] = owner[o]
      /\ buf'[o + 1] = buf[o + 1] /\ o \notin plain' /\ o < Len(buf')
      /\ owner'[o] \in 1 .. Len(names')
  BY <1>1 DEF Keeps, PartOK
<1>3. CASE EndsAt(o)
  BY <1>1, <1>2, <1>3 DEF Keeps, PartOK, EndsAt, At
<1>4. CASE PointsAt(o)
  <2>1. o + 1 \in 0 .. Len(buf) - 1 /\ o + 1 \notin plain
    BY <1>1, <1>4 DEF PointsAt
  <2>2. buf'[o + 2] = buf[o + 2] /\ o + 1 \notin plain' /\ o + 1 < Len(buf')
    BY SMTT(40), <1>1, <2>1 DEF Keeps
  <2>3. (At(o) = At(o)') /\ (At(o + 1) = At(o + 1)') /\ (Target(o) = Target(o)')
    BY <1>1, <1>2, <2>2 DEF At, Target
  <2>4. /\ Target(o) \in DOMAIN rest' /\ rest'[Target(o)] = rest'[o]
        /\ owner'[o] \in 1 .. Len(stops') /\ stops'[owner'[o]] = o + 2
    BY <1>1, <1>2, <1>4 DEF PointsAt, Keeps
  <2>5. PointsAt(o)'
    BY <1>2, <1>4, <2>2, <2>3, <2>4 DEF PointsAt
  <2> QED
    BY <1>2, <2>5 DEF PartOK
<1>5. CASE LabelAt(o)
  <2>1. /\ At(o)' = At(o) /\ At(o) \in 1 .. 63 /\ o + At(o) < Len(buf)
        /\ o + 1 + At(o) \in Nat
    BY <1>1, <1>2, <1>5 DEF At, LabelAt
  <2>2. ASSUME NEW k \in 1 .. At(o)
        PROVE  /\ o + k \notin plain' /\ At(o + k)' = At(o + k)
    <3>1. o + k \in 0 .. Len(buf) - 1 /\ o + k \notin plain
      BY SMTT(40), <1>1, <1>5, <2>1 DEF LabelAt
    <3> QED
      BY <3>1 DEF Keeps, At
  <2>3. o + At(o) < Len(buf')
    <3>1. Len(buf') \in Nat /\ Len(buf') >= Len(buf)
      BY DEF Keeps
    <3>2. ASSUME NEW n \in Nat, n < Len(buf) PROVE n < Len(buf')
      BY <1>1, <3>1, <3>2
    <3>3. At(o) \in 1 .. 63
      BY <1>5 DEF LabelAt
    <3>4. \A a \in 1 .. 63 : o + a \in Nat
      BY <1>1
    <3>5. o + At(o) \in Nat
      BY <3>3, <3>4
    <3> QED
      BY <2>1, <3>2, <3>5
  <2>4. ASSUME NEW n \in Nat, LeadsTo(o, n)
        PROVE  LeadsTo(o, n)'
    <3>1. CASE n \in DOMAIN rest /\ rest[n] = Tail(rest[o]) /\ owner[n] = owner[o]
      BY <1>2, <3>1 DEF Keeps, LeadsTo
    <3>2. CASE /\ n = Len(buf)
               /\ naming # Nothing /\ Key(naming) = Tail(rest[o])
               /\ owner[o] = Len(names)
      BY <1>2, <3>2 DEF Keeps, LeadsTo
    <3> QED
      BY <2>4, <3>1, <3>2 DEF LeadsTo
  <2>5. LeadsTo(o, o + 1 + At(o))'
    BY <1>5, <2>1, <2>4 DEF LabelAt
  <2>6. LabelAt(o)'
    BY ZenonT(40), <1>2, <1>5, <2>1, <2>2, <2>3, <2>5 DEF LabelAt
  <2> QED
    BY <1>2, <2>6 DEF PartOK
<1> QED
  BY <1>3, <1>4, <1>5 DEF PartOK

LEMMA KeptTable ==
  ASSUME TableOK, Keeps, offsets' = offsets
  PROVE  TableOK'
BY DEF TableOK, Keeps

LEMMA KeptBegun ==
  ASSUME TypeOK, AllBegun, Keeps, NEW i \in 1 .. Len(names)
  PROVE  Begun(i)'
<1> DEFINE Pairs == [labels : Seq(Label), start : Nat]
<1>1. names'[i] = names[i] /\ names[i].labels \in Seq(Label)
  <2>1. names[i] \in Pairs
    BY ElementOfSeq DEF TypeOK
  <2> QED
    BY <2>1 DEF Keeps
<1>2. CASE /\ names[i].start \in DOMAIN rest
           /\ rest[names[i].start] = Key(names[i].labels) /\ owner[names[i].start] = i
  BY <1>1, <1>2 DEF Keeps, Begun
<1>3. CASE i = Len(names) /\ naming = names[i].labels /\ names[i].start = Len(buf)
  <2>1. naming # Nothing
    BY <1>1, <1>3, NameCodecConstants
  <2> QED
    BY <1>1, <1>3, <2>1 DEF Keeps, Begun
<1> QED
  BY <1>2, <1>3 DEF AllBegun, Begun

LEMMA ReaderIdle ==
  ASSUME op' = "ready"
  PROVE  ReaderOK' /\ CursorOK'
BY DEF ReaderOK, OnTheWay, CursorOK, CursorMovesOn

-----------------------------------------------------------------------------
(* The steps of the writer.                                                *)

(* Bytes written behind the others leave those as they were.               *)
LEMMA Written ==
  ASSUME buf \in Seq(Byte), NEW bytes \in Seq(Byte), Write(bytes)
  PROVE  /\ buf' \in Seq(Byte) /\ Len(buf) \in Nat /\ Len(bytes) \in Nat
         /\ Len(buf') = Len(buf) + Len(bytes)
         /\ \A x \in 0 .. Len(buf) - 1 : buf'[x + 1] = buf[x + 1]
         /\ \A k \in 1 .. Len(bytes) : buf'[Len(buf) + k] = bytes[k]
<1>1. /\ buf' \in Seq(Byte) /\ Len(buf') = Len(buf) + Len(bytes)
      /\ Len(buf) \in Nat /\ Len(bytes) \in Nat
      /\ \A i \in 1 .. Len(buf) + Len(bytes) :
             buf'[i] = IF i <= Len(buf) THEN buf[i] ELSE bytes[i - Len(buf)]
  BY ConcatProperties, LenProperties DEF Write
<1>2. ASSUME NEW k \in 1 .. Len(bytes) PROVE buf'[Len(buf) + k] = bytes[k]
  <2>1. Len(buf) + k \in 1 .. Len(buf) + Len(bytes) /\ ~(Len(buf) + k <= Len(buf))
        /\ Len(buf) + k - Len(buf) = k
    BY <1>1
  <2> QED
    BY <1>1, <2>1
<1>3. ASSUME NEW x \in 0 .. Len(buf) - 1 PROVE buf'[x + 1] = buf[x + 1]
  <2>1. x + 1 \in 1 .. Len(buf) + Len(bytes) /\ x + 1 <= Len(buf)
    BY <1>1
  <2> QED
    BY <1>1, <2>1
<1> QED
  BY <1>1, <1>2, <1>3

(* A field: nothing of it belongs to a name.                               *)
LEMMA FieldKeeps ==
  ASSUME IInv, NEW bytes, WriteField(bytes)
  PROVE  IInv'
<1>1. /\ bytes \in Seq(Byte) /\ stage = "writing" /\ naming = Nothing
      /\ Write(bytes)
      /\ plain' = plain \cup (Len(buf) .. Len(buf) + Len(bytes) - 1)
      /\ UNCHANGED <<offsets, naming, stage, names, stops, rest, owner>>
      /\ UNCHANGED <<op, from, pos, labels, jumped, after, guard>>
  BY DEF WriteField, readerVars
<1>2. TypeOK /\ Bookkeeping /\ PartsOK /\ TableOK /\ AllBegun /\ op = "ready"
  BY <1>1 DEF IInv, Bookkeeping
<1>3. /\ buf' \in Seq(Byte) /\ Len(buf) \in Nat /\ Len(bytes) \in Nat
      /\ Len(buf') = Len(buf) + Len(bytes)
      /\ \A x \in 0 .. Len(buf) - 1 : buf'[x + 1] = buf[x + 1]
  BY <1>1, <1>2, Written DEF TypeOK
<1>4. plain' \subseteq 0 .. Len(buf') - 1 /\ plain' \subseteq Nat
  <2>1. ASSUME NEW x \in plain' PROVE x \in 0 .. Len(buf) + Len(bytes) - 1 /\ x \in Nat
    BY <1>1, <1>2, <1>3, <2>1 DEF Bookkeeping
  <2> QED
    BY <1>3, <2>1
<1>5. TypeOK' /\ Bookkeeping'
  BY <1>1, <1>2, <1>3, <1>4 DEF TypeOK, Bookkeeping
<1>6. Len(names) \in Nat /\ Len(stops) \in Nat
  BY <1>2, LenProperties DEF TypeOK
<1>7. Keeps
  BY <1>1, <1>3, <1>6 DEF Keeps
<1>8. PartsOK'
  BY <1>1, <1>2, <1>7, KeptPart DEF PartsOK
<1>9. TableOK' /\ AllBegun'
  BY <1>1, <1>2, <1>7, KeptTable, KeptBegun DEF AllBegun
<1> QED
  BY <1>1, <1>2, <1>5, <1>8, <1>9, ReaderIdle DEF IInv

LEMMA OverwriteKeeps ==
  ASSUME IInv, NEW at, NEW bytes, Refill(at, bytes)
  PROVE  IInv'
<1>1. /\ stage = "writing" /\ naming = Nothing
      /\ at \in plain /\ at + 1 \in plain /\ bytes[1] \in Byte /\ bytes[2] \in Byte
      /\ buf' = [buf EXCEPT ![at + 1] = bytes[1], ![at + 2] = bytes[2]]
      /\ UNCHANGED <<offsets, naming, stage, names, stops, rest, owner, plain>>
      /\ UNCHANGED <<op, from, pos, labels, jumped, after, guard>>
  BY DEF Refill, Overwrite, readerVars
<1>2. TypeOK /\ Bookkeeping /\ PartsOK /\ TableOK /\ AllBegun /\ op = "ready"
  BY <1>1 DEF IInv, Bookkeeping
<1>3. /\ buf \in Seq(Byte) /\ Len(buf) \in Nat /\ DOMAIN buf = 1 .. Len(buf)
      /\ Len(names) \in Nat /\ Len(stops) \in Nat
  BY <1>2, LenProperties DEF TypeOK
<1>4. at \in Nat /\ at + 1 \in 1 .. Len(buf) /\ at + 2 \in 1 .. Len(buf)
  BY <1>1, <1>2, <1>3 DEF Bookkeeping, TypeOK
<1> DEFINE once == [buf EXCEPT ![at + 1] = bytes[1]]
<1>5. once \in Seq(Byte) /\ Len(once) = Len(buf)
  BY <1>1, <1>3, <1>4, ExceptSeq
<1>6. [once EXCEPT ![at + 2] = bytes[2]] \in Seq(Byte)
      /\ Len([once EXCEPT ![at + 2] = bytes[2]]) = Len(buf)
  <2> HIDE DEF once
  <2> QED
    BY <1>1, <1>4, <1>5, ExceptSeq
<1>7. buf' \in Seq(Byte) /\ Len(buf') = Len(buf)
  BY <1>1, <1>6
<1>8. ASSUME NEW x \in 0 .. Len(buf) - 1, x \notin plain PROVE buf'[x + 1] = buf[x + 1]
  <2>1. x # at /\ x # at + 1 /\ x + 1 \in 1 .. Len(buf)
    BY <1>1, <1>3, <1>8
  <2>2. x + 1 # at + 1 /\ x + 1 # at + 2
    BY <1>4, <2>1
  <2> QED
    BY <1>1, <1>3, <2>1, <2>2
<1>9. TypeOK' /\ Bookkeeping'
  BY <1>1, <1>2, <1>7 DEF TypeOK, Bookkeeping
<1>10. Keeps
  BY <1>1, <1>3, <1>7, <1>8 DEF Keeps
<1>11. PartsOK'
  BY <1>1, <1>2, <1>10, KeptPart DEF PartsOK
<1>12. TableOK' /\ AllBegun'
  BY <1>1, <1>2, <1>10, KeptTable, KeptBegun DEF AllBegun
<1> QED
  BY <1>1, <1>2, <1>9, <1>11, <1>12, ReaderIdle DEF IInv

LEMMA BeginKeeps ==
  ASSUME IInv, NEW name, BeginName(name)
  PROVE  IInv'
<1> DEFINE begun == [labels |-> name, start |-> Len(buf)]
<1>1. /\ name \in Seq(Label) /\ stage = "writing" /\ naming = Nothing
      /\ naming' = name /\ names' = Append(names, begun)
      /\ UNCHANGED <<buf, offsets, stage, stops, rest, owner, plain>>
      /\ UNCHANGED <<op, from, pos, labels, jumped, after, guard>>
  BY DEF BeginName, readerVars
<1>2. TypeOK /\ Bookkeeping /\ PartsOK /\ TableOK /\ AllBegun /\ op = "ready"
  BY <1>1 DEF IInv, Bookkeeping
<1>3. /\ Len(buf) \in Nat /\ Len(stops) \in Nat /\ Len(names) \in Nat
      /\ Len(stops) = Len(names)
      /\ name # Nothing
  BY <1>1, <1>2, LenProperties, NameCodecConstants DEF TypeOK, Bookkeeping
<1> DEFINE Pairs == [labels : Seq(Label), start : Nat]
<1>4. begun \in Pairs /\ begun.labels = name /\ begun.start = Len(buf)
  BY <1>1, <1>3
<1> HIDE DEF begun, Pairs
<1>5. names \in Seq(Pairs)
  BY <1>2 DEF TypeOK, Pairs
<1>6. /\ names' \in Seq(Pairs) /\ Len(names') = Len(names) + 1
      /\ \A i \in 1 .. Len(names) : names'[i] = names[i]
      /\ names'[Len(names) + 1] = begun
  BY <1>1, <1>4, <1>5, AppendProperties
<1>7. TypeOK'
  BY <1>1, <1>2, <1>6 DEF TypeOK, Pairs
<1>8. Bookkeeping'
  BY <1>1, <1>2, <1>3, <1>6 DEF Bookkeeping
<1>9. Keeps
  BY <1>1, <1>3, <1>6 DEF Keeps
<1>10. PartsOK' /\ TableOK'
  BY <1>1, <1>2, <1>9, KeptPart, KeptTable DEF PartsOK
<1>11. ASSUME NEW i \in 1 .. Len(names') PROVE Begun(i)'
  <2>1. CASE i \in 1 .. Len(names)
    BY <1>2, <1>9, <2>1, KeptBegun
  <2>2. CASE i = Len(names) + 1
    BY <1>1, <1>4, <1>6, <2>2 DEF Begun
  <2> QED
    BY <1>3, <1>6, <2>1, <2>2
<1>12. AllBegun'
  BY <1>11 DEF AllBegun
<1> QED
  BY <1>1, <1>2, <1>7, <1>8, <1>10, <1>12, ReaderIdle DEF IInv

(* Steps that write nothing.                                               *)
LEMMA WriterIdle ==
  ASSUME IInv, UNCHANGED <<buf, offsets, naming, names, stops, rest, owner, plain>>
  PROVE  PartsOK' /\ TableOK' /\ AllBegun'
<1>1. /\ buf' = buf /\ offsets' = offsets /\ naming' = naming /\ names' = names
      /\ stops' = stops /\ rest' = rest /\ owner' = owner /\ plain' = plain
  OBVIOUS
<1>2. \A o \in DOMAIN rest : PartOK(o) => PartOK(o)'
  BY <1>1 DEF PartOK, EndsAt, PointsAt, Target, LabelAt, LeadsTo, At
<1> QED
  BY <1>1, <1>2 DEF IInv, PartsOK, TableOK, AllBegun, Begun

LEMMA RefuseKeeps ==
  ASSUME IInv, Refuse
  PROVE  IInv'
<1>1. /\ stage = "writing" /\ stage' = "lost"
      /\ UNCHANGED <<buf, offsets, naming, names, stops, rest, owner, plain>>
      /\ UNCHANGED <<op, from, pos, labels, jumped, after, guard>>
  BY DEF Refuse, Naming, readerVars
<1>2. TypeOK' /\ Bookkeeping' /\ op' = "ready"
  BY <1>1 DEF IInv, TypeOK, Bookkeeping
<1> QED
  BY <1>1, <1>2, WriterIdle, ReaderIdle DEF IInv

LEMMA SealKeeps ==
  ASSUME IInv, Seal
  PROVE  IInv'
<1>1. /\ stage = "writing" /\ stage' = "reading" /\ naming = Nothing
      /\ UNCHANGED <<buf, offsets, naming, names, stops, rest, owner, plain>>
      /\ UNCHANGED <<op, from, pos, labels, jumped, after, guard>>
  BY DEF Seal, readerVars
<1>2. TypeOK' /\ Bookkeeping' /\ op' = "ready"
  BY <1>1 DEF IInv, TypeOK, Bookkeeping
<1> QED
  BY <1>1, <1>2, WriterIdle, ReaderIdle DEF IInv

LEMMA NothingYet ==
  ASSUME offsets = Empty, naming = Nothing, names = <<>>, stops = <<>>, rest = Empty,
         owner = Empty, plain = {}, op = "ready"
  PROVE  /\ DOMAIN rest = {} /\ DOMAIN owner = {} /\ DOMAIN offsets = {}
         /\ names \in Seq([labels : Seq(Label), start : Nat]) /\ Len(names) = 0
         /\ stops \in Seq(Nat) /\ Len(stops) = 0
         /\ Bookkeeping /\ PartsOK /\ TableOK /\ AllBegun /\ ReaderOK /\ CursorOK
<1>1. DOMAIN rest = {} /\ DOMAIN owner = {} /\ DOMAIN offsets = {}
  BY DEF Empty
<1> DEFINE Pairs == [labels : Seq(Label), start : Nat]
<1>2. /\ names \in Seq(Pairs) /\ Len(names) = 0
      /\ stops \in Seq(Nat) /\ Len(stops) = 0
  <2> HIDE DEF Pairs
  <2> QED
    BY EmptySeq
<1>3. Bookkeeping
  BY <1>1, <1>2 DEF Bookkeeping
<1>4. PartsOK /\ TableOK
  BY <1>1 DEF PartsOK, TableOK
<1>5. 1 .. Len(names) = {}
  BY <1>2
<1>6. AllBegun
  BY <1>5 DEF AllBegun
<1>7. ReaderOK /\ CursorOK
  BY DEF ReaderOK, OnTheWay, CursorOK, CursorMovesOn
<1> QED
  BY <1>1, <1>2, <1>3, <1>4, <1>6, <1>7

(* Init, and a new Writer.                                                 *)
NewWriter ==
    /\ offsets = Empty /\ naming = Nothing /\ names = <<>> /\ stops = <<>>
    /\ rest = Empty /\ owner = Empty /\ plain = {} /\ op = "ready"

NewWriterOK ==
    /\ DOMAIN rest = {} /\ DOMAIN owner = {} /\ DOMAIN offsets = {}
    /\ names \in Seq([labels : Seq(Label), start : Nat]) /\ stops \in Seq(Nat)
    /\ Bookkeeping /\ PartsOK /\ TableOK /\ AllBegun /\ ReaderOK /\ CursorOK

LEMMA NewWriterIsOK == NewWriter => NewWriterOK
BY NothingYet DEF NewWriter, NewWriterOK

LEMMA RenewKeeps ==
  ASSUME IInv, Renew
  PROVE  IInv'
<1>1. NewWriter'
  BY DEF Renew, NewWriter
<1>2. NewWriterOK'
  BY <1>1, NewWriterIsOK, PTL
<1> QED
  BY <1>2, EmptySeq DEF IInv, TypeOK, NewWriterOK, Renew

(* A part of a name: it is new, and the others stay as they were.          *)
LEMMA PartMarked ==
  ASSUME IInv, Naming, NEW bytes \in Seq(Byte), Len(bytes) > 0, Write(bytes), Mark,
         UNCHANGED <<names, plain>>,
         UNCHANGED stops \/ stops' = Append(stops, Len(buf'))
  PROVE  /\ Keeps /\ buf' \in Seq(Byte) /\ Len(buf) \in Nat
         /\ Len(buf') = Len(buf) + Len(bytes)
         /\ \A k \in 1 .. Len(bytes) : buf'[Len(buf) + k] = bytes[k]
         /\ DOMAIN rest' = DOMAIN rest \cup {Len(buf)} /\ DOMAIN owner' = DOMAIN rest'
         /\ Len(buf) \notin DOMAIN rest
         /\ rest'[Len(buf)] = Key(naming) /\ owner'[Len(buf)] = Len(names)
         /\ naming \in Seq(Label) /\ Key(naming) \in Seq(Label)
         /\ Len(names) \in Nat /\ Len(names) = Len(stops) + 1
         /\ \A x \in plain : x \in 0 .. Len(buf) - 1
         /\ stops' \in Seq(Nat)
<1>1. /\ TypeOK /\ Bookkeeping /\ PartsOK
      /\ naming # Nothing /\ names' = names /\ plain' = plain
      /\ rest' = With(rest, Len(buf), Key(naming))
      /\ owner' = With(owner, Len(buf), Len(names))
  BY DEF IInv, Naming, Mark
<1>2. /\ buf' \in Seq(Byte) /\ Len(buf) \in Nat /\ Len(bytes) \in Nat
      /\ Len(buf') = Len(buf) + Len(bytes)
      /\ \A x \in 0 .. Len(buf) - 1 : buf'[x + 1] = buf[x + 1]
      /\ \A k \in 1 .. Len(bytes) : buf'[Len(buf) + k] = bytes[k]
  BY <1>1, Written DEF TypeOK
<1>3. /\ naming \in Seq(Label) /\ Key(naming) \in Seq(Label)
      /\ Len(names) \in Nat /\ Len(stops) \in Nat /\ Len(names) = Len(stops) + 1
  BY <1>1, KeyProperties, LenProperties DEF TypeOK, Bookkeeping
<1>4. Len(buf) \notin DOMAIN rest
  BY <1>1, <1>2 DEF PartsOK, PartOK
<1>5. DOMAIN owner = DOMAIN rest
  BY <1>1 DEF TypeOK
<1>6. /\ DOMAIN rest' = DOMAIN rest \cup {Len(buf)} /\ DOMAIN owner' = DOMAIN rest'
      /\ rest'[Len(buf)] = Key(naming) /\ owner'[Len(buf)] = Len(names)
      /\ \A x \in DOMAIN rest : rest'[x] = rest[x] /\ owner'[x] = owner[x]
  <2>1. /\ DOMAIN rest' = DOMAIN rest \cup {Len(buf)} /\ rest'[Len(buf)] = Key(naming)
        /\ \A x \in DOMAIN rest : x # Len(buf) => rest'[x] = rest[x]
    <3>1. rest' = With(rest, Len(buf), Key(naming))
      BY <1>1
    <3> QED
      BY <3>1 DEF With
  <2>2. /\ DOMAIN owner' = DOMAIN owner \cup {Len(buf)} /\ owner'[Len(buf)] = Len(names)
        /\ \A x \in DOMAIN owner : x # Len(buf) => owner'[x] = owner[x]
    <3>1. owner' = With(owner, Len(buf), Len(names))
      BY <1>1
    <3> QED
      BY <3>1 DEF With
  <2> QED
    BY <1>4, <1>5, <2>1, <2>2
<1>7. /\ stops' \in Seq(Nat) /\ Len(stops') \in Nat /\ Len(stops') >= Len(stops)
      /\ \A i \in 1 .. Len(stops) : stops'[i] = stops[i]
  <2>1. stops \in Seq(Nat) /\ Len(buf') \in Nat
    BY <1>1, <1>2 DEF TypeOK
  <2>2. CASE UNCHANGED stops
    BY <1>3, <2>1, <2>2
  <2>3. CASE stops' = Append(stops, Len(buf'))
    BY <1>3, <2>1, <2>3, AppendProperties
  <2> QED
    BY <2>2, <2>3
<1>8. Keeps
  BY <1>1, <1>2, <1>3, <1>6, <1>7 DEF Keeps
<1>9. \A x \in plain : x \in 0 .. Len(buf) - 1
  BY <1>1 DEF Bookkeeping
<1> QED
  BY <1>2, <1>3, <1>4, <1>6, <1>7, <1>8, <1>9

(* The last part of a name: a pointer or a terminator.                     *)
LEMMA LastPartKeeps ==
  ASSUME IInv, Naming, NEW bytes \in Seq(Byte), Len(bytes) > 0, Write(bytes), Mark,
         EndName, NEW o, o = Len(buf), (EndsAt(o) \/ PointsAt(o))'
  PROVE  IInv'
<1>1. /\ TypeOK /\ Bookkeeping /\ PartsOK /\ TableOK /\ AllBegun
      /\ stage = "writing" /\ op = "ready"
  BY DEF IInv, Naming, Bookkeeping
<1>2. /\ naming' = Nothing /\ stops' = Append(stops, Len(buf'))
      /\ UNCHANGED <<offsets, stage, names, plain>>
      /\ UNCHANGED <<op, from, pos, labels, jumped, after, guard>>
  BY DEF EndName, readerVars
<1>3. /\ Keeps /\ buf' \in Seq(Byte) /\ Len(buf) \in Nat
      /\ Len(buf') = Len(buf) + Len(bytes)
      /\ DOMAIN rest' = DOMAIN rest \cup {Len(buf)} /\ DOMAIN owner' = DOMAIN rest'
      /\ rest'[Len(buf)] = Key(naming) /\ owner'[Len(buf)] = Len(names)
      /\ naming \in Seq(Label) /\ Key(naming) \in Seq(Label)
      /\ Len(names) \in Nat /\ Len(names) = Len(stops) + 1
      /\ \A x \in plain : x \in 0 .. Len(buf) - 1
      /\ stops' \in Seq(Nat)
  BY <1>2, PartMarked
<1>4. Len(bytes) \in Nat /\ Len(stops) \in Nat /\ Len(stops') = Len(names)
  <2>1. stops \in Seq(Nat) /\ Len(bytes) \in Nat
    BY <1>1, LenProperties DEF TypeOK
  <2>2. Len(buf') \in Nat
    BY <1>3, <2>1
  <2>3. Len(stops') = Len(stops) + 1
    BY <1>2, <2>1, <2>2, AppendProperties
  <2> QED
    BY <1>3, <2>1, <2>3, LenProperties
<1>5. TypeOK'
  BY <1>1, <1>2, <1>3 DEF TypeOK
<1>6. Bookkeeping'
  <2>1. DOMAIN rest' \subseteq Nat
    BY <1>1, <1>3 DEF Bookkeeping
  <2>2. plain' \subseteq 0 .. Len(buf') - 1
    BY <1>2, <1>3, <1>4
  <2> QED
    BY <1>1, <1>2, <1>4, <2>1, <2>2 DEF Bookkeeping
<1>7. PartOK(o)'
  <2>1. Len(buf) < Len(buf') /\ Len(buf) \notin plain' /\ Len(names) \in 1 .. Len(names')
    BY <1>1, <1>2, <1>3, <1>4
  <2> QED
    BY <1>3, <2>1 DEF PartOK
<1>8. PartsOK'
  BY <1>1, <1>3, <1>7, KeptPart DEF PartsOK
<1>9. TableOK' /\ AllBegun'
  BY <1>1, <1>2, <1>3, KeptTable, KeptBegun DEF AllBegun
<1> QED
  BY <1>1, <1>2, <1>5, <1>6, <1>8, <1>9, ReaderIdle DEF IInv

(* EndName remembers where the name it ends stops.                         *)
LEMMA StopRemembered ==
  ASSUME stops \in Seq(Nat), Len(buf') \in Nat, Len(names) = Len(stops) + 1, EndName
  PROVE  Len(names) \in 1 .. Len(stops') /\ stops'[Len(names)] = Len(buf')
<1>1. stops' = Append(stops, Len(buf'))
  BY DEF EndName
<1>2. /\ Len(stops) \in Nat /\ Len(stops') = Len(stops) + 1
      /\ stops'[Len(stops) + 1] = Len(buf')
  BY <1>1, AppendProperties, LenProperties
<1> QED
  BY <1>2

LEMMA PointBackKeeps ==
  ASSUME IInv, PointBack
  PROVE  IInv'
<1> DEFINE target == offsets[Key(naming)]
           bytes == Pointer(target)
<1>1. /\ Naming /\ Key(naming) \in DOMAIN offsets /\ Write(bytes) /\ Mark /\ EndName
      /\ TypeOK /\ Bookkeeping /\ TableOK
  BY DEF PointBack, Known, IInv
<1>2. /\ target \in DOMAIN rest /\ target \in Nat /\ target < OffsetSpace
      /\ rest[target] = Key(naming)
  BY <1>1 DEF TableOK, Bookkeeping
<1> HIDE DEF target
<1>3. /\ bytes \in Seq(Byte) /\ Len(bytes) = 2 /\ Len(bytes) > 0 /\ bytes[1] >= 192
      /\ (bytes[1] - 192) * 256 + bytes[2] = target
  BY <1>2, PointerProperties
<1> HIDE DEF bytes
<1>4. UNCHANGED <<names, plain>> /\ stops' = Append(stops, Len(buf'))
  BY <1>1 DEF EndName
<1>5. /\ Keeps /\ Len(buf) \in Nat /\ Len(buf') = Len(buf) + 2
      /\ \A k \in 1 .. 2 : buf'[Len(buf) + k] = bytes[k]
      /\ DOMAIN rest' = DOMAIN rest \cup {Len(buf)}
      /\ rest'[Len(buf)] = Key(naming) /\ owner'[Len(buf)] = Len(names)
      /\ Len(names) = Len(stops) + 1
      /\ \A x \in plain : x \in 0 .. Len(buf) - 1
  BY <1>1, <1>3, <1>4, PartMarked
<1>6. Len(names) \in 1 .. Len(stops') /\ stops'[Len(names)] = Len(buf')
  BY <1>1, <1>5, StopRemembered DEF TypeOK
<1>7. PICK o \in Nat : o = Len(buf)
  BY <1>5
<1>8. PointsAt(o)'
  <2>1. o + 1 < Len(buf') /\ o + 1 \notin plain' /\ Len(buf') = o + 2
    BY <1>4, <1>5, <1>7
  <2>2. At(o)' = bytes[1] /\ At(o + 1)' = bytes[2]
    BY <1>5, <1>7 DEF At
  <2>3. At(o)' >= 192
    BY <1>3, <2>2
  <2>4. Target(o)' = target
    BY <1>3, <2>2 DEF Target
  <2>5. target \in DOMAIN rest' /\ rest'[target] = rest'[o]
    BY <1>2, <1>5, <1>7 DEF Keeps
  <2>6. owner'[o] \in 1 .. Len(stops') /\ stops'[owner'[o]] = o + 2
    BY <1>5, <1>6, <1>7, <2>1
  <2> QED
    BY <2>1, <2>3, <2>4, <2>5, <2>6 DEF PointsAt
<1> QED
  BY <1>1, <1>3, <1>7, <1>8, LastPartKeeps

LEMMA WriteRootKeeps ==
  ASSUME IInv, WriteRoot
  PROVE  IInv'
<1> DEFINE bytes == <<0>>
<1>1. /\ Naming /\ naming = <<>> /\ Write(bytes) /\ Mark /\ EndName /\ TypeOK
  BY DEF WriteRoot, IInv
<1>2. bytes \in Seq(Byte) /\ Len(bytes) = 1 /\ Len(bytes) > 0 /\ bytes[1] = 0
  BY DEF Byte
<1> HIDE DEF bytes
<1>3. UNCHANGED <<names, plain>> /\ stops' = Append(stops, Len(buf'))
  BY <1>1 DEF EndName
<1>4. /\ Len(buf) \in Nat /\ Len(buf') = Len(buf) + 1
      /\ \A k \in 1 .. 1 : buf'[Len(buf) + k] = bytes[k]
      /\ rest'[Len(buf)] = Key(naming) /\ owner'[Len(buf)] = Len(names)
      /\ Len(names) = Len(stops) + 1
  BY <1>1, <1>2, <1>3, PartMarked
<1>5. Len(names) \in 1 .. Len(stops') /\ stops'[Len(names)] = Len(buf')
  BY <1>1, <1>4, StopRemembered DEF TypeOK
<1>6. PICK o \in Nat : o = Len(buf)
  BY <1>4
<1>7. EndsAt(o)'
  BY <1>1, <1>2, <1>4, <1>5, <1>6, KeyOfNothing DEF EndsAt, At
<1> QED
  BY <1>1, <1>2, <1>6, <1>7, LastPartKeeps

(* A label as write_name writes it.                                        *)
LEMMA LabelBytes ==
  ASSUME NEW label \in Label, Writable(label)
  PROVE  /\ <<Len(label)>> \o label \in Seq(Byte)
         /\ Len(<<Len(label)>> \o label) = Len(label) + 1 /\ Len(label) \in 1 .. 63
         /\ (<<Len(label)>> \o label)[1] = Len(label)
         /\ \A k \in 1 .. Len(label) : /\ (<<Len(label)>> \o label)[k + 1] = label[k]
                                       /\ label[k] \in Nat /\ label[k] < 128
<1>1. /\ label \in Seq(Nat) /\ Len(label) \in Nat /\ DOMAIN label = 1 .. Len(label)
      /\ label # <<>> /\ Len(label) <= 63
      /\ \A k \in 1 .. Len(label) : label[k] \in Nat /\ label[k] < 128
  BY LenProperties, ElementOfSeq DEF Label, Writable
<1>2. Len(label) \in 1 .. 63
  <2>1. Len(label) # 0
    BY <1>1, EmptySeq
  <2>2. \A c \in Nat : c # 0 /\ c <= 63 => c \in 1 .. 63
    OBVIOUS
  <2> QED
    BY <1>1, <2>1, <2>2
<1>3. label \in Seq(Byte)
  <2>1. ASSUME NEW k \in 1 .. Len(label) PROVE label[k] \in Byte
    <3>1. label[k] \in Nat /\ label[k] < 128
      BY <1>1
    <3>2. \A c \in Nat : c < 128 => c \in Byte
      BY DEF Byte
    <3> QED
      BY <3>1, <3>2
  <2>2. label = [k \in 1 .. Len(label) |-> label[k]]
    BY <1>1
  <2> QED
    BY <1>1, <2>1, <2>2, IsASeq
<1> DEFINE first == <<Len(label)>>
<1>4. first \in Seq(Byte) /\ Len(first) = 1 /\ first[1] = Len(label)
  BY <1>2 DEF Byte
<1> HIDE DEF first
<1>5. /\ first \o label \in Seq(Byte) /\ Len(first \o label) = 1 + Len(label)
      /\ \A i \in 1 .. 1 + Len(label) :
             (first \o label)[i] = IF i <= 1 THEN first[i] ELSE label[i - 1]
  <2>1. /\ first \o label \in Seq(Byte)
        /\ Len(first \o label) = Len(first) + Len(label)
        /\ \A i \in 1 .. Len(first) + Len(label) :
               (first \o label)[i] = IF i <= Len(first) THEN first[i]
                                     ELSE label[i - Len(first)]
    BY <1>3, <1>4, ConcatProperties
  <2> QED
    BY <1>4, <2>1
<1>6. (first \o label)[1] = Len(label)
  BY <1>1, <1>4, <1>5
<1>7. ASSUME NEW k \in 1 .. Len(label) PROVE (first \o label)[k + 1] = label[k]
  <2>1. k + 1 \in 1 .. 1 + Len(label) /\ ~(k + 1 <= 1) /\ k + 1 - 1 = k
    BY <1>1
  <2> QED
    BY <1>5, <2>1
<1>8. Len(first \o label) = Len(label) + 1
  BY <1>1, <1>5
<1> QED
  BY <1>1, <1>2, <1>5, <1>6, <1>7, <1>8 DEF first

LEMMA WriteLabelKeeps ==
  ASSUME IInv, WriteLabel
  PROVE  IInv'
<1> DEFINE label == naming[1]
           n == Len(label)
           bytes == <<n>> \o label
<1>1. /\ Naming /\ naming # <<>> /\ Writable(label) /\ Register /\ Write(bytes) /\ Mark
      /\ naming' = Tail(naming)
      /\ UNCHANGED <<stage, names, stops, plain>>
      /\ UNCHANGED <<op, from, pos, labels, jumped, after, guard>>
      /\ TypeOK /\ Bookkeeping /\ PartsOK /\ TableOK /\ AllBegun /\ stage = "writing"
      /\ op = "ready"
  BY DEF WriteLabel, IInv, readerVars, Naming, Bookkeeping
<1>2. /\ naming \in Seq(Label) /\ label \in Label /\ Tail(naming) \in Seq(Label)
      /\ Key(naming) # <<>> /\ Key(naming)[1] = Lower(label)
      /\ Key(Tail(naming)) = Tail(Key(naming)) /\ Tail(naming) # Nothing
  <2>1. naming \in Seq(Label) /\ naming # <<>>
    BY <1>1 DEF TypeOK, Naming
  <2>2. /\ label \in Label /\ Tail(naming) \in Seq(Label)
        /\ Key(naming) # <<>> /\ Key(naming)[1] = Lower(label)
        /\ Key(Tail(naming)) = Tail(Key(naming))
    BY <2>1, KeyOfTail
  <2>3. Tail(naming) # Nothing
    <3>1. Tail(naming) \in Seq(Label)
      BY <2>2
    <3> QED
      BY <3>1, NameCodecConstants
  <2> QED
    BY <2>1, <2>2, <2>3
<1> HIDE DEF label
<1>3. /\ bytes \in Seq(Byte) /\ n \in 1 .. 63 /\ Len(bytes) = n + 1 /\ bytes[1] = n
      /\ \A k \in 1 .. n : bytes[k + 1] = label[k] /\ label[k] \in Nat /\ label[k] < 128
  BY <1>1, <1>2, LabelBytes
<1>4. Len(Lower(label)) = n /\ \A k \in 1 .. n : Lower(label)[k] = Small(label[k])
  BY <1>2, LowerProperties
<1> HIDE DEF n, bytes
<1>5. Len(bytes) > 0
  BY <1>3
<1>6. /\ Keeps /\ buf' \in Seq(Byte) /\ Len(buf) \in Nat
      /\ Len(buf') = Len(buf) + Len(bytes)
      /\ \A k \in 1 .. Len(bytes) : buf'[Len(buf) + k] = bytes[k]
      /\ DOMAIN rest' = DOMAIN rest \cup {Len(buf)} /\ DOMAIN owner' = DOMAIN rest'
      /\ rest'[Len(buf)] = Key(naming) /\ owner'[Len(buf)] = Len(names)
      /\ Key(naming) \in Seq(Label)
      /\ Len(names) \in Nat /\ Len(names) = Len(stops) + 1
      /\ \A x \in plain : x \in 0 .. Len(buf) - 1
  BY <1>1, <1>3, <1>5, PartMarked
<1>7. Len(stops) \in Nat /\ Len(names) \in 1 .. Len(names)
  BY <1>1, <1>6, LenProperties DEF TypeOK
<1>8. PICK o \in Nat : o = Len(buf)
  BY <1>6
<1>9. LabelAt(o)'
  <2>1. At(o)' = n /\ Len(buf') = o + 1 + n
    BY <1>3, <1>6, <1>8 DEF At
  <2>2. ASSUME NEW k \in 1 .. n
        PROVE  /\ o + k \notin plain' /\ At(o + k)' < 128
               /\ Small(At(o + k)') = Lower(label)[k]
    <3>1. k + 1 \in 1 .. Len(bytes) /\ o + k \notin plain /\ k \in Nat
      BY <1>3, <1>6, <1>8
    <3>2. buf'[o + (k + 1)] = label[k]
      BY <1>3, <1>6, <1>8, <3>1
    <3>3. o + (k + 1) = o + k + 1
      BY <3>1
    <3>4. At(o + k)' = label[k]
      BY <3>2, <3>3 DEF At
    <3> QED
      BY <1>1, <1>3, <1>4, <3>1, <3>4
  <2>3. \A next : next = Len(buf') => LeadsTo(o, next)'
    BY <1>1, <1>2, <1>6, <1>8 DEF LeadsTo
  <2>4. o + n < Len(buf')
    BY <1>3, <2>1
  <2>5. rest'[o] # <<>> /\ rest'[o][1] = Lower(label)
    BY <1>2, <1>6, <1>8
  <2>6. LeadsTo(o, o + 1 + At(o))'
    BY <2>1, <2>3
  <2> QED
    BY <1>3, <1>4, <2>1, <2>2, <2>4, <2>5, <2>6 DEF LabelAt
<1>10. PartOK(o)'
  <2>1. o < Len(buf') /\ o \notin plain' /\ Len(names) \in 1 .. Len(names')
    BY <1>1, <1>3, <1>6, <1>7, <1>8
  <2> QED
    BY <1>6, <1>8, <1>9, <2>1 DEF PartOK
<1>11. PartsOK'
  BY <1>1, <1>6, <1>8, <1>10, KeptPart DEF PartsOK
<1>12. TableOK' /\ DOMAIN offsets' \subseteq Seq(Label)
  <2>1. CASE Len(buf) < OffsetSpace
    <3>1. offsets' = With(offsets, Key(naming), Len(buf))
      BY <1>1, <2>1 DEF Register
    <3>2. /\ DOMAIN offsets' = DOMAIN offsets \cup {Key(naming)}
          /\ offsets'[Key(naming)] = Len(buf)
          /\ \A s \in DOMAIN offsets : s # Key(naming) => offsets'[s] = offsets[s]
      BY <3>1 DEF With
    <3> QED
      BY <1>1, <1>6, <2>1, <3>2 DEF TableOK, Keeps, TypeOK
  <2>2. CASE ~(Len(buf) < OffsetSpace)
    <3>1. offsets' = offsets
      BY <1>1, <2>2 DEF Register
    <3> QED
      BY <1>1, <1>6, <3>1, KeptTable DEF TypeOK
  <2> QED
    BY <2>1, <2>2
<1>13. AllBegun'
  BY <1>1, <1>6, KeptBegun DEF AllBegun
<1>14. TypeOK'
  BY <1>1, <1>2, <1>6, <1>12 DEF TypeOK
<1>15. Bookkeeping'
  <2>1. DOMAIN rest' \subseteq Nat
    BY <1>1, <1>6 DEF Bookkeeping
  <2>2. plain' \subseteq 0 .. Len(buf') - 1
    BY <1>1, <1>3, <1>6
  <2> QED
    BY <1>1, <1>2, <1>6, <2>1, <2>2 DEF Bookkeeping
<1> QED
  BY <1>1, <1>11, <1>12, <1>13, <1>14, <1>15, ReaderIdle DEF IInv

-----------------------------------------------------------------------------
(* The steps of the reader.  Each leaves the message as it is.             *)

LEMMA MessageStays ==
  ASSUME IInv, UNCHANGED writerVars
  PROVE  /\ TypeOK /\ Bookkeeping /\ PartsOK /\ AllBegun /\ ReaderOK /\ CursorOK
         /\ PartsOK' /\ TableOK' /\ AllBegun'
         /\ buf' = buf /\ names' = names /\ stops' = stops /\ rest' = rest
         /\ owner' = owner /\ stage' = stage
         /\ stage \in {"reading", "given"} => Bookkeeping'
<1>1. /\ UNCHANGED <<buf, offsets, naming, names, stops, rest, owner, plain>>
      /\ stage' = stage
  BY DEF writerVars
<1>2. PartsOK' /\ TableOK' /\ AllBegun'
  BY <1>1, WriterIdle
<1> QED
  BY <1>1, <1>2 DEF IInv, Bookkeeping

(* A reader that is busy reads a complete message, or a given one.         *)
LEMMA BusyReads == ASSUME IInv, op = "busy" PROVE stage \in {"reading", "given"}
BY DEF IInv, TypeOK, Bookkeeping

LEMMA ReadFromKeeps ==
  ASSUME IInv, NEW at \in 0 .. Len(buf), ReadFrom(at)
  PROVE  IInv'
<1>1. /\ stage \in {"reading", "given"} /\ UNCHANGED writerVars
      /\ op' = "busy" /\ from' = at /\ pos' = at /\ labels' = <<>> /\ jumped' = FALSE
      /\ after' = at /\ guard' = 0
  BY DEF ReadFrom
<1>2. /\ TypeOK /\ Bookkeeping /\ AllBegun
      /\ PartsOK' /\ TableOK' /\ AllBegun' /\ Bookkeeping'
      /\ names' = names /\ rest' = rest /\ owner' = owner /\ stage' = stage
  BY <1>1, MessageStays
<1>3. Len(buf) \in Nat
  BY <1>2, LenProperties DEF TypeOK
<1>4. at \in Nat
  BY <1>3
<1>5. labels' \in Seq(Seq(Byte)) /\ guard' \in 0 .. Guard
  BY <1>1, EmptySeq, NameCodecConstants
<1>6. TypeOK'
  BY <1>1, <1>2, <1>4, <1>5 DEF TypeOK, writerVars
<1>7. CursorOK'
  BY <1>1, <1>4 DEF CursorOK, CursorMovesOn
<1>8. ASSUME stage = "reading", NEW i \in 1 .. Len(names), names[i].start = at
      PROVE  OnTheWay(i)'
  <2>1. naming = Nothing
    BY <1>2, <1>8 DEF Bookkeeping
  <2>2. names[i].labels \in Seq(Label)
    <3> DEFINE Pairs == [labels : Seq(Label), start : Nat]
    <3>1. names[i] \in Pairs
      BY <1>2, ElementOfSeq DEF TypeOK
    <3> QED
      BY <3>1
  <2>3. naming # names[i].labels
    BY <2>1, <2>2, NameCodecConstants
  <2>4. at \in DOMAIN rest /\ rest[at] = Key(names[i].labels) /\ owner[at] = i
    BY <1>2, <1>8, <2>3 DEF AllBegun, Begun
  <2>5. Name' = <<>>
    BY <1>1 DEF Name
  <2>6. Key(names[i].labels) \in Seq(Label)
    BY <2>2, KeyProperties
  <2>7. <<>> \o Key(names[i].labels) = Key(names[i].labels)
    BY <2>6, ConcatEmptySeq
  <2> QED
    BY <1>1, <1>2, <2>4, <2>5, <2>7 DEF OnTheWay
<1>9. ReaderOK'
  BY <1>1, <1>2, <1>8 DEF ReaderOK
<1> QED
  BY <1>2, <1>6, <1>7, <1>9 DEF IInv

LEMMA RaiseKeeps ==
  ASSUME IInv, Raise
  PROVE  IInv'
<1>1. /\ op = "busy"
      /\ guard = Guard \/ ~(IsPointer \/ IsRoot \/ IsLabel)
      /\ op' = "raised" /\ guard' = IF guard < Guard THEN guard + 1 ELSE guard
      /\ UNCHANGED writerVars /\ UNCHANGED <<from, pos, labels, jumped, after>>
  BY DEF Raise
<1>2. /\ TypeOK /\ Bookkeeping /\ PartsOK /\ ReaderOK /\ stage \in {"reading", "given"}
      /\ PartsOK' /\ TableOK' /\ AllBegun' /\ Bookkeeping' /\ names' = names
      /\ stage' = stage
  <2>1. op = "busy" /\ UNCHANGED writerVars
    BY <1>1
  <2>2. stage \in {"reading", "given"}
    BY <2>1, BusyReads
  <2> QED
    BY <2>1, <2>2, MessageStays
<1>3. guard' \in 0 .. Guard
  BY <1>1, <1>2, NameCodecConstants DEF TypeOK
<1>4. TypeOK'
  BY <1>1, <1>2, <1>3 DEF TypeOK, writerVars
<1>5. CursorOK'
  BY <1>1 DEF CursorOK, CursorMovesOn
<1>6. ASSUME stage = "reading", NEW i \in 1 .. Len(names), names[i].start = from
      PROVE  OnTheWay(i)'
  <2>1. pos \in DOMAIN rest
    <3>1. OnTheWay(i)
      BY <1>2, <1>6 DEF ReaderOK
    <3> QED
      BY <1>1, <3>1 DEF OnTheWay
  <2>2. IsPointer \/ IsRoot \/ IsLabel
    <3>1. pos < Len(buf) /\ (EndsAt(pos) \/ PointsAt(pos) \/ LabelAt(pos))
      BY <1>2, <2>1 DEF PartsOK, PartOK
    <3> QED
      BY <3>1 DEF EndsAt, PointsAt, LabelAt, IsPointer, IsRoot, IsLabel, Within
  <2>3. guard = Guard
    BY <1>1, <2>2
  <2>4. guard' = Guard
    BY <1>1, <2>3, NameCodecConstants
  <2> QED
    BY <1>1, <2>4 DEF OnTheWay
<1>7. ReaderOK'
  BY <1>1, <1>2, <1>6 DEF ReaderOK
<1> QED
  BY <1>2, <1>4, <1>5, <1>7 DEF IInv

LEMMA DecodedType ==
  ASSUME NEW bytes \in Seq(Byte)
  PROVE  Decoded(bytes) \in Seq(Nat)
<1> DEFINE ascii == [k \in DOMAIN bytes |-> IF bytes[k] < 128 THEN bytes[k] ELSE 65533]
<1>1. Len(bytes) \in Nat /\ DOMAIN bytes = 1 .. Len(bytes)
  BY LenProperties
<1>2. ASSUME NEW k \in 1 .. Len(bytes) PROVE ascii[k] \in Nat
  <2>1. bytes[k] \in Byte
    BY <1>1, ElementOfSeq
  <2>2. \A c \in Byte : (IF c < 128 THEN c ELSE 65533) \in Nat
    BY DEF Byte
  <2> QED
    BY <1>1, <2>1, <2>2
<1>3. DOMAIN ascii = 1 .. Len(bytes)
  BY <1>1
<1>4. Decoded(bytes) = Lower(ascii)
  BY DEF Decoded
<1> HIDE DEF ascii
<1>5. \A c \in Nat : Small(c) \in Nat
  BY DEF Small
<1>6. \A k \in 1 .. Len(bytes) : Small(ascii[k]) \in Nat
  BY <1>2, <1>5
<1>7. Decoded(bytes) = [k \in 1 .. Len(bytes) |-> Small(ascii[k])]
  BY <1>3, <1>4 DEF Lower, Small
<1> QED
  BY <1>1, <1>6, <1>7, IsASeq

LEMMA NameType ==
  ASSUME labels \in Seq(Seq(Byte))
  PROVE  Name \in Seq(Seq(Nat)) /\ Len(Name) = Len(labels)
<1>1. Len(labels) \in Nat /\ DOMAIN labels = 1 .. Len(labels)
  BY LenProperties
<1>2. \A i \in 1 .. Len(labels) : Decoded(labels[i]) \in Seq(Nat)
  BY ElementOfSeq, DecodedType
<1>3. Name = [i \in 1 .. Len(labels) |-> Decoded(labels[i])]
  BY <1>1 DEF Name
<1>4. Name \in Seq(Seq(Nat))
  BY <1>1, <1>2, <1>3, IsASeq
<1> QED
  BY <1>1, <1>3, <1>4, LenProperties

(* An iteration of the loop, by what it does to the reader.                *)
LEMMA IterationKeeps ==
  ASSUME IInv, Iterate, op' \in {"busy", "done"}, pos' \in Nat, after' \in Nat,
         labels' \in Seq(Seq(Byte)), jumped' \in BOOLEAN, CursorOK',
         \A i \in 1 .. Len(names) :
             stage = "reading" /\ names[i].start = from /\ OnTheWay(i) => OnTheWay(i)'
  PROVE  IInv'
<1>1. /\ op = "busy" /\ guard < Guard /\ guard' = guard + 1 /\ from' = from
      /\ UNCHANGED writerVars
  BY DEF Iterate
<1>2. /\ TypeOK /\ ReaderOK /\ PartsOK' /\ TableOK' /\ AllBegun' /\ Bookkeeping'
      /\ names' = names /\ stage' = stage
  BY <1>1, MessageStays, BusyReads
<1>3. guard' \in 0 .. Guard
  BY <1>1, <1>2, NameCodecConstants DEF TypeOK
<1>4. TypeOK'
  BY <1>1, <1>2, <1>3 DEF TypeOK, writerVars
<1>5. ReaderOK'
  BY <1>1, <1>2 DEF ReaderOK
<1> QED
  BY <1>2, <1>4, <1>5 DEF IInv

(* What an iteration may rely on.                                          *)
LEMMA ReaderFacts ==
  ASSUME IInv, Iterate
  PROVE  /\ op = "busy" /\ buf \in Seq(Byte) /\ Len(buf) \in Nat
         /\ buf' = buf /\ names' = names /\ stops' = stops /\ rest' = rest
         /\ owner' = owner /\ from' = from
         /\ pos \in Nat /\ after \in Nat /\ from \in Nat
         /\ labels \in Seq(Seq(Byte)) /\ jumped \in BOOLEAN
         /\ IF jumped THEN from < after /\ after <= Len(buf)
                      ELSE after = pos /\ from <= pos
         /\ \A o \in Nat : o < Len(buf) => At(o) \in Byte
         /\ PartsOK
         /\ stage = "reading" => naming = Nothing
<1>1. op = "busy" /\ UNCHANGED writerVars /\ from' = from
  BY DEF Iterate
<1>2. /\ TypeOK /\ Bookkeeping /\ PartsOK /\ CursorOK
      /\ buf' = buf /\ names' = names /\ stops' = stops /\ rest' = rest
      /\ owner' = owner
  BY <1>1, MessageStays
<1>3. buf \in Seq(Byte) /\ Len(buf) \in Nat
  BY <1>2, LenProperties DEF TypeOK
<1>4. ASSUME NEW o \in Nat, o < Len(buf) PROVE At(o) \in Byte
  <2>1. o + 1 \in 1 .. Len(buf)
    BY <1>3, <1>4
  <2> QED
    BY <1>3, <2>1, ElementOfSeq DEF At
<1> QED
  BY <1>1, <1>2, <1>3, <1>4 DEF TypeOK, CursorOK, Bookkeeping

LEMMA FollowKeeps ==
  ASSUME IInv, Follow
  PROVE  IInv'
<1>1. /\ Iterate /\ IsPointer /\ pos' = Target(pos) /\ jumped' = TRUE
      /\ after' = IF jumped THEN after ELSE pos + 2
      /\ op' = op /\ labels' = labels
  BY DEF Follow, Target
<1>2. /\ op = "busy" /\ Len(buf) \in Nat /\ buf' = buf /\ stops' = stops /\ rest' = rest
      /\ names' = names /\ from' = from
      /\ pos \in Nat /\ after \in Nat /\ from \in Nat
      /\ labels \in Seq(Seq(Byte)) /\ jumped \in BOOLEAN
      /\ IF jumped THEN from < after /\ after <= Len(buf)
                   ELSE after = pos /\ from <= pos
      /\ \A o \in Nat : o < Len(buf) => At(o) \in Byte
      /\ PartsOK
  BY <1>1, ReaderFacts
<1>3. /\ pos < Len(buf) /\ pos + 1 < Len(buf) /\ At(pos) >= 192
      /\ At(pos) \in Byte /\ At(pos + 1) \in Byte
  BY <1>1, <1>2 DEF IsPointer, Within
<1>4. pos' \in Nat
  <2>1. \A x, y \in Byte : x >= 192 => (x - 192) * 256 + y \in Nat
    BY DEF Byte
  <2> QED
    BY <1>1, <1>3, <2>1 DEF Target
<1>5. after' \in Nat /\ from < after' /\ after' <= Len(buf)
  <2>1. CASE jumped
    BY <1>1, <1>2, <2>1
  <2>2. CASE ~jumped
    BY <1>1, <1>2, <1>3, <2>2
  <2> QED
    BY <2>1, <2>2
<1>6. CursorOK'
  BY <1>1, <1>2, <1>5 DEF CursorOK, CursorMovesOn
<1>7. ASSUME NEW i \in 1 .. Len(names), OnTheWay(i)
      PROVE  OnTheWay(i)'
  <2>1. /\ pos \in DOMAIN rest /\ Name \o rest[pos] = Key(names[i].labels)
        /\ IF jumped THEN after = stops[i] ELSE owner[pos] = i
    BY <1>2, <1>7 DEF OnTheWay
  <2>2. PointsAt(pos)
    <3>1. EndsAt(pos) \/ PointsAt(pos) \/ LabelAt(pos)
      BY <1>2, <2>1 DEF PartsOK, PartOK
    <3>2. \A c \in Byte : c >= 192 => c # 0 /\ c \notin 1 .. 63
      BY DEF Byte
    <3>3. At(pos) # 0 /\ At(pos) \notin 1 .. 63
      BY <1>3, <3>2
    <3> QED
      BY <3>1, <3>3 DEF EndsAt, LabelAt
  <2>3. /\ Target(pos) \in DOMAIN rest /\ rest[Target(pos)] = rest[pos]
        /\ stops[owner[pos]] = pos + 2
    BY <2>2 DEF PointsAt
  <2>4. after' = stops[i]
    <3>1. CASE jumped
      BY <1>1, <2>1, <3>1
    <3>2. CASE ~jumped
      BY <1>1, <2>1, <2>3, <3>2
    <3> QED
      BY <3>1, <3>2
  <2>5. Name' = Name
    BY <1>1 DEF Name
  <2> QED
    BY <1>1, <1>2, <2>1, <2>3, <2>4, <2>5 DEF OnTheWay
<1> QED
  BY <1>1, <1>2, <1>4, <1>5, <1>6, <1>7, IterationKeeps

LEMMA ReturnKeeps ==
  ASSUME IInv, Return
  PROVE  IInv'
<1>1. /\ Iterate /\ IsRoot /\ op' = "done" /\ pos' = pos + 1
      /\ after' = IF jumped THEN after ELSE pos'
      /\ labels' = labels /\ jumped' = jumped
  BY DEF Return
<1>2. /\ op = "busy" /\ Len(buf) \in Nat /\ buf' = buf /\ stops' = stops /\ rest' = rest
      /\ names' = names /\ from' = from
      /\ pos \in Nat /\ after \in Nat /\ from \in Nat
      /\ labels \in Seq(Seq(Byte)) /\ jumped \in BOOLEAN
      /\ IF jumped THEN from < after /\ after <= Len(buf)
                   ELSE after = pos /\ from <= pos
      /\ PartsOK
  BY <1>1, ReaderFacts
<1>3. pos < Len(buf) /\ At(pos) = 0
  BY <1>1 DEF IsRoot, Within
<1>4. after' \in Nat /\ from < after' /\ after' <= Len(buf) /\ pos' \in Nat
  <2>1. CASE jumped
    BY <1>1, <1>2, <2>1
  <2>2. CASE ~jumped
    BY <1>1, <1>2, <1>3, <2>2
  <2> QED
    BY <2>1, <2>2
<1>5. CursorOK'
  BY <1>1, <1>2, <1>4 DEF CursorOK, CursorMovesOn
<1>6. Name \in Seq(Seq(Nat))
  BY <1>2, NameType
<1>7. ASSUME NEW i \in 1 .. Len(names), OnTheWay(i)
      PROVE  OnTheWay(i)'
  <2>1. /\ pos \in DOMAIN rest /\ Name \o rest[pos] = Key(names[i].labels)
        /\ IF jumped THEN after = stops[i] ELSE owner[pos] = i
    BY <1>2, <1>7 DEF OnTheWay
  <2>2. EndsAt(pos)
    <3>1. EndsAt(pos) \/ PointsAt(pos) \/ LabelAt(pos)
      BY <1>2, <2>1 DEF PartsOK, PartOK
    <3> QED
      BY <1>3, <3>1 DEF PointsAt, LabelAt
  <2>3. rest[pos] = <<>> /\ stops[owner[pos]] = pos + 1
    BY <2>2 DEF EndsAt
  <2>4. after' = stops[i]
    <3>1. CASE jumped
      BY <1>1, <2>1, <3>1
    <3>2. CASE ~jumped
      BY <1>1, <2>1, <2>3, <3>2
    <3> QED
      BY <3>1, <3>2
  <2>5. Name \o <<>> = Name
    BY <1>6, ConcatEmptySeq
  <2>6. Name' = Key(names[i].labels)
    BY <1>1, <2>1, <2>3, <2>5 DEF Name
  <2> QED
    BY <1>1, <1>2, <2>4, <2>6 DEF OnTheWay
<1> QED
  BY <1>1, <1>2, <1>4, <1>5, <1>7, IterationKeeps

(* The slice of a label that the writer wrote spells this label.           *)
LEMMA SliceType ==
  ASSUME buf \in Seq(Byte), pos \in Nat, IsLabel
  PROVE  Slice \in Seq(Byte)
<1> DEFINE end == IF Within(pos + At(pos)) THEN pos + 1 + At(pos) ELSE Len(buf)
<1>1. Len(buf) \in Nat /\ \A i \in 1 .. Len(buf) : buf[i] \in Byte
  BY LenProperties, ElementOfSeq
<1>2. pos < Len(buf) /\ At(pos) \in 1 .. 63
  BY DEF IsLabel, Within
<1>3. end \in Int /\ end <= Len(buf)
  <2>1. PICK l \in 1 .. 63 : l = At(pos)
    BY <1>2
  <2>2. end = IF pos + l < Len(buf) THEN pos + 1 + l ELSE Len(buf)
    BY <2>1 DEF Within
  <2> HIDE DEF end
  <2> QED
    BY <1>1, <2>2
<1>4. Slice = SubSeq(buf, pos + 2, end)
  BY DEF Slice
<1> HIDE DEF end
<1>5. \A i \in pos + 2 .. end : buf[i] \in Byte
  BY <1>1, <1>3
<1>6. pos + 2 \in Int
  OBVIOUS
<1> QED
  BY <1>3, <1>4, <1>5, <1>6, SubSeqProperties

LEMMA LabelIsRead ==
  ASSUME buf \in Seq(Byte), pos \in Nat, IsLabel, LabelAt(pos), rest[pos] \in Seq(Label)
  PROVE  Decoded(Slice) = rest[pos][1]
<1>1. PICK l \in 1 .. 63 : l = At(pos)
  BY DEF LabelAt
<1>2. /\ l = Len(rest[pos][1]) /\ pos + l < Len(buf) /\ rest[pos] # <<>>
      /\ \A k \in 1 .. l : At(pos + k) < 128 /\ Small(At(pos + k)) = rest[pos][1][k]
  BY <1>1 DEF LabelAt
<1>3. rest[pos][1] \in Label
  BY <1>2, KeyOfTail
<1>4. Len(buf) \in Nat /\ \A i \in 1 .. Len(buf) : buf[i] \in Byte
  BY LenProperties, ElementOfSeq
<1>5. Slice = SubSeq(buf, pos + 2, pos + 1 + l)
  BY <1>1, <1>2 DEF Slice, Within
<1>6. /\ pos + 2 \in Int /\ pos + 1 + l \in Int /\ pos + 2 <= pos + 1 + l
      /\ pos + 1 + l - (pos + 2) + 1 = l
  <2>1. \A c \in 1 .. 63 : c \in Int /\ c >= 1
    OBVIOUS
  <2>2. \A x \in Nat, c \in Int : c >= 1 =>
           /\ x + 2 \in Int /\ x + 1 + c \in Int /\ x + 2 <= x + 1 + c
           /\ x + 1 + c - (x + 2) + 1 = c
    OBVIOUS
  <2> QED
    BY <2>1, <2>2
<1>7. ASSUME NEW i \in pos + 2 .. pos + 1 + l PROVE buf[i] \in Byte
  <2>1. \A x, n \in Nat, c \in 1 .. 63 :
            x + c < n => \A k \in x + 2 .. x + 1 + c : k \in 1 .. n
    OBVIOUS
  <2>2. i \in 1 .. Len(buf)
    BY <1>2, <1>4, <2>1
  <2> QED
    BY <1>4, <2>2
<1>8. /\ Slice \in Seq(Byte) /\ Len(Slice) = l
      /\ \A k \in 1 .. l : Slice[k] = buf[pos + 2 + k - 1]
  BY <1>5, <1>6, <1>7, SubSeqProperties
<1>9. ASSUME NEW k \in 1 .. l
      PROVE  Slice[k] < 128 /\ Small(Slice[k]) = rest[pos][1][k]
  <2>1. pos + 2 + k - 1 = pos + k + 1
    BY <1>1
  <2>2. Slice[k] = At(pos + k)
    BY <1>8, <2>1 DEF At
  <2> QED
    BY <1>2, <2>2
<1> QED
  BY <1>2, <1>3, <1>8, <1>9, SpelledIsDecoded

LEMMA LabelsAreSequences ==
  ASSUME NEW suffix \in Seq(Label)
  PROVE  suffix \in Seq(Seq(Nat))
<1>1. /\ Len(suffix) \in Nat /\ DOMAIN suffix = 1 .. Len(suffix)
      /\ \A k \in 1 .. Len(suffix) : suffix[k] \in Label
  BY LenProperties, ElementOfSeq
<1>2. \A k \in 1 .. Len(suffix) : suffix[k] \in Seq(Nat)
  BY <1>1 DEF Label
<1>3. suffix = [k \in 1 .. Len(suffix) |-> suffix[k]]
  BY <1>1
<1> QED
  BY <1>1, <1>2, <1>3, IsASeq

LEMMA CollectKeeps ==
  ASSUME IInv, Collect
  PROVE  IInv'
<1>1. /\ Iterate /\ IsLabel /\ op' = op
      /\ labels' = Append(labels, Slice) /\ pos' = pos + 1 + At(pos)
      /\ after' = IF jumped THEN after ELSE pos'
      /\ jumped' = jumped
  BY DEF Collect
<1>2. /\ op = "busy" /\ buf \in Seq(Byte) /\ Len(buf) \in Nat
      /\ buf' = buf /\ names' = names /\ stops' = stops /\ rest' = rest
      /\ owner' = owner /\ from' = from
      /\ pos \in Nat /\ after \in Nat /\ from \in Nat
      /\ labels \in Seq(Seq(Byte)) /\ jumped \in BOOLEAN
      /\ IF jumped THEN from < after /\ after <= Len(buf)
                   ELSE after = pos /\ from <= pos
      /\ PartsOK
      /\ stage = "reading" => naming = Nothing
  BY <1>1, ReaderFacts
<1>3. PICK l \in 1 .. 63 : l = At(pos)
  BY <1>1 DEF IsLabel
<1>4. pos' = pos + 1 + l
  BY <1>1, <1>3
<1>5. /\ pos' \in Nat /\ after' \in Nat
      /\ IF jumped THEN after' = after ELSE after' = pos' /\ from <= pos'
  <2>1. pos' \in Nat /\ pos <= pos'
    BY <1>2, <1>4
  <2>2. CASE jumped
    BY <1>1, <1>2, <2>1, <2>2
  <2>3. CASE ~jumped
    BY <1>1, <1>2, <2>1, <2>3
  <2> QED
    BY <2>2, <2>3
<1>6. CursorOK'
  BY <1>1, <1>2, <1>5 DEF CursorOK, CursorMovesOn
<1>7. Slice \in Seq(Byte)
  BY <1>1, <1>2, SliceType
<1>8. labels' \in Seq(Seq(Byte))
  BY <1>1, <1>2, <1>7, AppendProperties
<1>9. Name' = Append(Name, Decoded(Slice))
  <2>1. /\ Len(labels) \in Nat /\ Len(labels') = Len(labels) + 1
        /\ \A i \in 1 .. Len(labels) : labels'[i] = labels[i]
        /\ labels'[Len(labels) + 1] = Slice
    BY <1>1, <1>2, <1>7, AppendProperties, LenProperties
  <2>2. Name \in Seq(Seq(Nat)) /\ Len(Name) = Len(labels) /\ Decoded(Slice) \in Seq(Nat)
    BY <1>2, <1>7, NameType, DecodedType
  <2>3. /\ Append(Name, Decoded(Slice)) \in Seq(Seq(Nat))
        /\ Len(Append(Name, Decoded(Slice))) = Len(labels) + 1
        /\ \A i \in 1 .. Len(labels) : Append(Name, Decoded(Slice))[i] = Name[i]
        /\ Append(Name, Decoded(Slice))[Len(labels) + 1] = Decoded(Slice)
    BY <2>2, AppendProperties
  <2>4. DOMAIN labels' = 1 .. Len(labels) + 1 /\ DOMAIN labels = 1 .. Len(labels)
    BY <1>2, <1>8, <2>1, LenProperties
  <2>5. Name' = [i \in 1 .. Len(labels) + 1 |-> Decoded(labels'[i])]
    BY <2>4 DEF Name
  <2>6. \A i \in 1 .. Len(labels) + 1 : Append(Name, Decoded(Slice))[i] = Decoded(labels'[i])
    <3>1. \A i \in 1 .. Len(labels) : Name[i] = Decoded(labels[i])
      BY <2>4 DEF Name
    <3>2. \A i \in 1 .. Len(labels) + 1 : i \in 1 .. Len(labels) \/ i = Len(labels) + 1
      BY <2>1
    <3> QED
      BY <2>1, <2>3, <3>1, <3>2
  <2>7. Name' \in Seq(Seq(Nat)) /\ Len(Name') = Len(labels) + 1
    <3>1. Len(labels) + 1 \in Nat
      BY <2>1
    <3>2. \A i \in 1 .. Len(labels) + 1 : Decoded(labels'[i]) \in Seq(Nat)
      BY <1>8, <2>1, ElementOfSeq, DecodedType
    <3>3. Name' \in Seq(Seq(Nat))
      BY <2>5, <3>1, <3>2, IsASeq
    <3> QED
      BY <2>5, <3>1, <3>3, LenProperties
  <2>8. \A i \in 1 .. Len(Name') : Name'[i] = Append(Name, Decoded(Slice))[i]
    BY <2>5, <2>6, <2>7
  <2> QED
    BY <2>3, <2>7, <2>8, SeqEqual
<1>10. ASSUME stage = "reading", NEW i \in 1 .. Len(names), OnTheWay(i)
       PROVE  OnTheWay(i)'
  <2>1. /\ pos \in DOMAIN rest /\ Name \o rest[pos] = Key(names[i].labels)
        /\ IF jumped THEN after = stops[i] ELSE owner[pos] = i
    BY <1>2, <1>10 DEF OnTheWay
  <2>2. LabelAt(pos) /\ rest[pos] \in Seq(Label)
    <3>1. /\ EndsAt(pos) \/ PointsAt(pos) \/ LabelAt(pos)
          /\ rest[pos] \in Seq(Label)
      BY <1>2, <2>1 DEF PartsOK, PartOK
    <3>2. \A c \in 1 .. 63 : c # 0 /\ ~(c >= 192)
      OBVIOUS
    <3>3. At(pos) # 0 /\ ~(At(pos) >= 192)
      BY <1>3, <3>2
    <3> QED
      BY <3>1, <3>3 DEF EndsAt, PointsAt
  <2>3. Decoded(Slice) = rest[pos][1] /\ rest[pos] # <<>>
    BY <1>1, <1>2, <2>2, LabelIsRead DEF LabelAt
  <2>4. /\ pos' \in DOMAIN rest /\ rest[pos'] = Tail(rest[pos])
        /\ owner[pos'] = owner[pos]
    BY <1>1, <1>2, <1>10, <2>2 DEF LabelAt, LeadsTo
  <2>5. Name' \o Tail(rest[pos]) = Name \o rest[pos]
    <3>1. rest[pos] \in Seq(Seq(Nat))
      BY <2>2, LabelsAreSequences
    <3>2. Name \in Seq(Seq(Nat))
      BY <1>2, NameType
    <3> QED
      BY <1>9, <2>3, <3>1, <3>2, AppendThenTail
  <2> QED
    BY <1>1, <1>2, <2>1, <2>4, <2>5 DEF OnTheWay
<1> QED
  BY <1>1, <1>2, <1>5, <1>6, <1>8, <1>10, IterationKeeps

-----------------------------------------------------------------------------
(* What holds of every message.                                            *)

LEMMA InitIsOK == Init => IInv
<1> SUFFICES ASSUME Init PROVE IInv
  OBVIOUS
<1>1. NewWriterOK
  BY NewWriterIsOK DEF Init, NewWriter
<1>2. buf \in Seq(Byte)
  <2>1. buf = <<>> \/ buf \in Given
    BY DEF Init
  <2>2. CASE buf = <<>>
    BY <2>2, EmptySeq
  <2>3. CASE buf \in Given
    <3>1. Given \subseteq Seq(Byte)
      BY NameCodecConstants
    <3> QED
      BY <2>3, <3>1
  <2> QED
    BY <2>1, <2>2, <2>3
<1>3. labels \in Seq(Seq(Byte)) /\ guard \in 0 .. Guard
  BY NameCodecConstants, EmptySeq DEF Init
<1>4. TypeOK
  BY <1>1, <1>2, <1>3 DEF TypeOK, NewWriterOK, Init
<1> QED
  BY <1>1, <1>4 DEF IInv, NewWriterOK

LEMMA StepKeeps == IInv /\ [Next]_nameVars => IInv'
<1> SUFFICES ASSUME IInv, [Next]_nameVars PROVE IInv'
  OBVIOUS
<1>1. CASE UNCHANGED nameVars
  <2>1. /\ UNCHANGED <<buf, offsets, naming, names, stops, rest, owner, plain>>
        /\ UNCHANGED <<stage, op, from, pos, labels, jumped, after, guard>>
    BY <1>1 DEF nameVars
  <2>2. TypeOK' /\ Bookkeeping'
    BY <2>1 DEF IInv, TypeOK, Bookkeeping
  <2>3. ReaderOK' /\ CursorOK'
    BY <2>1 DEF IInv, ReaderOK, OnTheWay, Name, CursorOK, CursorMovesOn
  <2> QED
    BY <2>1, <2>2, <2>3, WriterIdle DEF IInv
<1>2. CASE WriteField(SubSeq(buf', Len(buf) + 1, Len(buf')))
  BY <1>2, FieldKeeps
<1>3. CASE \E at \in plain : Refill(at, <<buf'[at + 1], buf'[at + 2]>>)
  BY <1>3, OverwriteKeeps
<1>4. CASE BeginName(naming')
  BY <1>4, BeginKeeps
<1>5. CASE WriteName
  BY <1>5, PointBackKeeps, WriteLabelKeeps, RefuseKeeps, WriteRootKeeps DEF WriteName
<1>6. CASE Seal
  BY <1>6, SealKeeps
<1>7. CASE Renew
  BY <1>7, RenewKeeps
<1>8. CASE \E at \in 0 .. Len(buf) : ReadFrom(at)
  BY <1>8, ReadFromKeeps
<1>9. CASE ReadName
  BY <1>9, FollowKeeps, CollectKeeps, ReturnKeeps, RaiseKeeps DEF ReadName
<1> QED
  BY <1>1, <1>2, <1>3, <1>4, <1>5, <1>6, <1>7, <1>8, <1>9 DEF Next

LEMMA AlwaysOK == Spec => []IInv
BY InitIsOK, StepKeeps, PTL DEF Spec

(* Every variable of writer and reader keeps its type: what write_name     *)
(* appends are bytes, whatever labels it is given, and read_name never     *)
(* takes more iterations than its guard allows.                            *)
THEOREM TypeCorrect == Spec => []TypeOK
<1>1. IInv => TypeOK
  BY DEF IInv
<1> QED
  BY <1>1, AlwaysOK, PTL

(* In every message, of any length and with any names, each name is read   *)
(* back as it was written, in lower case, through whatever pointers        *)
(* write_name has left in it; only a chain of them that exceeds the guard  *)
(* is refused (wire.py:213).                                               *)
THEOREM NamesAlwaysReadBack == Spec => []NamesReadBack
<1>1. IInv => NamesReadBack
  <2> SUFFICES ASSUME IInv, stage = "reading", NEW i \in DOMAIN names,
                      names[i].start = from
               PROVE  /\ op = "done" => Name = Key(names[i].labels) /\ after = stops[i]
                      /\ op = "raised" => guard = Guard
    BY DEF NamesReadBack
  <2>1. i \in 1 .. Len(names)
    BY LenProperties DEF IInv, TypeOK
  <2> QED
    BY <2>1 DEF IInv, ReaderOK, OnTheWay
<1> QED
  BY <1>1, AlwaysOK, PTL

(* Whatever bytes are read, a name that read_name returns leaves the       *)
(* cursor behind where it was and within the message (wire.py:98).         *)
THEOREM CursorAlwaysMovesOn == Spec => []CursorMovesOn
<1>1. IInv => CursorMovesOn
  BY DEF IInv, CursorOK
<1> QED
  BY <1>1, AlwaysOK, PTL

-----------------------------------------------------------------------------
(* Folds: what FoldLeft and FlattenSeq return, element by element.  Where  *)
(* their definitions choose a function, there is one.                      *)

(* The least number with a property.                                       *)
LEMMA LeastNumber ==
  ASSUME NEW B \in SUBSET Nat, B # {}
  PROVE  \E m \in B : \A n \in Nat : n < m => n \notin B
<1>1. \E x \in B : \A y \in B : ~(<<y, x>> \in OpToRel(<, Nat))
  BY NatLessThanWellFounded, WFMin, Zenon
<1>2. \E x \in B : \A y \in B : ~(y < x)
  BY <1>1, Zenon DEF OpToRel
<1> QED
  BY <1>2

(* What holds of 0, and of each number up to n if it holds of the one      *)
(* before it, holds of all of them (Good is the set of these numbers).     *)
LEMMA UpTo ==
  ASSUME NEW n \in Nat, NEW Good, 0 \in Good,
         \A k \in 1 .. n : k - 1 \in Good => k \in Good
  PROVE  \A k \in 0 .. n : k \in Good
<1> SUFFICES ASSUME NEW x \in 0 .. n, x \notin Good PROVE FALSE
  OBVIOUS
<1> DEFINE B == {k \in 0 .. n : k \notin Good}
<1>1. B \in SUBSET Nat /\ B # {}
  OBVIOUS
<1>2. PICK m \in B : \A k \in Nat : k < m => k \notin B
  <2> HIDE DEF B
  <2> QED
    BY <1>1, LeastNumber
<1>3. m \in 1 .. n /\ m \notin Good
  OBVIOUS
<1>4. m - 1 \in Good
  BY <1>2, <1>3
<1> QED
  BY <1>3, <1>4

LEMMA MaxProperties ==
  ASSUME NEW n \in Nat, NEW S \in SUBSET (1 .. n), S # {}
  PROVE  /\ Max(S) \in S /\ Max(S) \in 1 .. n /\ \A x \in S : x <= Max(S)
         /\ IsFiniteSet(S) /\ Cardinality(S) \in Nat \ {0}
         /\ Cardinality(S \ {Max(S)}) = Cardinality(S) - 1
<1>1. \E x \in S : \A y \in S : y <= x
  <2> DEFINE B == {n - x : x \in S}
  <2>1. B \in SUBSET Nat /\ B # {}
    <3>1. \A x \in 1 .. n : n - x \in Nat
      OBVIOUS
    <3>2. \A x \in S : x \in 1 .. n
      OBVIOUS
    <3>3. \A x \in S : n - x \in Nat
      BY <3>1, <3>2
    <3> QED
      BY <3>3
  <2>2. PICK m \in B : \A k \in Nat : k < m => k \notin B
    <3> HIDE DEF B
    <3> QED
      BY <2>1, LeastNumber
  <2>3. PICK x \in S : m = n - x
    OBVIOUS
  <2>4. ASSUME NEW y \in S PROVE y <= x
    <3>1. x \in 1 .. n /\ y \in 1 .. n
      BY <2>3
    <3>2. n - y \in Nat /\ n - y \in B
      BY <3>1
    <3>3. ~(n - y < m)
      BY <2>2, <3>2
    <3> QED
      BY <2>3, <3>1, <3>3
  <2> QED
    BY <2>4
<1>2. Max(S) \in S /\ \A x \in S : x <= Max(S)
  BY <1>1 DEF Max
<1>3. IsFiniteSet(S)
  <2>1. IsFiniteSet(1 .. n)
    BY FS_Interval
  <2> QED
    BY <2>1, FS_Subset
<1>4. Cardinality(S) \in Nat /\ Cardinality(S) # 0
  BY <1>3, FS_CardinalityType, FS_EmptySet
<1>5. Cardinality(S \ {Max(S)}) = Cardinality(S) - 1
  BY <1>2, <1>3, FS_RemoveElement
<1> QED
  BY <1>2, <1>3, <1>4, <1>5

(* A fold over the subsets of 1 .. n, their largest element last.          *)
FoldOf(n, base, f, g) ==
    \A S \in SUBSET (1 .. n) :
        g[S] = IF S = {} THEN base ELSE f[<<g[S \ {Max(S)}], Max(S)>>]

LEMMA FoldExists ==
  ASSUME NEW n \in Nat, NEW V, NEW base \in V, NEW f,
         \A v \in V, i \in 1 .. n : f[<<v, i>>] \in V
  PROVE  \E g \in [SUBSET (1 .. n) -> V] : FoldOf(n, base, f, g)
<1> DEFINE D == SUBSET (1 .. n)
           Next1(g, S) == IF S = {} THEN base ELSE f[<<g[S \ {Max(S)}], Max(S)>>]
           Good == {k \in Nat : \E g \in [D -> V] :
                         \A S \in D : Cardinality(S) <= k => g[S] = Next1(g, S)}
<1>1. \A S \in D : Cardinality(S) \in 0 .. n /\ (Cardinality(S) = 0 <=> S = {})
  <2>1. IsFiniteSet(1 .. n) /\ Cardinality(1 .. n) = n
    BY FS_Interval
  <2>2. ASSUME NEW S \in D
        PROVE  Cardinality(S) \in 0 .. n /\ (Cardinality(S) = 0 <=> S = {})
    <3>1. IsFiniteSet(S) /\ Cardinality(S) <= n
      BY <2>1, FS_Subset
    <3>2. Cardinality(S) \in Nat /\ (Cardinality(S) = 0 <=> S = {})
      BY <3>1, FS_CardinalityType, FS_EmptySet
    <3> QED
      BY <3>1, <3>2
  <2> QED
    BY <2>2
<1>2. ASSUME NEW g \in [D -> V], NEW S \in D
      PROVE  Next1(g, S) \in V
  <2>1. CASE S = {}
    BY <2>1
  <2>2. CASE S # {}
    <3>1. g[S \ {Max(S)}] \in V /\ Max(S) \in 1 .. n
      BY <2>2, MaxProperties
    <3> QED
      BY <2>2, <3>1
  <2> QED
    BY <2>1, <2>2
<1>3. 0 \in Good
  <2> DEFINE g == [S \in D |-> base]
  <2>1. g \in [D -> V]
    OBVIOUS
  <2>2. ASSUME NEW S \in D, Cardinality(S) <= 0
        PROVE  g[S] = Next1(g, S)
    BY <1>1, <2>2
  <2> QED
    BY <2>1, <2>2
<1>4. ASSUME NEW k \in 1 .. n, k - 1 \in Good
      PROVE  k \in Good
  <2>1. PICK g \in [D -> V] : \A S \in D : Cardinality(S) <= k - 1 => g[S] = Next1(g, S)
    BY <1>4
  <2> DEFINE h == [S \in D |-> Next1(g, S)]
  <2>2. h \in [D -> V]
    BY <1>2
  <2>3. \A S \in D : Cardinality(S) <= k - 1 => h[S] = g[S]
    BY <2>1
  <2>4. ASSUME NEW S \in D, Cardinality(S) <= k
        PROVE  h[S] = Next1(h, S)
    <3>1. CASE S = {}
      BY <3>1
    <3>2. CASE S # {}
      <4>1. /\ Cardinality(S) \in Nat
            /\ Cardinality(S \ {Max(S)}) = Cardinality(S) - 1
        BY <3>2, MaxProperties
      <4>2. S \ {Max(S)} \in D
        OBVIOUS
      <4>3. Cardinality(S \ {Max(S)}) <= k - 1
        <5>1. \A c, d \in Nat : c <= d => c - 1 <= d - 1
          OBVIOUS
        <5>2. k \in Nat
          OBVIOUS
        <5> QED
          BY <2>4, <4>1, <5>1, <5>2
      <4>4. h[S \ {Max(S)}] = g[S \ {Max(S)}]
        BY <2>3, <4>2, <4>3
      <4> QED
        BY <3>2, <4>4
    <3> QED
      BY <3>1, <3>2
  <2>5. \A S \in D : Cardinality(S) <= k => h[S] = Next1(h, S)
    BY <2>4
  <2>6. k \in Nat
    OBVIOUS
  <2> HIDE DEF h, D, Next1
  <2> QED
    BY <2>2, <2>5, <2>6
<1>5. n \in Good
  <2> HIDE DEF Good
  <2> QED
    BY <1>3, <1>4, UpTo
<1>6. PICK g \in [D -> V] : \A S \in D : Cardinality(S) <= n => g[S] = Next1(g, S)
  BY <1>5
<1>7. \A S \in D : g[S] = Next1(g, S)
  BY <1>1, <1>6
<1>8. FoldOf(n, base, f, g)
  BY <1>7 DEF FoldOf
<1> QED
  BY <1>8

(* An accumulation over 1 .. n.                                            *)
Accumulates(n, base, f, g) ==
    g[0] = base /\ \A k \in 1 .. n : g[k] = f[<<g[k - 1], k>>]

LEMMA AccumulationExists ==
  ASSUME NEW n \in Nat, NEW V, NEW base \in V, NEW f,
         \A v \in V, i \in 1 .. n : f[<<v, i>>] \in V
  PROVE  \E g \in [0 .. n -> V] : Accumulates(n, base, f, g)
<1>1. PICK h \in [SUBSET (1 .. n) -> V] : FoldOf(n, base, f, h)
  BY FoldExists
<1>2. \A S \in SUBSET (1 .. n) :
         h[S] = IF S = {} THEN base ELSE f[<<h[S \ {Max(S)}], Max(S)>>]
  BY <1>1 DEF FoldOf
<1> DEFINE g == [k \in 0 .. n |-> h[1 .. k]]
<1>3. g \in [0 .. n -> V]
  OBVIOUS
<1>4. g[0] = base
  <2>1. 1 .. 0 = {} /\ 1 .. 0 \in SUBSET (1 .. n) /\ 0 \in 0 .. n
    OBVIOUS
  <2>2. h[1 .. 0] = base
    BY <1>2, <2>1
  <2> QED
    BY <2>1, <2>2
<1>5. ASSUME NEW k \in 1 .. n PROVE g[k] = f[<<g[k - 1], k>>]
  <2>1. 1 .. k \in SUBSET (1 .. n) /\ 1 .. k # {}
    OBVIOUS
  <2>2. Max(1 .. k) = k
    <3>1. Max(1 .. k) \in 1 .. k /\ \A x \in 1 .. k : x <= Max(1 .. k)
      BY <2>1, MaxProperties
    <3> QED
      BY <3>1
  <2>3. (1 .. k) \ {k} = 1 .. k - 1
    OBVIOUS
  <2>4. h[1 .. k] = f[<<h[1 .. k - 1], k>>]
    BY <1>2, <2>1, <2>2, <2>3
  <2>5. k - 1 \in 0 .. n /\ k \in 0 .. n
    OBVIOUS
  <2> QED
    BY <2>4, <2>5
<1>6. Accumulates(n, base, f, g)
  BY <1>4, <1>5 DEF Accumulates
<1> QED
  BY <1>3, <1>6

Flattens(ss, h) ==
    h = [i \in 1 .. Len(ss) |-> IF i = 1 THEN ss[i] ELSE h[i - 1] \o ss[i]]

(* FlattenSeq appends the sequences one after the other.                   *)
OneByOne(ss, g) ==
    /\ g[0] = <<>> /\ g[Len(ss)] = FlattenSeq(ss)
    /\ \A k \in 1 .. Len(ss) : g[k] = g[k - 1] \o ss[k]

LEMMA Flattened ==
  ASSUME NEW T, NEW ss \in Seq(Seq(T))
  PROVE  \E g \in [0 .. Len(ss) -> Seq(T)] : OneByOne(ss, g)
<1> DEFINE n == Len(ss)
           f == [p \in Seq(T) \X (1 .. n) |-> p[1] \o ss[p[2]]]
<1>1. n \in Nat /\ \A k \in 1 .. n : ss[k] \in Seq(T)
  BY LenProperties, ElementOfSeq
<1>2. <<>> \in Seq(T)
  BY EmptySeq
<1>3. \A v \in Seq(T), i \in 1 .. n : f[<<v, i>>] = v \o ss[i] /\ f[<<v, i>>] \in Seq(T)
  BY <1>1, ConcatProperties
<1> HIDE DEF n, f
<1>4. PICK g \in [0 .. n -> Seq(T)] : Accumulates(n, <<>>, f, g)
  BY <1>1, <1>2, <1>3, AccumulationExists
<1>5. g[0] = <<>> /\ \A k \in 1 .. n : g[k] = f[<<g[k - 1], k>>]
  BY <1>4 DEF Accumulates
<1>6. \A k \in 1 .. n : g[k - 1] \in Seq(T) /\ g[k] = g[k - 1] \o ss[k]
  <2> TAKE k \in 1 .. n
  <2>1. k - 1 \in 0 .. n
    BY <1>1
  <2> QED
    BY <1>3, <1>5, <2>1
<1>7. 1 \in 1 .. n => g[1] = <<>> \o ss[1] /\ ss[1] \in Seq(T)
  <2>1. 1 - 1 = 0
    OBVIOUS
  <2> QED
    BY <1>1, <1>5, <1>6, <2>1
<1>8. g[n] = FlattenSeq(ss)
  <2>1. CASE n = 0
    <3>1. ss = <<>>
      BY <2>1, EmptySeq DEF n
    <3> QED
      BY <1>5, <2>1, <3>1 DEF FlattenSeq, n
  <2>2. CASE n # 0
    <3> DEFINE h == CHOOSE x : Flattens(ss, x)
    <3>1. FlattenSeq(ss) = h[n]
      BY <2>2 DEF FlattenSeq, Flattens, n
    <3>2. Flattens(ss, h)
      <4> DEFINE x == [i \in 1 .. n |-> g[i]]
      <4>1. ASSUME NEW i \in 1 .. n
            PROVE  x[i] = IF i = 1 THEN ss[i] ELSE x[i - 1] \o ss[i]
        <5>1. CASE i = 1
          <6>1. g[1] = <<>> \o ss[1] /\ ss[1] \in Seq(T)
            BY <1>7, <5>1
          <6>2. <<>> \o ss[1] = ss[1]
            BY <6>1, ConcatEmptySeq
          <6> QED
            BY <5>1, <6>1, <6>2
        <5>2. CASE i # 1
          <6>1. i - 1 \in 1 .. n
            BY <1>1, <5>2
          <6> QED
            BY <1>6, <5>2, <6>1
        <5> QED
          BY <5>1, <5>2
      <4>2. x = [i \in 1 .. n |-> IF i = 1 THEN ss[i] ELSE x[i - 1] \o ss[i]]
        BY <4>1
      <4>3. Flattens(ss, x)
        BY <4>2 DEF Flattens, n
      <4> QED
        BY <4>3
    <3>3. \A i \in 1 .. n : h[i] = IF i = 1 THEN ss[i] ELSE h[i - 1] \o ss[i]
      <4> HIDE DEF h
      <4>1. h = [i \in 1 .. n |-> IF i = 1 THEN ss[i] ELSE h[i - 1] \o ss[i]]
        BY <3>2 DEF Flattens, n
      <4> QED
        BY <4>1
    <3> HIDE DEF h
    <3> DEFINE Good == {k \in 0 .. n : k = 0 \/ h[k] = g[k]}
    <3>4. 0 \in Good
      BY <1>1
    <3>5. ASSUME NEW k \in 1 .. n, k - 1 \in Good
          PROVE  k \in Good
      <4>1. CASE k = 1
        <5>1. g[1] = <<>> \o ss[1] /\ ss[1] \in Seq(T)
          BY <1>7, <4>1
        <5>2. <<>> \o ss[1] = ss[1]
          BY <5>1, ConcatEmptySeq
        <5> QED
          BY <3>3, <4>1, <5>1, <5>2
      <4>2. CASE k # 1
        <5>1. h[k - 1] = g[k - 1]
          BY <3>5, <4>2
        <5>2. h[k] = h[k - 1] \o ss[k]
          BY <3>3, <4>2
        <5>3. h[k] = g[k]
          BY <1>6, <5>1, <5>2
        <5>4. k \in 0 .. n
          BY <1>1
        <5> QED
          BY <5>3, <5>4
      <4> QED
        BY <4>1, <4>2
    <3>6. n \in Good
      <4> HIDE DEF Good
      <4>1. \A k \in 0 .. n : k \in Good
        BY <1>1, <3>4, <3>5, UpTo
      <4> QED
        BY <1>1, <4>1
    <3> QED
      BY <2>2, <3>1, <3>6
  <2> QED
    BY <2>1, <2>2
<1>9. OneByOne(ss, g)
  BY <1>5, <1>6, <1>8 DEF n, OneByOne
<1> QED
  BY <1>9 DEF n

LEMMA FlattenType ==
  ASSUME NEW T, NEW ss \in Seq(Seq(T))
  PROVE  FlattenSeq(ss) \in Seq(T)
<1>1. PICK g \in [0 .. Len(ss) -> Seq(T)] : OneByOne(ss, g)
  BY Flattened
<1>2. Len(ss) \in 0 .. Len(ss)
  BY LenProperties
<1> QED
  BY <1>1, <1>2 DEF OneByOne

Weighs(s, h) ==
    h = [S \in SUBSET DOMAIN s |-> IF S = {} THEN 0 ELSE 256 * h[S \ {Max(S)}] + s[Max(S)]]

(* A number is accumulated byte by byte, the most significant first.       *)
ByBytes(at, width, g) ==
    /\ g[0] = 0 /\ g[width] = Unpacked(at, width)
    /\ \A k \in 1 .. width : g[k] = 256 * g[k - 1] + buf[at + k]

LEMMA UnpackedByBytes ==
  ASSUME buf \in Seq(Byte), NEW at \in Nat, NEW width \in Nat, at + width <= Len(buf)
  PROVE  \E g \in [0 .. width -> Nat] : ByBytes(at, width, g)
<1> DEFINE s == SubSeq(buf, at + 1, at + width)
<1>1. Len(buf) \in Nat /\ \A i \in 1 .. Len(buf) : buf[i] \in Byte
  BY LenProperties, ElementOfSeq
<1>2. \A i \in at + 1 .. at + width : buf[i] \in Byte
  <2>1. \A i \in at + 1 .. at + width : i \in 1 .. Len(buf)
    BY <1>1
  <2> QED
    BY <1>1, <2>1
<1>3. /\ s \in Seq(Byte) /\ Len(s) = width /\ DOMAIN s = 1 .. width
      /\ \A k \in 1 .. width : s[k] = buf[at + k] /\ s[k] \in Nat
  <2>1. at + 1 \in Int /\ at + width \in Int
    OBVIOUS
  <2>2. /\ s \in Seq(Byte) /\ Len(s) = width
        /\ \A k \in 1 .. width : s[k] = buf[at + 1 + k - 1]
    BY <1>2, <2>1, SubSeqProperties
  <2>3. \A k \in 1 .. width : at + 1 + k - 1 = at + k
    OBVIOUS
  <2>4. DOMAIN s = 1 .. width /\ \A k \in 1 .. width : s[k] \in Byte
    BY <2>2, LenProperties, ElementOfSeq
  <2>5. \A b \in Byte : b \in Nat
    BY DEF Byte
  <2> QED
    BY <2>2, <2>3, <2>4, <2>5
<1> DEFINE h == CHOOSE x : Weighs(s, x)
<1>4. Unpacked(at, width) = h[1 .. width]
  <2>1. Unpacked(at, width) = h[DOMAIN s]
    BY DEF Unpacked, FoldLeft, MapThenFoldSet, Weighs
  <2> QED
    BY <1>3, <2>1
<1> HIDE DEF s
<1>5. Weighs(s, h)
  <2> DEFINE f == [p \in Nat \X (1 .. width) |-> 256 * p[1] + s[p[2]]]
             E == SUBSET (1 .. width)
  <2>1. \A v \in Nat, i \in 1 .. width : f[<<v, i>>] = 256 * v + s[i] /\ f[<<v, i>>] \in Nat
    BY SMTT(40), <1>3
  <2> HIDE DEF f
  <2>2. PICK x \in [SUBSET (1 .. width) -> Nat] : FoldOf(width, 0, f, x)
    BY <2>1, FoldExists
  <2>3. ASSUME NEW S \in E
        PROVE  x[S] = IF S = {} THEN 0 ELSE 256 * x[S \ {Max(S)}] + s[Max(S)]
    <3>1. CASE S = {}
      BY <2>2, <3>1 DEF FoldOf
    <3>2. CASE S # {}
      <4>1. Max(S) \in 1 .. width /\ S \ {Max(S)} \in E
        BY <3>2, MaxProperties
      <4>2. x[S] = f[<<x[S \ {Max(S)}], Max(S)>>] /\ x[S \ {Max(S)}] \in Nat
        BY <2>2, <3>2, <4>1 DEF FoldOf
      <4> QED
        BY <2>1, <3>2, <4>1, <4>2
    <3> QED
      BY <3>1, <3>2
  <2>4. x = [S \in E |-> IF S = {} THEN 0 ELSE 256 * x[S \ {Max(S)}] + s[Max(S)]]
    BY <2>3
  <2>5. Weighs(s, x)
    BY <1>3, <2>4 DEF Weighs
  <2> QED
    BY <2>5
<1> HIDE DEF h
<1>6. \A S \in SUBSET (1 .. width) :
         h[S] = IF S = {} THEN 0 ELSE 256 * h[S \ {Max(S)}] + s[Max(S)]
  BY <1>3, <1>5 DEF Weighs
<1> DEFINE g == [k \in 0 .. width |-> h[1 .. k]]
<1>7. g[0] = 0
  <2>1. 1 .. 0 = {} /\ 1 .. 0 \in SUBSET (1 .. width) /\ 0 \in 0 .. width
    OBVIOUS
  <2>2. h[1 .. 0] = 0
    BY <1>6, <2>1
  <2> QED
    BY <2>1, <2>2
<1>8. ASSUME NEW k \in 1 .. width PROVE g[k] = 256 * g[k - 1] + buf[at + k]
  <2>1. 1 .. k \in SUBSET (1 .. width) /\ 1 .. k # {}
    <3>1. k \in 1 .. k /\ \A i \in 1 .. k : i \in 1 .. width
      OBVIOUS
    <3> QED
      BY <3>1
  <2>2. Max(1 .. k) = k
    <3>1. Max(1 .. k) \in 1 .. k /\ \A x \in 1 .. k : x <= Max(1 .. k)
      BY <2>1, MaxProperties
    <3> QED
      BY <3>1
  <2>3. (1 .. k) \ {k} = 1 .. k - 1
    OBVIOUS
  <2>4. h[1 .. k] = 256 * h[1 .. k - 1] + s[k]
    BY ZenonT(40), <1>6, <2>1, <2>2, <2>3
  <2>5. k - 1 \in 0 .. width /\ k \in 0 .. width
    OBVIOUS
  <2> QED
    BY <1>3, <2>4, <2>5
<1> HIDE DEF g
<1>9. \A k \in 0 .. width : k \in {i \in 0 .. width : g[i] \in Nat}
  <2> DEFINE Good == {i \in 0 .. width : g[i] \in Nat}
  <2>1. 0 \in Good
    BY <1>7
  <2>2. ASSUME NEW k \in 1 .. width, k - 1 \in Good PROVE k \in Good
    <3>1. g[k - 1] \in Nat /\ s[k] \in Nat /\ k \in 0 .. width
      BY <1>3, <2>2
    <3>2. g[k] = 256 * g[k - 1] + buf[at + k]
      BY <1>8
    <3>3. g[k] = 256 * g[k - 1] + s[k]
      BY <1>3, <3>2
    <3>4. \A u, v \in Nat : 256 * u + v \in Nat
      OBVIOUS
    <3> QED
      BY <3>1, <3>3, <3>4
  <2> HIDE DEF Good
  <2>3. \A k \in 0 .. width : k \in Good
    BY <2>1, <2>2, UpTo
  <2> QED
    BY <2>3 DEF Good
<1>10. g \in [0 .. width -> Nat]
  <2>1. \A k \in 0 .. width : g[k] \in Nat
    BY <1>9
  <2>2. g = [k \in 0 .. width |-> g[k]]
    BY DEF g
  <2> QED
    BY <2>1, <2>2
<1>11. g[width] = Unpacked(at, width)
  BY <1>4 DEF g
<1>12. ByBytes(at, width, g)
  BY <1>7, <1>8, <1>11 DEF ByBytes
<1> QED
  BY <1>10, <1>12

LEMMA UnpackedType ==
  ASSUME buf \in Seq(Byte), NEW at \in Nat, NEW width \in Nat, at + width <= Len(buf)
  PROVE  Unpacked(at, width) \in Nat
<1>1. PICK g \in [0 .. width -> Nat] : ByBytes(at, width, g)
  BY UnpackedByBytes
<1> QED
  BY <1>1 DEF ByBytes

-----------------------------------------------------------------------------
(* Messages.  To what NameCodec does a message adds fields and the parser    *)
(* of them.                                                                *)

(* A field is what it adds to the bytes.                                   *)
LEMMA FieldIsAppended ==
  ASSUME IInv, NEW bytes, WriteField(bytes)
  PROVE  bytes = SubSeq(buf', Len(buf) + 1, Len(buf')) /\ Len(buf') = Len(buf) + Len(bytes)
<1>1. buf \in Seq(Byte) /\ bytes \in Seq(Byte) /\ buf' = buf \o bytes
  BY DEF IInv, TypeOK, WriteField, Write
<1>2. Len(buf) \in Nat /\ Len(bytes) \in Nat
  BY <1>1, LenProperties
<1>3. /\ buf' \in Seq(Byte) /\ Len(buf') = Len(buf) + Len(bytes)
      /\ \A i \in 1 .. Len(buf) + Len(bytes) :
             buf'[i] = IF i <= Len(buf) THEN buf[i] ELSE bytes[i - Len(buf)]
  BY <1>1, ConcatProperties
<1>4. \A i \in Len(buf) + 1 .. Len(buf') : buf'[i] \in Byte
  <2>1. \A i \in Len(buf) + 1 .. Len(buf') : i \in 1 .. Len(buf')
    BY <1>2, <1>3
  <2> QED
    BY <1>3, <2>1, ElementOfSeq
<1>5. Len(buf) + 1 \in Int /\ Len(buf') \in Int
  BY <1>2, <1>3
<1> DEFINE s == SubSeq(buf', Len(buf) + 1, Len(buf'))
<1>6. /\ s \in Seq(Byte)
      /\ Len(s) = IF Len(buf) + 1 <= Len(buf') THEN Len(buf') - (Len(buf) + 1) + 1 ELSE 0
      /\ \A i \in 1 .. Len(buf') - (Len(buf) + 1) + 1 : s[i] = buf'[Len(buf) + 1 + i - 1]
  BY <1>4, <1>5, SubSeqProperties
<1> HIDE DEF s
<1>7. Len(s) = Len(bytes)
  BY <1>2, <1>3, <1>6
<1>8. ASSUME NEW i \in 1 .. Len(bytes) PROVE s[i] = bytes[i]
  <2>1. /\ i \in 1 .. Len(buf') - (Len(buf) + 1) + 1
        /\ Len(buf) + 1 + i - 1 = Len(buf) + i
        /\ Len(buf) + i \in 1 .. Len(buf) + Len(bytes)
        /\ ~(Len(buf) + i <= Len(buf)) /\ Len(buf) + i - Len(buf) = i
    BY <1>2, <1>3
  <2> QED
    BY <1>3, <1>6, <2>1
<1>9. s = bytes
  BY <1>1, <1>6, <1>7, <1>8, SeqEqual
<1> QED
  BY <1>3, <1>9 DEF s

(* The bytes of a number, and the number of these bytes.                   *)
LEMMA LastByte ==
  ASSUME NEW v \in Nat
  PROVE  /\ v \div 256 \in Nat /\ v % 256 \in Nat /\ v % 256 < 256
         /\ v = 256 * (v \div 256) + (v % 256)
<1>1. v % 256 \in 0 .. 255
  OBVIOUS
<1>2. v = 256 * (v \div 256) + (v % 256)
  OBVIOUS
<1>3. v \div 256 \in Int
  OBVIOUS
<1>4. \A q \in Int, r \in 0 .. 255 : v = 256 * q + r => q \in Nat
  OBVIOUS
<1>5. v \div 256 \in Nat
  BY <1>1, <1>2, <1>3, <1>4
<1> QED
  BY ONLY <1>1, <1>2, <1>5

LEMMA PackedPair ==
  ASSUME NEW v \in Nat
  PROVE  /\ Packed(2, v) \in Seq(Byte) /\ Len(Packed(2, v)) = 2
<1>1. \A n \in Nat : n % 256 \in Byte
  BY DEF Byte
<1>2. v \div (256 ^ (2 - 1)) \in Nat /\ v \div (256 ^ (2 - 2)) \in Nat
  <2>1. 256 ^ (2 - 1) = 256 /\ 256 ^ (2 - 2) = 1
    BY SMT
  <2>2. v \div 1 = v
    BY SMT
  <2> QED
    BY <2>1, <2>2, LastByte
<1>3. Packed(2, v) \in [1 .. 2 -> Byte]
  <2>1. \A k \in 1 .. 2 : k = 1 \/ k = 2
    BY SMT
  <2> QED
    BY <1>1, <1>2, <2>1 DEF Packed
<1> DEFINE s == Packed(2, v)
<1> HIDE DEF s
<1>4. s \in Seq(Byte)
  <2>1. s \in [1 .. 2 -> Byte]
    BY <1>3 DEF s
  <2> QED
    BY <2>1, SeqDef
<1>5. DOMAIN s = 1 .. 2
  BY <1>3 DEF s
<1>6. Len(s) = 2
  BY <1>4, <1>5, LenProperties
<1> QED
  BY <1>4, <1>6 DEF s

(* What is patched in are two bytes.                                       *)
LEMMA TwoBytesOfLength ==
  ASSUME NEW v \in Nat
  PROVE  Packed(2, v) \in Byte \X Byte
<1> DEFINE s == Packed(2, v)
<1>1. s \in Seq(Byte) /\ Len(s) = 2 /\ s = <<s[1], s[2]>>
  BY PackedPair DEF Packed
<1> HIDE DEF s
<1>2. s[1] \in Byte /\ s[2] \in Byte
  BY <1>1, ElementOfSeq
<1>3. <<s[1], s[2]>> \in Byte \X Byte
  BY <1>2
<1> QED
  BY <1>1, <1>3 DEF s

-----------------------------------------------------------------------------
(* Items in order: a length is written before one is patched.              *)

(* A sequence, whatever it is of.                                          *)
Listed(s) == s \in Seq({s[i] : i \in 1 .. Len(s)})

(* No length is patched before there is one, unless there is one already.  *)
LengthsFirst(items, placed) ==
    \A q \in 1 .. Len(items) :
        items[q].kind = "patch" =>
            placed \/ \E l \in 1 .. q - 1 : items[l].kind = "length"

HasLength(items) == \E l \in 1 .. Len(items) : items[l].kind = "length"

LEMMA ListedParts ==
  ASSUME NEW s, Listed(s)
  PROVE  /\ Len(s) \in Nat /\ s \in Seq({s[i] : i \in 1 .. Len(s)})
         /\ s = <<>> <=> Len(s) = 0
BY LenProperties, EmptySeq DEF Listed

LEMMA ListedIn ==
  ASSUME NEW S, NEW s \in Seq(S)
  PROVE  Listed(s)
<1>1. Len(s) \in Nat /\ DOMAIN s = 1 .. Len(s) /\ s = [i \in 1 .. Len(s) |-> s[i]]
  BY LenProperties
<1> DEFINE n == Len(s)
           E == {s[i] : i \in 1 .. n}
<1>2. \A i \in 1 .. n : s[i] \in E
  OBVIOUS
<1> HIDE DEF E
<1>3. [i \in 1 .. n |-> s[i]] \in Seq(E)
  BY <1>1, <1>2, IsASeq
<1> QED
  BY <1>1, <1>3 DEF Listed, E

LEMMA ListedTail ==
  ASSUME NEW s, Listed(s), s # <<>>
  PROVE  /\ Head(s) = s[1] /\ Len(s) >= 1 /\ Listed(Tail(s)) /\ Len(Tail(s)) = Len(s) - 1
         /\ \A i \in 1 .. Len(s) - 1 : Tail(s)[i] = s[i + 1]
<1> DEFINE E == {s[i] : i \in 1 .. Len(s)}
<1>1. s \in Seq(E) /\ Len(s) \in Nat /\ Len(s) # 0
  BY ListedParts
<1> HIDE DEF E
<1>2. Tail(s) \in Seq(E) /\ Len(Tail(s)) = Len(s) - 1
      /\ \A i \in 1 .. Len(Tail(s)) : Tail(s)[i] = s[i+1]
  BY <1>1, HeadTailProperties
<1>3. Head(s) = s[1]
  BY <1>1
<1>4. Listed(Tail(s))
  BY <1>2, ListedIn
<1>5. Len(s) >= 1
  BY <1>1
<1>6. \A i \in 1 .. Len(s) - 1 : Tail(s)[i] = s[i + 1]
  BY <1>2
<1> QED
  BY ONLY <1>2, <1>3, <1>4, <1>5, <1>6

LEMMA ListedConcat ==
  ASSUME NEW s, Listed(s), NEW t, Listed(t)
  PROVE  /\ Listed(s \o t) /\ Len(s \o t) = Len(s) + Len(t)
         /\ \A i \in 1 .. Len(s) + Len(t) :
                (s \o t)[i] = IF i <= Len(s) THEN s[i] ELSE t[i - Len(s)]
<1> DEFINE A == {s[i] : i \in 1 .. Len(s)}
           B == {t[i] : i \in 1 .. Len(t)}
<1>1. s \in Seq(A) /\ t \in Seq(B)
  BY ListedParts
<1> HIDE DEF A, B
<1>2. s \in Seq(A \cup B) /\ t \in Seq(A \cup B)
  <2>1. \A X, Y, u : u \in Seq(X) /\ X \subseteq Y => u \in Seq(Y)
    OBVIOUS
  <2> QED
    BY <1>1, <2>1
<1> QED
  BY <1>2, ConcatProperties, ListedIn

LEMMA AppendListed ==
  ASSUME NEW s, Listed(s), NEW e
  PROVE  Append(s, e) = s \o <<e>> /\ Listed(<<e>>) /\ Len(<<e>>) = 1 /\ <<e>>[1] = e
<1> DEFINE A == {s[i] : i \in 1 .. Len(s)} \cup {e}
<1>1. s \in Seq(A) /\ e \in A
  <2>1. s \in Seq({s[i] : i \in 1 .. Len(s)})
    BY DEF Listed
  <2> DEFINE B == {s[i] : i \in 1 .. Len(s)}
  <2> HIDE DEF B
  <2>2. \A X, Y, u : u \in Seq(X) /\ X \subseteq Y => u \in Seq(Y)
    OBVIOUS
  <2>3. s \in Seq(B \cup {e})
    BY <2>1, <2>2 DEF B
  <2> QED
    BY <2>3 DEF B
<1> HIDE DEF A
<1>2. Append(s, e) = s \o <<e>>
  BY <1>1, AppendIsConcat
<1>3. <<e>> \in Seq({e}) /\ Len(<<e>>) = 1 /\ <<e>>[1] = e
  OBVIOUS
<1> QED
  BY <1>2, <1>3, ListedIn

LEMMA NothingListed == Listed(<<>>) /\ Len(<<>>) = 0 /\ LengthsFirst(<<>>, FALSE)
<1>1. <<>> \in Seq({}) /\ Len(<<>>) = 0
  OBVIOUS
<1>2. Listed(<<>>)
  BY <1>1, ListedIn
<1> QED
  BY <1>1, <1>2 DEF LengthsFirst

(* An item is written.                                                     *)
LEMMA LengthsFirstTail ==
  ASSUME NEW s, Listed(s), s # <<>>, NEW placed \in BOOLEAN, LengthsFirst(s, placed),
         NEW afterwards \in BOOLEAN, placed \/ s[1].kind = "length" => afterwards
  PROVE  LengthsFirst(Tail(s), afterwards)
<1>1. Len(s) \in Nat /\ Len(Tail(s)) = Len(s) - 1 /\ \A i \in 1 .. Len(s) - 1 : Tail(s)[i] = s[i + 1]
  BY ListedTail, ListedParts
<1> SUFFICES ASSUME NEW q \in 1 .. Len(Tail(s)), Tail(s)[q].kind = "patch", ~afterwards
             PROVE  \E l \in 1 .. q - 1 : Tail(s)[l].kind = "length"
  BY DEF LengthsFirst
<1>2. q + 1 \in 1 .. Len(s) /\ s[q + 1].kind = "patch"
  BY <1>1
<1>3. PICK l \in 1 .. q + 1 - 1 : s[l].kind = "length"
  BY <1>2 DEF LengthsFirst
<1>4. l # 1
  BY <1>3
<1>5. l - 1 \in 1 .. q - 1 /\ l - 1 \in 1 .. Len(s) - 1 /\ l - 1 + 1 = l
  BY <1>1, <1>2, <1>3, <1>4
<1> QED
  BY <1>1, <1>3, <1>5

(* Items are parsed.                                                       *)
LEMMA LengthsFirstConcat ==
  ASSUME NEW s, Listed(s), LengthsFirst(s, FALSE), NEW t, Listed(t),
         \A q \in 1 .. Len(t) : t[q].kind = "patch" => HasLength(s)
  PROVE  /\ LengthsFirst(s \o t, FALSE)
         /\ HasLength(s) \/ HasLength(t) => HasLength(s \o t)
<1>1. /\ Len(s) \in Nat /\ Len(t) \in Nat /\ Len(s \o t) = Len(s) + Len(t)
      /\ \A i \in 1 .. Len(s) + Len(t) :
                (s \o t)[i] = IF i <= Len(s) THEN s[i] ELSE t[i - Len(s)]
  BY ListedParts, ListedConcat
<1> DEFINE u == s \o t
           m == Len(s)
           n == Len(t)
<1>2. /\ m \in Nat /\ n \in Nat /\ Len(u) = m + n
      /\ \A i \in 1 .. m : i \in 1 .. m + n /\ u[i] = s[i]
      /\ \A i \in 1 .. n : m + i \in 1 .. m + n /\ u[m + i] = t[i]
  BY <1>1
<1> HIDE DEF u
<1>3. ASSUME NEW q \in 1 .. m + n, u[q].kind = "patch"
      PROVE  \E l \in 1 .. q - 1 : u[l].kind = "length"
  <2>1. CASE q <= m
    <3>1. q \in 1 .. m /\ s[q].kind = "patch"
      BY <1>2, <1>3, <2>1
    <3>2. PICK l \in 1 .. q - 1 : s[l].kind = "length"
      BY <3>1 DEF LengthsFirst
    <3>3. l \in 1 .. m
      BY <3>1, <3>2, <1>2
    <3> QED
      BY <1>2, <3>2, <3>3
  <2>2. CASE ~(q <= m)
    <3>1. q - m \in 1 .. n /\ m + (q - m) = q
      BY <1>2, <2>2
    <3>2. HasLength(s)
      BY <1>2, <1>3, <3>1
    <3>3. PICK l \in 1 .. m : s[l].kind = "length"
      BY <3>2 DEF HasLength
    <3>4. l \in 1 .. q - 1
      BY <1>2, <2>2
    <3> QED
      BY <1>2, <3>3, <3>4
  <2> QED
    BY <2>1, <2>2, <1>2
<1>4. LengthsFirst(u, FALSE)
  BY <1>2, <1>3 DEF LengthsFirst
<1>5. HasLength(s) \/ HasLength(t) => HasLength(u)
  BY <1>2 DEF HasLength
<1> QED
  BY <1>4, <1>5 DEF u

(* What the parser may expect behind the header.                           *)
Expectation ==
    [kind : {"name", "record", "chunks", "end"}]
        \cup [kind : {"number", "bytes"}, width : Nat]

(* The header comes first, and nothing is parsed before it.                *)
Asked == (expect = Expected /\ got = <<>>) \/ expect \in Seq(Expectation)

(* A name is only read where one is expected.                              *)
AskedName == op = "busy" => expect # <<>> /\ Head(expect).kind = "name"

EndsAsked == \E i \in 1 .. Len(expect) : expect[i].kind = "end"

(* The place of the last length belongs to a field.                        *)
HolePlain == hole \in plain /\ hole + 1 \in plain

(* What is still to be written patches no length before there is one, and  *)
(* so it is with what has been read: it may have to be passed on.          *)
Ordered ==
    /\ stage = "writing" => Listed(script) /\ LengthsFirst(script, HolePlain)
    /\ stage \in {"reading", "given"} => Listed(got)
    /\ stage = "given" => LengthsFirst(got, FALSE) /\ (EndsAsked => HasLength(got))

CodecInv ==
    /\ IInv
    /\ cursor \in Nat /\ limit \in Nat /\ hole \in 0 .. Len(buf)
    /\ refused \in BOOLEAN
    /\ Asked /\ AskedName
    /\ Ordered

(* An overwriting is what it leaves at the two offsets.                    *)
LEMMA OverwrittenBytes ==
  ASSUME IInv, NEW at, NEW bytes, Refill(at, bytes)
  PROVE  /\ at \in plain /\ bytes = <<buf'[at + 1], buf'[at + 2]>>
         /\ Len(buf') = Len(buf)
<1>1. /\ {at, at + 1} \subseteq plain /\ bytes \in Byte \X Byte
      /\ buf' = [buf EXCEPT ![at + 1] = bytes[1], ![at + 2] = bytes[2]]
  BY DEF Refill, Overwrite
<1>2. /\ buf \in Seq(Byte) /\ plain \subseteq 0 .. Len(buf) - 1
      /\ Len(buf) \in Nat /\ DOMAIN buf = 1 .. Len(buf)
  BY LenProperties DEF IInv, TypeOK, Bookkeeping
<1>3. at + 1 \in DOMAIN buf /\ at + 2 \in DOMAIN buf /\ at \in Nat
  <2>1. at \in 0 .. Len(buf) - 1 /\ at + 1 \in 0 .. Len(buf) - 1
    BY <1>1, <1>2
  <2>2. \A n \in Nat : \A o \in 0 .. n - 1 : o + 1 \in 0 .. n - 1 =>
            o + 1 \in 1 .. n /\ o + 2 \in 1 .. n /\ o \in Nat
    OBVIOUS
  <2> QED
    BY <1>2, <2>1, <2>2
<1>4. buf'[at + 1] = bytes[1] /\ buf'[at + 2] = bytes[2]
  BY <1>1, <1>2, <1>3
<1>5. bytes = <<bytes[1], bytes[2]>>
  BY <1>1
<1>6. Len(buf') = Len(buf)
  <2>1. bytes[1] \in Byte /\ bytes[2] \in Byte
    BY <1>1
  <2>2. DOMAIN buf' = DOMAIN buf /\ buf' \in Seq(Byte)
    <3> DEFINE b1 == [buf EXCEPT ![at + 1] = bytes[1]]
    <3>1. b1 \in Seq(Byte) /\ Len(b1) = Len(buf) /\ DOMAIN b1 = DOMAIN buf
      BY <1>2, <1>3, <2>1, ExceptSeq, LenProperties
    <3>2. buf' = [b1 EXCEPT ![at + 2] = bytes[2]]
      BY <1>1
    <3> HIDE DEF b1
    <3>3. buf' \in Seq(Byte) /\ Len(buf') = Len(b1)
      BY <1>2, <1>3, <2>1, <3>1, <3>2, ExceptSeq, LenProperties
    <3> QED
      BY <3>1, <3>3, LenProperties
  <2> QED
    BY <1>2, <2>2, LenProperties
<1> QED
  BY <1>1, <1>4, <1>5, <1>6

(* Where a length is patched in, one has been written, and nothing else.   *)
LEMMA PatchIsRefill ==
  ASSUME CodecInv, PatchLength
  PROVE  HolePlain /\ Refill(hole, Packed(2, Len(buf) - (hole + 2)))
<1>1. /\ stage = "writing" /\ script # <<>> /\ Head(script).kind = "patch"
      /\ Overwrite(hole, Packed(2, Len(buf) - (hole + 2)))
  BY DEF PatchLength, Composing
<1>2. Listed(script) /\ LengthsFirst(script, HolePlain)
  BY <1>1 DEF CodecInv, Ordered
<1>3. 1 \in 1 .. Len(script) /\ script[1].kind = "patch"
  <2>1. Head(script) = script[1] /\ Len(script) >= 1 /\ Len(script) \in Nat
    BY <1>1, <1>2, ListedTail, ListedParts
  <2> QED
    BY <1>1, <2>1
<1>4. HolePlain
  <2>1. ~ \E l \in 1 .. 1 - 1 : script[l].kind = "length"
    OBVIOUS
  <2> QED
    BY <1>2, <1>3, <2>1 DEF LengthsFirst
<1>5. Len(buf) - (hole + 2) \in Nat
  <2>1. Len(buf) \in Nat /\ plain \subseteq 0 .. Len(buf) - 1
    BY LenProperties DEF CodecInv, IInv, TypeOK, Bookkeeping
  <2>2. hole \in 0 .. Len(buf) - 1 /\ hole + 1 \in 0 .. Len(buf) - 1
    BY <1>4, <2>1 DEF HolePlain
  <2> QED
    BY <2>1, <2>2
<1>6. Packed(2, Len(buf) - (hole + 2)) \in Byte \X Byte
  BY <1>5, TwoBytesOfLength
<1>7. {hole, hole + 1} \subseteq plain
  BY <1>4 DEF HolePlain
<1> QED
  BY <1>1, <1>4, <1>6, <1>7 DEF Refill

(* What a step of a message is to its names.                               *)
LEMMA NameSteps ==
  ASSUME CodecInv, [MessageNext]_vars
  PROVE  [Next]_nameVars
<1> DEFINE Stutter == UNCHANGED nameVars
<1>0. IInv /\ cursor \in Nat
  BY DEF CodecInv
<1>1. CASE PutField
  <2>1. WriteField(Encoded(Head(script)))
    BY <1>1 DEF PutField
  <2>2. WriteField(SubSeq(buf', Len(buf) + 1, Len(buf')))
    <3> HIDE DEF Stutter
    <3>1. PICK bytes : bytes = Encoded(Head(script))
      OBVIOUS
    <3>2. WriteField(bytes)
      BY <2>1, <3>1
    <3>3. bytes = SubSeq(buf', Len(buf) + 1, Len(buf'))
      BY <1>0, <3>2, FieldIsAppended
    <3> QED
      BY <3>2, <3>3
  <2> QED
    BY <2>2 DEF Next
<1>2. CASE PutName
  <2>1. BeginName(Head(script).labels)
    BY <1>2 DEF PutName
  <2>2. naming' = Head(script).labels
    BY <2>1 DEF BeginName
  <2>3. BeginName(naming')
    BY <2>1, <2>2
  <2> QED
    BY <2>3 DEF Next
<1>3. CASE PatchLength
  <2>1. PICK bytes : Refill(hole, bytes)
    BY <1>3, PatchIsRefill
  <2>2. hole \in plain /\ bytes = <<buf'[hole + 1], buf'[hole + 2]>>
    BY <1>0, <2>1, OverwrittenBytes
  <2>3. \E at \in plain : Refill(at, <<buf'[at + 1], buf'[at + 2]>>)
    BY <2>1, <2>2
  <2> QED
    BY <2>3 DEF Next
<1>4. CASE Deliver \/ Relay \/ WriteName
  BY <1>4 DEF Deliver, Relay, Next
<1>5. CASE ParseHeader \/ ParseNumber \/ ParseBytes \/ ParseRecord \/ ParseChunk
           \/ NoMoreChunks \/ ParseEnd \/ ParseFails
  BY <1>5 DEF ParseHeader, ParseNumber, ParseBytes, ParseRecord, ParseChunk,
              NoMoreChunks, ParseEnd, ParseFails, Take, Stutter
<1>6. CASE ParseName
  <2>1. cursor \in 0 .. Len(buf)
    <3>1. Len(buf) \in Nat
      BY <1>0, LenProperties DEF IInv, TypeOK
    <3> QED
      BY <1>0, <1>6, <3>1 DEF ParseName, Within
  <2> QED
    BY <1>6, <2>1 DEF ParseName, Next
<1>7. CASE NameParsed
  BY <1>7 DEF NameParsed, Next, ReadName
<1>8. CASE Follow \/ Collect \/ Raise
  BY <1>8 DEF Next, ReadName
<1>9. CASE Over \/ UNCHANGED vars
  BY <1>9 DEF Over, vars, Stutter
<1> QED
  BY <1>1, <1>2, <1>3, <1>4, <1>5, <1>6, <1>7, <1>8, <1>9
  DEF MessageNext, Compose, Parse

LEMMA ExpectationType ==
  /\ \A kind \in {"name", "record", "chunks", "end"} : Expect(kind) \in Expectation
  /\ \A kind \in {"number", "bytes"}, width \in Nat : ExpectWide(kind, width) \in Expectation
BY DEF Expectation, Expect, ExpectWide

LEMMA WidthType ==
  ASSUME NEW e \in Expectation, e.kind \in {"number", "bytes"}
  PROVE  e.width \in Nat
BY DEF Expectation

LEMMA RepeatType ==
  ASSUME NEW T, NEW n \in Nat, NEW what \in Seq(T)
  PROVE  Repeat(n, what) \in Seq(T)
<1>1. [i \in 1 .. n |-> what] \in Seq(Seq(T))
  BY IsASeq
<1> QED
  BY <1>1, FlattenType DEF Repeat

LEMMA ShapeType ==
  ASSUME NEW rtype \in Nat, NEW rdlength \in Nat
  PROVE  Shape(rtype, rdlength) \in Seq(Expectation)
<1>1. /\ Expect("name") \in Expectation /\ Expect("chunks") \in Expectation
      /\ \A width \in Nat : ExpectWide("bytes", width) \in Expectation
      /\ \A width \in Nat : ExpectWide("number", width) \in Expectation
  BY ExpectationType
<1> HIDE DEF Expectation, Expect, ExpectWide
<1>2. \A x \in Expectation : <<x>> \in Seq(Expectation)
  OBVIOUS
<1>3. \A x, y \in Expectation : <<x, y>> \in Seq(Expectation)
  OBVIOUS
<1>4. [i \in 1 .. 5 |-> ExpectWide("number", 4)] \in Seq(Expectation)
  BY <1>1, IsASeq
<1>5. <<Expect("name"), Expect("name")>> \o [i \in 1 .. 5 |-> ExpectWide("number", 4)]
          \in Seq(Expectation)
  BY <1>1, <1>3, <1>4, ConcatProperties
<1> QED
  BY <1>1, <1>2, <1>3, <1>5 DEF Shape

(* The tail of what is expected.                                           *)
LEMMA ExpectTail ==
  ASSUME expect \in Seq(Expectation), expect # <<>>
  PROVE  Head(expect) \in Expectation /\ Tail(expect) \in Seq(Expectation)
BY HeadTailProperties

LEMMA EndsInTail ==
  ASSUME expect \in Seq(Expectation), expect # <<>>, expect' = Tail(expect)
  PROVE  EndsAsked' => EndsAsked
<1>1. /\ Len(expect) \in Nat /\ Len(Tail(expect)) = Len(expect) - 1
      /\ \A i \in 1 .. Len(Tail(expect)) : Tail(expect)[i] = expect[i + 1]
  BY HeadTailProperties, LenProperties
<1>2. \A i \in 1 .. Len(Tail(expect)) : i + 1 \in 1 .. Len(expect)
  BY <1>1
<1> QED
  BY <1>1, <1>2 DEF EndsAsked

LEMMA CodecInit == MessageInit => CodecInv
<1> SUFFICES ASSUME MessageInit PROVE CodecInv
  OBVIOUS
<1>1. IInv
  BY InitIsOK DEF MessageInit
<1>2. Len(buf) \in Nat
  BY <1>1, LenProperties DEF IInv, TypeOK
<1>3. /\ hole = 0 /\ cursor = 0 /\ limit = 0 /\ got = <<>> /\ refused = FALSE
      /\ expect = <<>> \/ expect = Expected
  BY DEF MessageInit
<1>4. Asked /\ AskedName
  <2>1. op = "ready"
    BY DEF MessageInit, Init
  <2> QED
    BY <1>3, <2>1, EmptySeq DEF Asked, AskedName
<1>5. hole \in 0 .. Len(buf)
  BY <1>2, <1>3
<1>6. Ordered
  <2>1. CASE stage = "writing"
    <3>1. script \in Messages
      BY <2>1 DEF MessageInit
    <3>2. InOrder(script)
      BY <3>1, MessagesInOrder
    <3>3. Listed(script) /\ LengthsFirst(script, HolePlain)
      BY <3>2 DEF InOrder, Listed, LengthsFirst
    <3> QED
      BY <2>1, <3>3 DEF Ordered
  <2>2. CASE stage = "given"
    <3>1. Listed(got) /\ LengthsFirst(got, FALSE)
      BY <1>3, NothingListed
    <3>2. ~EndsAsked
      <4>1. Len(Expected) = 1 /\ Expected[1].kind = "header"
        BY DEF Expected
      <4>2. expect = Expected
        BY <2>2 DEF MessageInit
      <4>3. Len(expect) = 1 /\ expect[1].kind = "header"
        BY <4>1, <4>2
      <4>4. ASSUME NEW i \in 1 .. Len(expect)  PROVE expect[i].kind = "header"
        <5>1. i = 1
          BY <4>3
        <5> QED
          BY <4>3, <5>1
      <4> QED
        BY <4>4 DEF EndsAsked
    <3> QED
      BY <2>2, <3>1, <3>2 DEF Ordered
  <2> QED
    BY <2>1, <2>2 DEF MessageInit, Init
<1> QED
  BY <1>1, <1>3, <1>4, <1>5, <1>6 DEF CodecInv

(* Where a step of the parser that reads no name leaves it.                *)
LEMMA TakenType ==
  ASSUME CodecInv, NEW items, NEW to \in Nat, Take(items, to)
  PROVE  /\ cursor' \in Nat /\ hole' \in 0 .. Len(buf') /\ refused' \in BOOLEAN
         /\ to <= Len(buf) /\ buf \in Seq(Byte)
BY DEF CodecInv, IInv, TypeOK, Take, nameVars, scriptVars

LEMMA HoleKept ==
  ASSUME CodecInv, UNCHANGED <<nameVars, scriptVars>>
  PROVE  hole' \in 0 .. Len(buf')
BY DEF CodecInv, nameVars, scriptVars

(* What a step of write_name adds to the bytes.                            *)
LEMMA NameIsAppended ==
  ASSUME IInv, WriteName
  PROVE  \E bytes \in Seq(Byte) : buf' = buf \o bytes
<1>1. buf \in Seq(Byte) /\ naming \in Seq(Label) \cup {Nothing} /\ TableOK /\ Bookkeeping
  BY DEF IInv, TypeOK
<1>2. CASE PointBack
  <2>1. /\ Key(naming) \in DOMAIN offsets
        /\ buf' = buf \o Pointer(offsets[Key(naming)])
    BY <1>2 DEF PointBack, Known, Write
  <2>2. offsets[Key(naming)] \in Nat /\ offsets[Key(naming)] < OffsetSpace
    BY <1>1, <2>1 DEF TableOK, Bookkeeping
  <2>3. Pointer(offsets[Key(naming)]) \in Seq(Byte)
    BY <2>2, PointerProperties
  <2> QED
    BY <2>1, <2>3
<1>3. CASE WriteLabel
  <2>1. /\ naming \in Seq(Label) /\ naming # <<>> /\ Writable(naming[1])
        /\ buf' = buf \o (<<Len(naming[1])>> \o naming[1])
    BY <1>1, <1>3 DEF WriteLabel, Naming, Write
  <2>2. naming[1] \in Label
    BY <2>1, KeyOfTail
  <2>3. <<Len(naming[1])>> \o naming[1] \in Seq(Byte)
    BY <2>1, <2>2, LabelBytes
  <2> QED
    BY <2>1, <2>3
<1>4. CASE Refuse
  <2>1. buf' = buf
    BY <1>4 DEF Refuse
  <2> QED
    BY <1>1, <2>1, EmptySeq, ConcatEmptySeq
<1>5. CASE WriteRoot
  <2>1. buf' = buf \o <<0>>
    BY <1>5 DEF WriteRoot, Write
  <2>2. <<0>> \in Seq(Byte)
    BY DEF Byte
  <2> QED
    BY <2>1, <2>2
<1> QED
  BY <1>2, <1>3, <1>4, <1>5 DEF WriteName

(* read_name is only under way where a name comes next.                    *)
LEMMA NameAsked == CodecInv /\ [MessageNext]_vars => AskedName'
<1> SUFFICES ASSUME CodecInv, [MessageNext]_vars, op' = "busy"
             PROVE  (expect # <<>> /\ Head(expect).kind = "name")'
  BY DEF AskedName
<1>1. AskedName /\ (stage \in {"writing", "lost"} => op = "ready")
  BY DEF CodecInv, IInv, Bookkeeping
<1>2. CASE op = "busy" /\ UNCHANGED expect
  BY <1>1, <1>2 DEF AskedName
<1>3. CASE ParseName
  BY <1>3 DEF ParseName, Expects, Parsing, parseVars
<1>4. CASE PutField \/ PutName \/ PatchLength \/ Deliver \/ WriteName
  <2>1. stage = "writing"
    BY <1>4 DEF PutField, PutName, PatchLength, Composing, Deliver, Seal, WriteName, PointBack,
                WriteLabel, Refuse, WriteRoot, Naming
  <2>2. op' = op
    BY <1>4 DEF PutField, WriteField, PutName, BeginName, PatchLength, Overwrite, Deliver,
                Seal, WriteName, PointBack, WriteLabel, Refuse, WriteRoot, EndName, readerVars
  <2> QED
    BY <1>1, <2>1, <2>2
<1>5. CASE Relay
  BY <1>5 DEF Relay, Renew
<1>6. CASE ParseHeader \/ ParseNumber \/ ParseBytes \/ ParseRecord \/ ParseChunk
           \/ NoMoreChunks \/ ParseEnd \/ ParseFails
  <2>1. op \in {"ready", "done"}
    BY <1>6 DEF ParseHeader, ParseNumber, ParseBytes, ParseRecord, ParseChunk,
                NoMoreChunks, ParseEnd, ParseFails, Expects, Parsing
  <2>2. op' = op
    BY <1>6 DEF ParseHeader, ParseNumber, ParseBytes, ParseRecord, ParseChunk,
                NoMoreChunks, ParseEnd, ParseFails, Take, nameVars
  <2> QED
    BY <2>1, <2>2
<1>7. CASE NameParsed
  BY <1>7 DEF NameParsed, Return
<1>8. CASE (Follow \/ Collect \/ Raise) /\ UNCHANGED <<scriptVars, parseVars>>
  <2>1. op = "busy" /\ UNCHANGED expect
    BY <1>8 DEF Follow, Collect, Raise, Iterate, parseVars
  <2> QED
    BY <1>2, <2>1
<1>9. CASE Over \/ UNCHANGED vars
  <2>1. UNCHANGED <<op, expect>>
    BY <1>9 DEF Over, vars, nameVars, parseVars
  <2> QED
    BY <1>2, <2>1
<1> QED
  BY <1>3, <1>4, <1>5, <1>6, <1>7, <1>8, <1>9 DEF MessageNext, Compose, Parse

(* What the parser expects behind a header.                                *)
LEMMA HeaderAsks ==
  ASSUME CodecInv, ParseHeader
  PROVE  got = <<>> /\ expect' \in Seq({e \in Expectation : e.kind # "end"})
<1> DEFINE counts == [i \in 1 .. 4 |-> Unpacked(cursor + 2 + 2 * i, 2)]
           items == <<[kind |-> "header", header |-> HeaderAt(cursor), counts |-> counts]>>
           T == {e \in Expectation : e.kind # "end"}
<1>1. /\ Take(items, cursor + 12) /\ expect # <<>> /\ Head(expect).kind = "header"
  BY DEF ParseHeader, Expects, Parsing
<1>2. got' = got \o items /\ cursor + 12 <= Len(buf)
  BY <1>1 DEF Take
<1> HIDE DEF items
<1>3. buf \in Seq(Byte) /\ Len(buf) \in Nat /\ cursor \in Nat /\ Asked
  BY LenProperties DEF CodecInv, IInv, TypeOK
<1>4. \A i \in 1 .. 4 : counts[i] \in Nat
  <2>1. \A i \in 1 .. 4 : /\ cursor + 2 + 2 * i \in Nat
                          /\ cursor + 2 + 2 * i + 2 <= Len(buf)
    BY <1>2, <1>3
  <2>2. \A i \in 1 .. 4 : Unpacked(cursor + 2 + 2 * i, 2) \in Nat
    BY <1>3, <2>1, UnpackedType
  <2> QED
    BY <2>2
<1>5. got = <<>>
  <2>1. CASE expect \in Seq(Expectation)
    <3>1. Head(expect) \in Expectation
      BY <1>1, <2>1, ExpectTail
    <3> QED
      BY <1>1, <3>1 DEF Expectation
  <2> QED
    BY <1>3, <2>1 DEF Asked
<1>6. got'[1].counts = counts
  <2>1. <<>> \o items = items
    <3>1. items \in Seq({items[1]})
      BY DEF items
    <3> QED
      BY <3>1, ConcatEmptySeq
  <2> HIDE DEF counts
  <2> QED
    BY <1>2, <1>5, <2>1 DEF items
<1> DEFINE w1 == <<Expect("name"), ExpectWide("number", 2), ExpectWide("number", 2)>>
           w2 == <<Expect("name"), Expect("record")>>
<1>7. expect' = Repeat(counts[1], w1) \o Repeat(counts[2] + counts[3] + counts[4], w2)
  BY <1>6 DEF ParseHeader
<1>8. w1 \in Seq(T) /\ w2 \in Seq(T)
  <2>1. Expect("name") \in T /\ Expect("record") \in T /\ ExpectWide("number", 2) \in T
    BY ExpectationType DEF Expect, ExpectWide
  <2> HIDE DEF T
  <2>2. \A x, y \in T : <<x, y>> \in Seq(T) /\ <<x, y, y>> \in Seq(T)
    OBVIOUS
  <2> QED
    BY <2>1, <2>2
<1> HIDE DEF counts, T, w1, w2
<1>9. counts[1] \in Nat /\ counts[2] + counts[3] + counts[4] \in Nat
  BY <1>4
<1>10. expect' \in Seq(T)
  BY <1>7, <1>8, <1>9, RepeatType, ConcatProperties
<1> QED
  BY <1>5, <1>10 DEF T

(* Items are parsed: the patch that ends a record comes behind a length.   *)
Grows ==
    \E t : /\ Listed(t) /\ got' = got \o t
           /\ \A q \in 1 .. Len(t) : t[q].kind = "patch" => EndsAsked
           /\ EndsAsked' => EndsAsked \/ HasLength(t)

LEMMA FieldGrows ==
  ASSUME CodecInv, Parsing, Head(expect).kind \in {"number", "bytes"},
         expect' = Tail(expect), NEW e, NEW to, Take(<<e>>, to), e.kind # "patch"
  PROVE  Grows
<1>1. expect # <<>> /\ got' = got \o <<e>>
  BY DEF Parsing, Take
<1>2. expect \in Seq(Expectation)
  BY DEF Expected, CodecInv, Asked
<1>3. Listed(<<e>>) /\ Len(<<e>>) = 1 /\ <<e>>[1] = e
  <2>1. <<e>> \in Seq({e})
    OBVIOUS
  <2> QED
    BY <2>1, ListedIn
<1>4. EndsAsked' => EndsAsked
  BY <1>1, <1>2, EndsInTail
<1>5. \A q \in 1 .. Len(<<e>>) : <<e>>[q].kind # "patch"
  BY <1>3
<1> QED
  BY <1>1, <1>3, <1>4, <1>5 DEF Grows

LEMMA NumberGrows == ASSUME CodecInv, ParseNumber PROVE Grows
<1> DEFINE e == Number(Head(expect).width, Unpacked(cursor, Head(expect).width))
<1>1. /\ Parsing /\ Head(expect).kind = "number" /\ expect' = Tail(expect)
      /\ Take(<<e>>, cursor + Head(expect).width) /\ e.kind # "patch"
  BY DEF ParseNumber, Expects, Number
<1> HIDE DEF e
<1> QED
  BY <1>1, FieldGrows

LEMMA BytesGrow == ASSUME CodecInv, ParseBytes PROVE Grows
<1> DEFINE e == Bytes(SubSeq(buf, cursor + 1, cursor + Head(expect).width))
<1>1. /\ Parsing /\ Head(expect).kind = "bytes" /\ expect' = Tail(expect)
      /\ Take(<<e>>, cursor + Head(expect).width) /\ e.kind # "patch"
  BY DEF ParseBytes, Expects, Bytes
<1> HIDE DEF e
<1> QED
  BY <1>1, FieldGrows

LEMMA HeaderGrows == ASSUME CodecInv, ParseHeader PROVE Grows
<1> DEFINE item == [kind |-> "header", header |-> HeaderAt(cursor),
                    counts |-> [i \in 1 .. 4 |-> Unpacked(cursor + 2 + 2 * i, 2)]]
<1>1. got' = got \o <<item>> /\ item.kind = "header"
  BY DEF ParseHeader, Take
<1> HIDE DEF item
<1>2. Listed(<<item>>) /\ <<item>>[1] = item /\ Len(<<item>>) = 1
  <2>1. <<item>> \in Seq({item}) /\ <<item>>[1] = item /\ Len(<<item>>) = 1
    OBVIOUS
  <2> QED
    BY <2>1, ListedIn
<1>3. \A q \in 1 .. Len(<<item>>) : <<item>>[q].kind # "patch"
  BY <1>1, <1>2
<1>4. ~EndsAsked'
  <2> DEFINE T == {e \in Expectation : e.kind # "end"}
  <2>1. expect' \in Seq(T)
    BY HeaderAsks
  <2> HIDE DEF T
  <2>2. \A i \in 1 .. Len(expect') : expect'[i] \in T
    BY <2>1, ElementOfSeq
  <2> QED
    BY <2>2 DEF T, EndsAsked
<1> QED
  BY <1>1, <1>2, <1>3, <1>4 DEF Grows

LEMMA RecordGrows == ASSUME CodecInv, ParseRecord PROVE Grows
<1> DEFINE a == Number(2, Unpacked(cursor, 2))
           b == Number(2, Unpacked(cursor + 2, 2))
           c == Number(4, Unpacked(cursor + 4, 4))
           t == <<a, b, c, LengthItem>>
<1>1. got' = got \o t
  BY DEF ParseRecord, Take
<1>2. a.kind = "number" /\ b.kind = "number" /\ c.kind = "number" /\ LengthItem.kind = "length"
  BY DEF Number, LengthItem
<1>3. t \in Seq({a, b, c, LengthItem}) /\ Len(t) = 4 /\ t[4] = LengthItem
      /\ t[1] = a /\ t[2] = b /\ t[3] = c
  <2> HIDE DEF a, b, c
  <2> QED
    OBVIOUS
<1> HIDE DEF a, b, c, t
<1>4. Listed(t)
  BY <1>3, ListedIn
<1>5. HasLength(t) /\ \A q \in 1 .. Len(t) : t[q].kind # "patch"
  <2>1. 4 \in 1 .. Len(t) /\ \A q \in 1 .. Len(t) : q = 1 \/ q = 2 \/ q = 3 \/ q = 4
    BY <1>3
  <2> QED
    BY <1>2, <1>3, <2>1 DEF HasLength
<1> QED
  BY <1>1, <1>4, <1>5 DEF Grows

LEMMA ChunkGrows == ASSUME CodecInv, ParseChunk PROVE Grows
<1> DEFINE a == Number(1, At(cursor))
           b == Bytes(SubSeq(buf, cursor + 2, cursor + 1 + At(cursor)))
           t == <<a, b>>
<1>1. got' = got \o t /\ expect' = expect
  BY DEF ParseChunk, Take
<1>2. a.kind = "number" /\ b.kind = "bytes"
  BY DEF Number, Bytes
<1>3. t \in Seq({a, b}) /\ Len(t) = 2 /\ t[1] = a /\ t[2] = b
  <2> HIDE DEF a, b
  <2> QED
    OBVIOUS
<1>4. EndsAsked' <=> EndsAsked
  BY <1>1 DEF EndsAsked
<1> HIDE DEF a, b, t
<1>5. Listed(t)
  BY <1>3, ListedIn
<1>6. \A q \in 1 .. Len(t) : t[q].kind # "patch"
  <2>1. \A q \in 1 .. Len(t) : q = 1 \/ q = 2
    BY <1>3
  <2> QED
    BY <1>2, <1>3, <2>1
<1> QED
  BY <1>1, <1>4, <1>5, <1>6 DEF Grows

LEMMA ReadListed ==
  ASSUME CodecInv, stage \in {"reading", "given"}
  PROVE  Listed(got)
BY DEF CodecInv, Ordered

LEMMA NoMoreChunksGrows == ASSUME CodecInv, NoMoreChunks PROVE Grows
<1>1. /\ stage \in {"reading", "given"} /\ Head(expect).kind = "chunks"
      /\ expect # <<>> /\ got' = got /\ expect' = Tail(expect)
  BY DEF NoMoreChunks, Expects, Parsing
<1>2. EndsAsked' => EndsAsked
  <2>1. expect # Expected
    BY <1>1 DEF Expected
  <2>2. expect \in Seq(Expectation)
    BY <2>1 DEF CodecInv, Asked
  <2> QED
    BY <1>1, <2>2, EndsInTail
<1>3. got' = got \o <<>>
  <2>1. got \in Seq({got[i] : i \in 1 .. Len(got)})
    BY <1>1, ReadListed DEF Listed
  <2> DEFINE S == {got[i] : i \in 1 .. Len(got)}
  <2>2. got \in Seq(S)
    BY <2>1
  <2> HIDE DEF S
  <2> QED
    BY <1>1, <2>2, ConcatEmptySeq
<1>4. \A q \in 1 .. Len(<<>>) : <<>>[q].kind = "patch" => EndsAsked
  BY NothingListed
<1> QED
  <2> SUFFICES \E t : /\ Listed(t) /\ got' = got \o t
                      /\ \A q \in 1 .. Len(t) : t[q].kind = "patch" => EndsAsked
                      /\ EndsAsked' => EndsAsked \/ HasLength(t)
    BY DEF Grows
  <2> WITNESS <<>>
  <2> QED
    BY <1>2, <1>3, <1>4, NothingListed

LEMMA EndGrows == ASSUME CodecInv, ParseEnd PROVE Grows
<1>1. /\ stage \in {"reading", "given"} /\ Head(expect).kind = "end"
      /\ expect # <<>> /\ got' = Append(got, PatchItem) /\ expect' = Tail(expect)
  BY DEF ParseEnd, Expects, Parsing
<1>2. expect \in Seq(Expectation)
  <2>1. expect # Expected
    BY <1>1 DEF Expected
  <2> QED
    BY <2>1 DEF CodecInv, Asked
<1>3. EndsAsked' => EndsAsked
  BY <1>1, <1>2, EndsInTail
<1>4. got' = got \o <<PatchItem>> /\ Listed(<<PatchItem>>)
  BY <1>1, ReadListed, AppendListed
<1>5. EndsAsked
  <2>1. 1 \in 1 .. Len(expect) /\ Head(expect) = expect[1]
    <3>1. Len(expect) \in Nat /\ Len(expect) # 0
      BY <1>1, <1>2, LenProperties, EmptySeq
    <3> QED
      BY <1>2, <3>1
  <2> QED
    BY <1>1, <2>1 DEF EndsAsked
<1> QED
  BY <1>4, <1>5 DEF Grows

LEMMA NameGrows == ASSUME CodecInv, NameParsed PROVE Grows
<1>1. /\ op = "busy" /\ got' = Append(got, NameItem(Name)) /\ expect' = Tail(expect)
  BY DEF NameParsed, Return, Iterate
<1>2. expect # <<>> /\ Head(expect).kind = "name"
  BY <1>1 DEF CodecInv, AskedName
<1>3. EndsAsked' => EndsAsked
  <2>1. expect # Expected
    BY <1>2 DEF Expected
  <2>2. expect \in Seq(Expectation)
    BY <2>1 DEF CodecInv, Asked
  <2> QED
    BY <1>1, <1>2, <2>2, EndsInTail
<1>4. Listed(got)
  BY <1>1, BusyReads, ReadListed DEF CodecInv
<1> DEFINE e == NameItem(Name)
<1>5. e.kind # "patch"
  BY DEF NameItem
<1> HIDE DEF e
<1>6. got' = got \o <<e>> /\ Listed(<<e>>) /\ Len(<<e>>) = 1 /\ <<e>>[1] = e
  BY <1>1, <1>4, AppendListed DEF e
<1>7. \A q \in 1 .. Len(<<e>>) : <<e>>[q].kind # "patch"
  BY <1>5, <1>6
<1> QED
  BY <1>3, <1>6, <1>7 DEF Grows

LEMMA GrowsOrdered ==
  ASSUME CodecInv, Grows, stage \in {"reading", "given"}, stage' = stage
  PROVE  Ordered'
<1>1. PICK t : /\ Listed(t) /\ got' = got \o t
               /\ \A q \in 1 .. Len(t) : t[q].kind = "patch" => EndsAsked
               /\ EndsAsked' => EndsAsked \/ HasLength(t)
  BY DEF Grows
<1>2. Listed(got')
  BY <1>1, ReadListed, ListedConcat
<1>3. CASE stage = "given"
  <2>1. LengthsFirst(got, FALSE) /\ (EndsAsked => HasLength(got)) /\ Listed(got)
    BY <1>3 DEF CodecInv, Ordered
  <2>2. \A q \in 1 .. Len(t) : t[q].kind = "patch" => HasLength(got)
    BY <1>1, <2>1
  <2>3. LengthsFirst(got', FALSE) /\ (HasLength(got) \/ HasLength(t) => HasLength(got'))
    BY <1>1, <2>1, <2>2, LengthsFirstConcat
  <2> QED
    BY <1>1, <1>2, <1>3, <2>1, <2>3 DEF Ordered
<1> QED
  BY <1>2, <1>3 DEF Ordered

(* The writer.                                                             *)
LEMMA ItemOrdered ==
  ASSUME CodecInv, stage = "writing", stage' = stage, script # <<>>, script' = Tail(script),
         HolePlain \/ script[1].kind = "length" => HolePlain'
  PROVE  Ordered'
<1> DEFINE placed == HolePlain
           placed1 == HolePlain'
<1>1. Listed(script) /\ LengthsFirst(script, placed)
  BY DEF CodecInv, Ordered
<1>2. placed \in BOOLEAN /\ placed1 \in BOOLEAN
  BY DEF HolePlain
<1>3. placed \/ script[1].kind = "length" => placed1
  OBVIOUS
<1> HIDE DEF placed, placed1
<1>4. Listed(Tail(script)) /\ LengthsFirst(Tail(script), placed1)
  BY <1>1, <1>2, <1>3, ListedTail, LengthsFirstTail
<1> QED
  BY <1>4 DEF Ordered, placed1

LEMMA FieldOrdered == ASSUME CodecInv, PutField PROVE Ordered'
<1> DEFINE bytes == Encoded(Head(script))
<1>1. /\ stage = "writing" /\ stage' = stage /\ script # <<>> /\ script' = Tail(script)
      /\ hole' = IF Head(script).kind = "length" THEN Len(buf) ELSE hole
      /\ bytes \in Seq(Byte)
      /\ plain' = plain \cup (Len(buf) .. Len(buf) + Len(bytes) - 1)
  BY DEF PutField, Composing, WriteField
<1>2. Head(script) = script[1]
  BY <1>1, ListedTail DEF CodecInv, Ordered
<1>3. CASE Head(script).kind = "length"
  <2>1. bytes = Packed(2, 0)
    BY <1>3 DEF Encoded
  <2>2. Len(bytes) = 2
    BY <2>1, PackedPair
  <2>3. Len(buf) \in Nat
    BY LenProperties DEF CodecInv, IInv, TypeOK
  <2> HIDE DEF bytes
  <2>4. /\ Len(buf) \in Len(buf) .. Len(buf) + Len(bytes) - 1
        /\ Len(buf) + 1 \in Len(buf) .. Len(buf) + Len(bytes) - 1
    BY <2>2, <2>3
  <2>5. HolePlain'
    BY <1>1, <1>3, <2>4 DEF HolePlain
  <2> QED
    BY <1>1, <2>5, ItemOrdered
<1>4. CASE Head(script).kind # "length"
  <2>1. HolePlain => HolePlain'
    BY <1>1, <1>4 DEF HolePlain
  <2> QED
    BY <1>1, <1>2, <1>4, <2>1, ItemOrdered
<1> QED
  BY <1>3, <1>4

LEMMA NameOrdered == ASSUME CodecInv, PutName PROVE Ordered'
<1>1. /\ stage = "writing" /\ stage' = stage /\ script # <<>> /\ script' = Tail(script)
      /\ hole' = hole /\ plain' = plain /\ Head(script).kind = "name"
  BY DEF PutName, Composing, BeginName
<1>2. Head(script) = script[1]
  BY <1>1, ListedTail DEF CodecInv, Ordered
<1> QED
  BY <1>1, <1>2, ItemOrdered DEF HolePlain

LEMMA PatchOrdered == ASSUME CodecInv, PatchLength PROVE Ordered'
<1>1. /\ stage = "writing" /\ stage' = stage /\ script # <<>> /\ script' = Tail(script)
      /\ hole' = hole /\ plain' = plain
  BY DEF PatchLength, Composing, Overwrite
<1>2. HolePlain'
  BY <1>1, PatchIsRefill DEF HolePlain
<1> QED
  BY <1>1, <1>2, ItemOrdered

(* A message that was parsed is written again.                             *)
LEMMA ResentOrdered ==
  ASSUME NEW s, Listed(s), LengthsFirst(s, FALSE)
  PROVE  /\ Listed(Resent(s)) /\ LengthsFirst(Resent(s), FALSE) /\ Len(Resent(s)) = Len(s)
         /\ \A i \in 1 .. Len(s) :
                Resent(s)[i] = IF s[i].kind = "name" THEN NameItem(Pieces(s[i].labels))
                               ELSE s[i]
<1> DEFINE r == Resent(s)
           n == Len(s)
<1>1. n \in Nat /\ DOMAIN s = 1 .. n
  BY ListedParts, LenProperties
<1>2. /\ r = [i \in 1 .. n |-> r[i]]
      /\ \A i \in 1 .. n : r[i] = IF s[i].kind = "name" THEN NameItem(Pieces(s[i].labels))
                                  ELSE s[i]
  BY <1>1 DEF Resent
<1>3. \A i \in 1 .. n : r[i].kind = s[i].kind
  BY <1>2 DEF NameItem
<1> HIDE DEF r
<1> DEFINE E == {r[i] : i \in 1 .. n}
<1>4. \A i \in 1 .. n : r[i] \in E
  OBVIOUS
<1> HIDE DEF E
<1>5. [i \in 1 .. n |-> r[i]] \in Seq(E)
  BY <1>1, <1>4, IsASeq
<1>6. r \in Seq(E)
  BY <1>2, <1>5
<1>7. Listed(r) /\ Len(r) = n
  <2>1. DOMAIN r = 1 .. n
    BY <1>2
  <2>2. Len(r) \in Nat /\ 1 .. Len(r) = 1 .. n
    BY <1>6, <2>1, LenProperties
  <2> QED
    BY <1>1, <1>6, <2>2, ListedIn
<1>8. LengthsFirst(r, FALSE)
  <2> SUFFICES ASSUME NEW q \in 1 .. n, r[q].kind = "patch"
               PROVE  \E l \in 1 .. q - 1 : r[l].kind = "length"
    BY <1>7 DEF LengthsFirst
  <2>1. PICK l \in 1 .. q - 1 : s[l].kind = "length"
    BY <1>3 DEF LengthsFirst
  <2>2. l \in 1 .. n
    BY <1>1
  <2> QED
    BY <1>3, <2>1, <2>2
<1> QED
  BY <1>2, <1>7, <1>8 DEF r

LEMMA OrderedStep == CodecInv /\ [MessageNext]_vars => Ordered'
<1> SUFFICES ASSUME CodecInv, [MessageNext]_vars PROVE Ordered'
  OBVIOUS
<1>1. CASE Deliver
  <2>1. stage' = "reading" /\ got' = <<>>
    BY <1>1 DEF Deliver, Seal
  <2> QED
    BY <2>1, NothingListed DEF Ordered
<1>2. CASE Relay
  <2>1. stage = "given" /\ stage' = "writing" /\ script' = Resent(got)
    BY <1>2 DEF Relay, Renew
  <2>2. Listed(got) /\ LengthsFirst(got, FALSE)
    BY <2>1 DEF CodecInv, Ordered
  <2>3. Listed(script') /\ LengthsFirst(script', FALSE)
    BY <2>1, <2>2, ResentOrdered
  <2> QED
    BY <2>1, <2>3 DEF Ordered, LengthsFirst
<1>3. CASE WriteName /\ UNCHANGED <<scriptVars, parseVars>>
  <2>1. /\ stage = "writing" /\ stage' \in {"writing", "lost"} /\ script' = script
        /\ hole' = hole /\ plain' = plain
    BY <1>3 DEF WriteName, PointBack, WriteLabel, Refuse, WriteRoot, Naming, EndName, scriptVars
  <2> QED
    BY <2>1 DEF CodecInv, Ordered, HolePlain, LengthsFirst
<1>4. CASE ParseHeader \/ ParseNumber \/ ParseBytes \/ ParseRecord \/ ParseChunk
           \/ NoMoreChunks \/ ParseEnd
  <2>1. stage \in {"reading", "given"} /\ stage' = stage
    BY <1>4 DEF ParseHeader, ParseNumber, ParseBytes, ParseRecord, ParseChunk,
                NoMoreChunks, ParseEnd, Expects, Parsing, Take, nameVars
  <2>2. Grows
    BY <1>4, HeaderGrows, NumberGrows, BytesGrow, RecordGrows, ChunkGrows,
       NoMoreChunksGrows, EndGrows
  <2> QED
    BY <2>1, <2>2, GrowsOrdered
<1>5. CASE NameParsed
  <2>1. op = "busy" /\ stage' = stage
    BY <1>5 DEF NameParsed, Return, Iterate, writerVars
  <2>2. stage \in {"reading", "given"}
    BY <2>1, BusyReads DEF CodecInv
  <2> QED
    BY <1>5, <2>1, <2>2, NameGrows, GrowsOrdered
<1>6. CASE ParseName \/ ParseFails \/ Over \/ UNCHANGED vars
           \/ ((Follow \/ Collect \/ Raise) /\ UNCHANGED <<scriptVars, parseVars>>)
  <2>1. UNCHANGED <<stage, plain, script, hole, got, expect>>
    BY <1>6 DEF ParseName, ReadFrom, ParseFails, Over, vars, nameVars, writerVars, scriptVars,
                parseVars, Follow, Collect, Raise, Iterate
  <2> QED
    BY <2>1 DEF CodecInv, Ordered, HolePlain, LengthsFirst, EndsAsked
<1> QED
  BY <1>1, <1>2, <1>3, <1>4, <1>5, <1>6, FieldOrdered, NameOrdered, PatchOrdered
  DEF MessageNext, Compose, Parse

(* The names of a message grow like the names of NameCodec; in between,    *)
(* the parser always knows how many bytes it expects.                      *)
LEMMA CodecStep == CodecInv /\ [MessageNext]_vars => CodecInv'
<1> SUFFICES ASSUME CodecInv, [MessageNext]_vars PROVE CodecInv'
  OBVIOUS
<1>1. IInv' /\ AskedName' /\ Ordered'
  BY NameAsked, NameSteps, StepKeeps, OrderedStep DEF CodecInv
<1>2. /\ buf \in Seq(Byte) /\ Len(buf) \in Nat /\ IInv /\ cursor \in Nat /\ limit \in Nat
      /\ hole \in 0 .. Len(buf) /\ refused \in BOOLEAN /\ Asked
  BY LenProperties DEF CodecInv, IInv, TypeOK
<1>3. Len(buf') \in Nat
  BY <1>1, LenProperties DEF IInv, TypeOK
<1> DEFINE Rest == /\ cursor \in Nat /\ limit \in Nat /\ refused \in BOOLEAN
                   /\ Asked
<1>4. UNCHANGED parseVars => Rest'
  BY <1>2 DEF parseVars, Asked
<1>5. \A m, n \in Nat : m <= n => \A h \in 0 .. m : h \in 0 .. n
  OBVIOUS
<1> HIDE DEF Expectation
<1>6. CASE PutField
  <2>1. UNCHANGED parseVars
    BY <1>6 DEF PutField
  <2>2. PICK bytes : WriteField(bytes)
    BY <1>6 DEF PutField
  <2>3. Len(buf') = Len(buf) + Len(bytes) /\ Len(bytes) \in Nat
    BY <1>2, <2>2, FieldIsAppended, LenProperties DEF WriteField
  <2>4. hole' = Len(buf) \/ hole' = hole
    BY <1>6 DEF PutField
  <2>5. hole' \in 0 .. Len(buf')
    BY <1>2, <2>3, <2>4
  <2> QED
    BY <1>1, <1>4, <2>1, <2>5 DEF CodecInv
<1>7. CASE PutName
  <2>1. UNCHANGED parseVars /\ hole' = hole /\ buf' = buf
    BY <1>7 DEF PutName, BeginName
  <2> QED
    BY <1>1, <1>2, <1>4, <2>1 DEF CodecInv
<1>8. CASE PatchLength
  <2>1. UNCHANGED parseVars /\ hole' = hole
    BY <1>8 DEF PatchLength
  <2>2. PICK bytes : Refill(hole, bytes)
    BY <1>8, PatchIsRefill
  <2>3. Len(buf') = Len(buf)
    BY <1>2, <2>2, OverwrittenBytes
  <2> QED
    BY <1>1, <1>2, <1>4, <2>1, <2>3 DEF CodecInv
<1>9. CASE Deliver
  <2>1. /\ cursor' = 0 /\ limit' = 0 /\ refused' = refused /\ hole' = hole /\ buf' = buf
        /\ expect' = Expected /\ got' = <<>>
    BY <1>9 DEF Deliver, Seal, scriptVars
  <2>2. Asked'
    BY <2>1 DEF Asked, Expected
  <2> QED
    BY <1>1, <1>2, <2>1, <2>2 DEF CodecInv
<1>10. CASE Relay
  <2>1. UNCHANGED parseVars /\ hole' = 0
    BY <1>10 DEF Relay
  <2>2. hole' \in 0 .. Len(buf')
    BY <1>3, <2>1
  <2> QED
    BY <1>1, <1>4, <2>1, <2>2 DEF CodecInv
<1>11. CASE WriteName /\ UNCHANGED <<scriptVars, parseVars>>
  <2>1. UNCHANGED parseVars /\ hole' = hole
    BY <1>11 DEF scriptVars
  <2>2. Len(buf') >= Len(buf)
    <3>1. PICK bytes \in Seq(Byte) : buf' = buf \o bytes
      BY <1>2, <1>11, NameIsAppended
    <3>2. Len(buf') = Len(buf) + Len(bytes) /\ Len(bytes) \in Nat
      BY <1>2, <3>1, ConcatProperties, LenProperties
    <3> QED
      BY <1>2, <3>2
  <2> QED
    BY <1>1, <1>2, <1>3, <1>4, <1>5, <2>1, <2>2 DEF CodecInv
<1>12. CASE ParseHeader
  <2>1. \E items : Take(items, cursor + 12) /\ limit' = limit
    BY <1>12 DEF ParseHeader
  <2>2. cursor' \in Nat /\ hole' \in 0 .. Len(buf') /\ refused' \in BOOLEAN
    <3>1. cursor + 12 \in Nat
      BY <1>2
    <3> QED
      BY <2>1, <3>1, TakenType
  <2>3. Asked'
    <3>1. \A X, Y, s : s \in Seq(X) /\ X \subseteq Y => s \in Seq(Y)
      OBVIOUS
    <3> QED
      BY <1>12, <3>1, HeaderAsks DEF Asked
  <2> QED
    BY <1>1, <1>2, <2>1, <2>2, <2>3 DEF CodecInv
<1>13. ASSUME Parsing, Head(expect).kind # "header"
       PROVE  Head(expect) \in Expectation /\ Tail(expect) \in Seq(Expectation)
  <2>1. expect # <<>>
    BY <1>13 DEF Parsing
  <2>2. expect # Expected
    BY <1>13 DEF Expected
  <2> QED
    BY <1>2, <2>1, <2>2, ExpectTail DEF Asked
<1>14. CASE ParseNumber \/ ParseBytes
  <2>1. /\ Parsing /\ Head(expect).kind \in {"number", "bytes"}
        /\ \E items : Take(items, cursor + Head(expect).width)
        /\ expect' = Tail(expect) /\ limit' = limit
    BY <1>14 DEF ParseNumber, ParseBytes, Expects
  <2>2. Head(expect) \in Expectation /\ Tail(expect) \in Seq(Expectation)
    BY <1>13, <2>1
  <2>3. cursor + Head(expect).width \in Nat
    BY <1>2, <2>1, <2>2, WidthType
  <2>4. cursor' \in Nat /\ hole' \in 0 .. Len(buf') /\ refused' \in BOOLEAN
    BY <2>1, <2>3, TakenType
  <2>5. Asked'
    BY <2>1, <2>2 DEF Asked
  <2> QED
    BY <1>1, <1>2, <2>1, <2>4, <2>5 DEF CodecInv
<1>15. CASE ParseRecord
  <2> DEFINE rtype == Unpacked(cursor, 2)
             rdlength == Unpacked(cursor + 8, 2)
  <2>1. /\ Parsing /\ Head(expect).kind = "record"
        /\ \E items : Take(items, cursor + 10)
        /\ limit' = cursor + 10 + rdlength
        /\ expect' = Shape(rtype, rdlength) \o <<Expect("end")>> \o Tail(expect)
    BY <1>15 DEF ParseRecord, Expects
  <2>2. Head(expect) \in Expectation /\ Tail(expect) \in Seq(Expectation)
    BY <1>13, <2>1
  <2>3. /\ cursor' \in Nat /\ hole' \in 0 .. Len(buf') /\ refused' \in BOOLEAN
        /\ cursor + 10 <= Len(buf)
    <3>1. cursor + 10 \in Nat
      BY <1>2
    <3> QED
      BY <2>1, <3>1, TakenType
  <2>4. rtype \in Nat /\ rdlength \in Nat
    <3>1. cursor + 2 <= Len(buf) /\ cursor + 8 \in Nat /\ cursor + 8 + 2 <= Len(buf)
      BY <1>2, <2>3
    <3> QED
      BY <1>2, <3>1, UnpackedType
  <2> HIDE DEF rtype, rdlength
  <2>5. limit' \in Nat
    BY <1>2, <2>1, <2>4
  <2>6. Shape(rtype, rdlength) \in Seq(Expectation) /\ <<Expect("end")>> \in Seq(Expectation)
    <3>1. Expect("end") \in Expectation
      BY ExpectationType
    <3> QED
      BY <2>4, <3>1, ShapeType
  <2>7. expect' \in Seq(Expectation)
    BY <2>1, <2>2, <2>6, ConcatProperties
  <2>8. Asked'
    BY <2>7 DEF Asked
  <2> QED
    BY <1>1, <2>3, <2>5, <2>8 DEF CodecInv
<1>16. CASE ParseChunk
  <2>1. /\ Parsing /\ Head(expect).kind = "chunks" /\ cursor < Len(buf)
        /\ \E items : Take(items, cursor + 1 + At(cursor))
        /\ expect' = expect /\ limit' = limit
    BY <1>16 DEF ParseChunk, Expects
  <2>2. expect \in Seq(Expectation)
    <3>1. expect # Expected
      BY <2>1 DEF Expected
    <3> QED
      BY <1>2, <3>1 DEF Asked
  <2>3. cursor + 1 + At(cursor) \in Nat
    <3>1. buf[cursor + 1] \in Byte
      <4>1. cursor + 1 \in 1 .. Len(buf)
        BY <1>2, <2>1
      <4> QED
        BY <1>2, <4>1, ElementOfSeq
    <3>2. At(cursor) \in Nat
      BY <3>1 DEF At, Byte
    <3> QED
      BY <1>2, <3>2
  <2>4. cursor' \in Nat /\ hole' \in 0 .. Len(buf') /\ refused' \in BOOLEAN
    BY <2>1, <2>3, TakenType
  <2>5. Asked'
    BY <2>1, <2>2 DEF Asked
  <2> QED
    BY <1>1, <1>2, <2>1, <2>4, <2>5 DEF CodecInv
<1>17. CASE NoMoreChunks \/ ParseEnd
  <2>1. /\ Parsing /\ Head(expect).kind # "header" /\ expect' = Tail(expect)
        /\ UNCHANGED <<nameVars, scriptVars, limit, refused>>
        /\ cursor' = cursor \/ cursor' = limit
    BY <1>17 DEF NoMoreChunks, ParseEnd, Expects
  <2>2. Asked' /\ hole' \in 0 .. Len(buf')
    BY <1>13, <2>1, HoleKept DEF Asked
  <2> QED
    BY <1>1, <1>2, <2>1, <2>2 DEF CodecInv
<1>18. CASE ParseName
  <2>1. UNCHANGED parseVars /\ hole' = hole /\ buf' = buf
    BY <1>18 DEF ParseName, ReadFrom, writerVars, scriptVars
  <2> QED
    BY <1>1, <1>2, <1>4, <2>1 DEF CodecInv
<1>19. CASE NameParsed
  <2>1. /\ Return /\ cursor' = after' /\ expect' = Tail(expect)
        /\ UNCHANGED <<scriptVars, limit, refused>>
    BY <1>19 DEF NameParsed
  <2>2. op = "busy" /\ buf' = buf
    BY <2>1 DEF Return, Iterate, writerVars
  <2>3. hole' = hole
    BY <2>1 DEF scriptVars
  <2>4. expect # <<>> /\ Head(expect).kind = "name"
    BY <2>2 DEF CodecInv, AskedName
  <2>5. Tail(expect) \in Seq(Expectation)
    <3>1. expect # Expected
      BY <2>4 DEF Expected
    <3> QED
      BY <1>2, <2>4, <3>1, ExpectTail DEF Asked
  <2>6. Asked'
    BY <2>1, <2>5 DEF Asked
  <2>7. cursor' \in Nat
    BY <1>1, <2>1 DEF IInv, TypeOK
  <2> QED
    BY <1>1, <1>2, <2>1, <2>2, <2>3, <2>6, <2>7 DEF CodecInv
<1>20. CASE ParseFails
  <2>1. /\ UNCHANGED <<nameVars, scriptVars, expect, cursor, limit, got>>
        /\ refused' = TRUE
    BY <1>20 DEF ParseFails
  <2>2. Asked' /\ hole' \in 0 .. Len(buf')
    BY <1>2, <2>1, HoleKept DEF Asked
  <2> QED
    BY <1>1, <1>2, <2>1, <2>2 DEF CodecInv
<1>21. CASE (Follow \/ Collect \/ Raise) /\ UNCHANGED <<scriptVars, parseVars>>
  <2>1. UNCHANGED parseVars /\ hole' = hole /\ buf' = buf
    BY <1>21 DEF Follow, Collect, Raise, Iterate, writerVars, scriptVars
  <2> QED
    BY <1>1, <1>2, <1>4, <2>1 DEF CodecInv
<1>22. CASE Over \/ UNCHANGED vars
  <2>1. UNCHANGED parseVars /\ hole' = hole /\ buf' = buf
    BY <1>22 DEF Over, vars, nameVars, scriptVars
  <2> QED
    BY <1>1, <1>2, <1>4, <2>1 DEF CodecInv
<1> QED
  BY <1>6, <1>7, <1>8, <1>9, <1>10, <1>11, <1>12, <1>14, <1>15, <1>16, <1>17, <1>18,
     <1>19, <1>20, <1>21, <1>22
  DEF MessageNext, Compose, Parse

-----------------------------------------------------------------------------
(* What holds of every message, whatever it is made of.                    *)

LEMMA CodecAlways == MessageSpec => []CodecInv
BY CodecInit, CodecStep, PTL DEF MessageSpec

(* Every variable of writer and parser keeps its type, whatever messages   *)
(* are composed and whatever bytes are given to Message.parse; the place   *)
(* that RDLENGTH is patched into is always within what has been written.   *)
THEOREM MessageTypes == MessageSpec => []MessageTypeOK
<1>1. CodecInv => MessageTypeOK
  BY DEF CodecInv, IInv, MessageTypeOK
<1> QED
  BY <1>1, CodecAlways, PTL

(* Composing and parsing messages does nothing to names but what           *)
(* write_name and read_name do.  PatchLength overwrites what is at `hole', *)
(* whatever that is (wire.py:471): that these are always two bytes of a    *)
(* field, and never of a name, is HolePlain.  It holds when a length is    *)
(* patched because every patch comes behind a length (MessagesInOrder for  *)
(* what the program composes, Ordered for what it has parsed and passes    *)
(* on), and a length leaves its place to a field for good.                 *)
THEOREM MessagesKeepNames == MessageSpec => NamesUntouched
<1>1. CodecInv /\ [MessageNext]_vars => [Next]_nameVars
  BY NameSteps DEF CodecInv
<1>2. MessageInit => Init
  BY DEF MessageInit
<1> QED
  BY <1>1, <1>2, CodecAlways, PTL DEF MessageSpec, NamesUntouched, Spec

(* So what was proved of names alone holds in every message: in questions, *)
(* owners and bodies each name is read back as it was written, and the     *)
(* cursor moves on.                                                        *)
THEOREM MessagesReadNamesBack == MessageSpec => []NamesReadBack /\ []CursorMovesOn
BY MessagesKeepNames, NamesAlwaysReadBack, CursorAlwaysMovesOn, PTL DEF NamesUntouched

-----------------------------------------------------------------------------
(* Fields.                                                                 *)

LEMMA PackedTwo ==
  ASSUME NEW v \in Nat, v < 65536
  PROVE  /\ Packed(2, v) = <<v \div 256, v % 256>>
         /\ v \div 256 \in Byte /\ v % 256 \in Byte
         /\ v = 256 * (v \div 256) + (v % 256)
<1>1. /\ Packed(2, v)[1] = (v \div (256 ^ (2 - 1))) % 256
      /\ Packed(2, v)[2] = (v \div (256 ^ (2 - 2))) % 256
      /\ Packed(2, v) = <<Packed(2, v)[1], Packed(2, v)[2]>>
  BY DEF Packed
<1>2. 256 ^ (2 - 1) = 256 /\ 256 ^ (2 - 2) = 1
  OBVIOUS
<1>3. \A n \in Nat : n \div 1 = n
  OBVIOUS
<1>4. Packed(2, v) = <<(v \div 256) % 256, v % 256>>
  BY <1>1, <1>2, <1>3
<1>5. \A q \in Nat : q < 256 => q % 256 = q
  OBVIOUS
<1>6. \A n, q, r \in Nat : n < 65536 /\ n = 256 * q + r => q < 256
  OBVIOUS
<1>7. /\ v \div 256 \in Nat /\ v % 256 \in Nat /\ v % 256 < 256
      /\ v = 256 * (v \div 256) + (v % 256)
  BY LastByte
<1>8. v \div 256 < 256
  BY <1>6, <1>7
<1>9. (v \div 256) % 256 = v \div 256
  BY <1>5, <1>7, <1>8
<1>10. \A n \in Nat : n < 256 => n \in Byte
  BY DEF Byte
<1> QED
  BY ONLY <1>4, <1>7, <1>8, <1>9, <1>10

LEMMA PackedFour ==
  ASSUME NEW v \in Nat, v < 4294967296
  PROVE  \E a, b, c, d \in Byte :
            /\ Packed(4, v) = <<a, b, c, d>>
            /\ v = 256 * (256 * (256 * a + b) + c) + d
<1> DEFINE q1 == v \div 256
           q2 == q1 \div 256
           q3 == q2 \div 256
<1>1. /\ Packed(4, v)[1] = (v \div (256 ^ (4 - 1))) % 256
      /\ Packed(4, v)[2] = (v \div (256 ^ (4 - 2))) % 256
      /\ Packed(4, v)[3] = (v \div (256 ^ (4 - 3))) % 256
      /\ Packed(4, v)[4] = (v \div (256 ^ (4 - 4))) % 256
      /\ Packed(4, v) = <<Packed(4, v)[1], Packed(4, v)[2], Packed(4, v)[3], Packed(4, v)[4]>>
  BY SMT DEF Packed
<1>2. /\ 256 ^ (4 - 1) = 16777216 /\ 256 ^ (4 - 2) = 65536
      /\ 256 ^ (4 - 3) = 256 /\ 256 ^ (4 - 4) = 1
  BY SMT
<1>3. \A n \in Nat : n \div 1 = n
  BY SMT
<1>4. Packed(4, v) = <<(v \div 16777216) % 256, (v \div 65536) % 256, q1 % 256, v % 256>>
  BY SMT, <1>1, <1>2, <1>3
<1>5. /\ q1 \in Nat /\ v % 256 \in Nat /\ v % 256 < 256
      /\ v = 256 * q1 + (v % 256)
  BY SMT, LastByte
<1> HIDE DEF q1
<1>6. /\ q2 \in Nat /\ q1 % 256 \in Nat /\ q1 % 256 < 256
      /\ q1 = 256 * q2 + (q1 % 256)
  BY SMT, <1>5, LastByte
<1> HIDE DEF q2
<1>7. /\ q3 \in Nat /\ q2 % 256 \in Nat /\ q2 % 256 < 256
      /\ q2 = 256 * q3 + (q2 % 256)
  BY SMT, <1>6, LastByte
<1> HIDE DEF q3
<1>8. \A x, q, r \in Nat : x = 65536 * q + r /\ r < 65536 => x \div 65536 = q
  BY SMT
<1>9. \A x, q, r \in Nat : x = 16777216 * q + r /\ r < 16777216 => x \div 16777216 = q
  BY SMT
<1>10. \A x, y, z, c, d \in Nat :
          x = 256 * y + d /\ y = 256 * z + c /\ c < 256 /\ d < 256
            => x = 65536 * z + (256 * c + d) /\ 256 * c + d \in Nat /\ 256 * c + d < 65536
  BY SMT
<1>11. \A x, y, z, c, d \in Nat :
          x = 65536 * y + c /\ y = 256 * z + d /\ c < 65536 /\ d < 256
            => x = 16777216 * z + (65536 * d + c) /\ 65536 * d + c \in Nat
               /\ 65536 * d + c < 16777216
  BY SMT
<1>12. PICK c \in Nat : v = 65536 * q2 + c /\ c < 65536
  BY SMT, <1>5, <1>6, <1>10
<1>13. v \div 65536 = q2
  BY SMT, <1>6, <1>8, <1>12
<1>14. PICK b \in Nat : v = 16777216 * q3 + b /\ b < 16777216
  BY SMT, <1>6, <1>7, <1>11, <1>12
<1>15. v \div 16777216 = q3
  BY SMT, <1>7, <1>9, <1>14
<1>16. q3 < 256
  <2>1. \A x, q, r \in Nat : x = 16777216 * q + r /\ x < 4294967296 => q < 256
    BY SMT
  <2> QED
    BY SMT, <1>7, <1>14, <2>1
<1>17. q3 % 256 = q3
  <2>1. \A q \in Nat : q < 256 => q % 256 = q
    BY SMT
  <2> QED
    BY SMT, <1>7, <1>16, <2>1
<1>18. Packed(4, v) = <<q3, q2 % 256, q1 % 256, v % 256>>
  BY SMT, <1>4, <1>13, <1>15, <1>17
<1>19. \A n \in Nat : n < 256 => n \in Byte
  BY SMT DEF Byte
<1>20. v = 256 * (256 * (256 * q3 + (q2 % 256)) + (q1 % 256)) + (v % 256)
  BY ONLY SMT, <1>5, <1>6, <1>7
<1> QED
  BY ONLY SMT, <1>5, <1>6, <1>7, <1>16, <1>18, <1>19, <1>20

(* The bytes from an offset on.                                            *)
Spells(b, at, bytes) == \A j \in 1 .. Len(bytes) : b[at + j] = bytes[j]

LEMMA UnpackedTwo ==
  ASSUME buf \in Seq(Byte), NEW at \in Nat, at + 2 <= Len(buf)
  PROVE  /\ Unpacked(at, 2) = 256 * buf[at + 1] + buf[at + 2]
         /\ Unpacked(at, 2) \in Nat /\ Unpacked(at, 2) < 65536
<1>1. PICK g \in [0 .. 2 -> Nat] : ByBytes(at, 2, g)
  BY UnpackedByBytes
<1>2. g[0] = 0 /\ g[2] = Unpacked(at, 2) /\ g[1] = 256 * g[1 - 1] + buf[at + 1] /\ g[2] = 256 * g[2 - 1] + buf[at + 2]
  BY <1>1 DEF ByBytes
<1>3. buf[at + 1] \in Nat /\ buf[at + 1] < 256 /\ buf[at + 2] \in Nat /\ buf[at + 2] < 256
  <2>1. at + 1 \in 1 .. Len(buf) /\ at + 2 \in 1 .. Len(buf)
    BY SMT, LenProperties
  <2>2. buf[at + 1] \in Byte /\ buf[at + 2] \in Byte
    BY SMT, <2>1, ElementOfSeq
  <2>3. \A x \in Byte : x \in Nat /\ x < 256
    BY DEF Byte
  <2> QED
    BY <2>2, <2>3
<1>4. g[0] = 0 /\ g[1] = buf[at + 1]
  <2>1. \A x \in Nat : 256 * 0 + x = x
    BY SMT
  <2> QED
    BY SMT, <1>1, <1>2, <1>3, <2>1
<1>5. Unpacked(at, 2) = 256 * buf[at + 1] + buf[at + 2]
  BY SMT, <1>1, <1>2, <1>4
<1>6. \A x, y \in Nat : x < 256 /\ y < 256 => 256 * x + y \in Nat /\ 256 * x + y < 65536
  BY SMT
<1> QED
  BY SMT, <1>3, <1>5, <1>6

LEMMA UnpackedFour ==
  ASSUME buf \in Seq(Byte), NEW at \in Nat, at + 4 <= Len(buf)
  PROVE  /\ Unpacked(at, 4)
                = 256 * (256 * (256 * buf[at + 1] + buf[at + 2]) + buf[at + 3]) + buf[at + 4]
         /\ Unpacked(at, 4) \in Nat /\ Unpacked(at, 4) < 4294967296
<1>1. PICK g \in [0 .. 4 -> Nat] : ByBytes(at, 4, g)
  BY UnpackedByBytes
<1>2. /\ g[0] = 0 /\ g[4] = Unpacked(at, 4)
      /\ g[1] = 256 * g[1 - 1] + buf[at + 1] /\ g[2] = 256 * g[2 - 1] + buf[at + 2]
      /\ g[3] = 256 * g[3 - 1] + buf[at + 3] /\ g[4] = 256 * g[4 - 1] + buf[at + 4]
  BY <1>1 DEF ByBytes
<1>3. \A k \in 1 .. 4 : buf[at + k] \in Nat /\ buf[at + k] < 256
  <2>1. \A k \in 1 .. 4 : at + k \in 1 .. Len(buf)
    BY SMT, LenProperties
  <2>2. \A k \in 1 .. 4 : buf[at + k] \in Byte
    BY SMT, <2>1, ElementOfSeq
  <2>3. \A x \in Byte : x \in Nat /\ x < 256
    BY DEF Byte
  <2> QED
    BY <2>2, <2>3
<1>4. g[0] = 0 /\ g[1] = buf[at + 1]
  <2>1. 1 - 1 = 0 /\ \A x \in Nat : 256 * 0 + x = x
    BY SMT
  <2>2. g[1] = 256 * 0 + buf[at + 1]
    BY ONLY <1>2, <2>1
  <2>3. buf[at + 1] \in Nat
    BY <1>3
  <2> QED
    BY ONLY <1>2, <2>1, <2>2, <2>3
<1>5. Unpacked(at, 4)
         = 256 * (256 * (256 * buf[at + 1] + buf[at + 2]) + buf[at + 3]) + buf[at + 4]
  BY SMTT(40), <1>1, <1>2, <1>4
<1>6. \A x, y, z, w \in Nat : x < 256 /\ y < 256 /\ z < 256 /\ w < 256
          => /\ 256 * (256 * (256 * x + y) + z) + w \in Nat
             /\ 256 * (256 * (256 * x + y) + z) + w < 4294967296
  BY SMT
<1>7. /\ buf[at + 1] \in Nat /\ buf[at + 1] < 256 /\ buf[at + 2] \in Nat /\ buf[at + 2] < 256
      /\ buf[at + 3] \in Nat /\ buf[at + 3] < 256 /\ buf[at + 4] \in Nat /\ buf[at + 4] < 256
  BY <1>3
<1> QED
  BY ONLY SMT, <1>5, <1>6, <1>7

(* A number is read back from the bytes it was packed into.                *)
LEMMA NumberReadBack ==
  ASSUME buf \in Seq(Byte), NEW at \in Nat, NEW w \in {2, 4}, at + w <= Len(buf),
         NEW v \in Nat, v < 256 ^ w, Spells(buf, at, Packed(w, v))
  PROVE  Unpacked(at, w) = v
<1>1. CASE w = 2
  <2>1. v < 65536
    <3>1. 256 ^ 2 = 65536
      BY SMT
    <3> QED
      BY SMT, <1>1, <3>1
  <2>2. PICK x, y \in Byte : Packed(2, v) = <<x, y>> /\ v = 256 * x + y
    BY SMTT(40), <2>1, PackedTwo
  <2>3. buf[at + 1] = x /\ buf[at + 2] = y
    BY ONLY <1>1, <2>2, Spells(buf, at, Packed(w, v)) DEF Spells
  <2> QED
    BY SMT, <1>1, <2>2, <2>3, UnpackedTwo
<1>2. CASE w = 4
  <2>1. v < 4294967296
    <3>1. 256 ^ 4 = 4294967296
      BY SMT
    <3> QED
      BY SMT, <1>2, <3>1
  <2>2. PICK x, y, z, u \in Byte : /\ Packed(4, v) = <<x, y, z, u>>
                                   /\ v = 256 * (256 * (256 * x + y) + z) + u
    BY SMT, <2>1, PackedFour
  <2>3. buf[at + 1] = x /\ buf[at + 2] = y /\ buf[at + 3] = z /\ buf[at + 4] = u
    BY ONLY <1>2, <2>2, Spells(buf, at, Packed(w, v)) DEF Spells
  <2> QED
    BY SMT, <1>2, <2>2, <2>3, UnpackedFour
<1> QED
  BY SMT, <1>1, <1>2

(* Numbers of two bytes.                                                   *)
Word == {v \in Nat : v < 65536}

LEMMA WordType ==
  /\ \A v \in Word : v \in Nat /\ v < 65536
  /\ \A v \in Nat : v < 65536 => v \in Word
BY SMT DEF Word

(* A header that Message.parse accepts.                                    *)
Bit == {0, 1}

Header ==
    [id : Word, qr : Bit, opcode : OpCode, aa : Bit, tc : Bit, rd : Bit, ra : Bit,
     rcode : ResponseCode]

HeaderItem == [kind : {"header"}, header : Header, counts : [1 .. 4 -> Word]]

(* The flags and codes of a header are told apart in its flags.            *)
LEMMA FlagsReadBack ==
  ASSUME NEW h \in Header
  PROVE  /\ Flags(h) \in Nat /\ Flags(h) < 65536
         /\ Bits(Flags(h), 15, 1) = h.qr /\ Bits(Flags(h), 11, 4) = h.opcode
         /\ Bits(Flags(h), 10, 1) = h.aa /\ Bits(Flags(h), 9, 1) = h.tc
         /\ Bits(Flags(h), 8, 1) = h.rd /\ Bits(Flags(h), 7, 1) = h.ra
         /\ Bits(Flags(h), 0, 4) = h.rcode
<1> DEFINE q == h.qr
           o == h.opcode
           a == h.aa
           t == h.tc
           d == h.rd
           r == h.ra
           c == h.rcode
           f == Flags(h)
<1>0. /\ q \in Nat /\ o \in Nat /\ a \in Nat /\ t \in Nat /\ d \in Nat /\ r \in Nat
      /\ c \in Nat /\ q < 2 /\ o < 3 /\ a < 2 /\ t < 2 /\ d < 2 /\ r < 2 /\ c < 6
      /\ f = q * 32768 + o * 2048 + a * 1024 + t * 512 + d * 256 + r * 128 + c
  <2>1. /\ q \in Bit /\ o \in OpCode /\ a \in Bit /\ t \in Bit /\ d \in Bit /\ r \in Bit
        /\ c \in ResponseCode
    BY DEF Header
  <2>2. /\ \A x \in Bit : x \in Nat /\ x < 2
        /\ \A x \in OpCode : x \in Nat /\ x < 3
        /\ \A x \in ResponseCode : x \in Nat /\ x < 6
    BY DEF Bit, OpCode, ResponseCode
  <2>3. f = q * 32768 + o * 2048 + a * 1024 + t * 512 + d * 256 + r * 128 + c
    <3>1. /\ 2 ^ 15 = 32768 /\ 2 ^ 11 = 2048 /\ 2 ^ 10 = 1024 /\ 2 ^ 9 = 512 /\ 2 ^ 8 = 256
          /\ 2 ^ 7 = 128
      BY SMT
    <3> QED
      BY ONLY SMT, <3>1 DEF Flags
  <2> HIDE DEF q, o, a, t, d, r, c, f
  <2> QED
    BY <2>1, <2>2, <2>3
<1> HIDE DEF q, o, a, t, d, r, c, f
<1>1. f \in Nat /\ f < 65536
  BY SMT, <1>0
<1>2. /\ Bits(f, 15, 1) = (f \div 32768) % 2 /\ Bits(f, 11, 4) = (f \div 2048) % 16
      /\ Bits(f, 10, 1) = (f \div 1024) % 2 /\ Bits(f, 9, 1) = (f \div 512) % 2
      /\ Bits(f, 8, 1) = (f \div 256) % 2 /\ Bits(f, 7, 1) = (f \div 128) % 2
      /\ Bits(f, 0, 4) = f % 16
  <2>1. \A x \in Nat : x \div 1 = x
    BY SMT
  <2>2. /\ 2 ^ 15 = 32768 /\ 2 ^ 11 = 2048 /\ 2 ^ 10 = 1024 /\ 2 ^ 9 = 512 /\ 2 ^ 8 = 256
        /\ 2 ^ 7 = 128 /\ 2 ^ 0 = 1 /\ 2 ^ 1 = 2 /\ 2 ^ 4 = 16
    BY SMT
  <2> QED
    BY ONLY SMT, <1>1, <2>1, <2>2 DEF Bits
<1>3. Bits(f, 15, 1) = q
  <2>1. /\ \A x, y \in Nat : y < 32768 => (x * 32768 + y) \div 32768 = x
        /\ \A x, y \in Nat : y < 2 => (x * 2 + y) % 2 = y
    BY SMT
  <2> DEFINE x == q
             y == o * 2048 + a * 1024 + t * 512 + d * 256 + r * 128 + c
             z == 0
  <2>2. /\ x \in Nat /\ y \in Nat /\ z \in Nat /\ y < 32768 /\ x = z * 2 + q
        /\ f = x * 32768 + y
    BY SMT, <1>0
  <2> HIDE DEF x, y, z
  <2>3. f \div 32768 = x
    BY ONLY <2>1, <2>2
  <2>4. x % 2 = q
    BY ONLY <2>1, <2>2, <1>0
  <2> QED
    BY ONLY <1>2, <2>3, <2>4
<1>4. Bits(f, 11, 4) = o
  <2>1. /\ \A x, y \in Nat : y < 2048 => (x * 2048 + y) \div 2048 = x
        /\ \A x, y \in Nat : y < 16 => (x * 16 + y) % 16 = y
    BY SMT
  <2> DEFINE x == q * 16 + o
             y == a * 1024 + t * 512 + d * 256 + r * 128 + c
             z == q
  <2>2. /\ x \in Nat /\ y \in Nat /\ z \in Nat /\ y < 2048 /\ x = z * 16 + o
        /\ f = x * 2048 + y
    BY SMT, <1>0
  <2> HIDE DEF x, y, z
  <2>3. f \div 2048 = x
    BY ONLY <2>1, <2>2
  <2>4. x % 16 = o
    BY ONLY <2>1, <2>2, <1>0
  <2> QED
    BY ONLY <1>2, <2>3, <2>4
<1>5. Bits(f, 10, 1) = a
  <2>1. /\ \A x, y \in Nat : y < 1024 => (x * 1024 + y) \div 1024 = x
        /\ \A x, y \in Nat : y < 2 => (x * 2 + y) % 2 = y
    BY SMT
  <2> DEFINE x == q * 32 + o * 2 + a
             y == t * 512 + d * 256 + r * 128 + c
             z == q * 16 + o
  <2>2. /\ x \in Nat /\ y \in Nat /\ z \in Nat /\ y < 1024 /\ x = z * 2 + a
        /\ f = x * 1024 + y
    BY SMT, <1>0
  <2> HIDE DEF x, y, z
  <2>3. f \div 1024 = x
    BY ONLY <2>1, <2>2
  <2>4. x % 2 = a
    BY ONLY <2>1, <2>2, <1>0
  <2> QED
    BY ONLY <1>2, <2>3, <2>4
<1>6. Bits(f, 9, 1) = t
  <2>1. /\ \A x, y \in Nat : y < 512 => (x * 512 + y) \div 512 = x
        /\ \A x, y \in Nat : y < 2 => (x * 2 + y) % 2 = y
    BY SMT
  <2> DEFINE x == q * 64 + o * 4 + a * 2 + t
             y == d * 256 + r * 128 + c
             z == q * 32 + o * 2 + a
  <2>2. /\ x \in Nat /\ y \in Nat /\ z \in Nat /\ y < 512 /\ x = z * 2 + t
        /\ f = x * 512 + y
    BY SMT, <1>0
  <2> HIDE DEF x, y, z
  <2>3. f \div 512 = x
    BY ONLY <2>1, <2>2
  <2>4. x % 2 = t
    BY ONLY <2>1, <2>2, <1>0
  <2> QED
    BY ONLY <1>2, <2>3, <2>4
<1>7. Bits(f, 8, 1) = d
  <2>1. /\ \A x, y \in Nat : y < 256 => (x * 256 + y) \div 256 = x
        /\ \A x, y \in Nat : y < 2 => (x * 2 + y) % 2 = y
    BY SMT
  <2> DEFINE x == q * 128 + o * 8 + a * 4 + t * 2 + d
             y == r * 128 + c
             z == q * 64 + o * 4 + a * 2 + t
  <2>2. /\ x \in Nat /\ y \in Nat /\ z \in Nat /\ y < 256 /\ x = z * 2 + d
        /\ f = x * 256 + y
    BY SMT, <1>0
  <2> HIDE DEF x, y, z
  <2>3. f \div 256 = x
    BY ONLY <2>1, <2>2
  <2>4. x % 2 = d
    BY ONLY <2>1, <2>2, <1>0
  <2> QED
    BY ONLY <1>2, <2>3, <2>4
<1>8. Bits(f, 7, 1) = r
  <2>1. /\ \A x, y \in Nat : y < 128 => (x * 128 + y) \div 128 = x
        /\ \A x, y \in Nat : y < 2 => (x * 2 + y) % 2 = y
    BY SMT
  <2> DEFINE x == q * 256 + o * 16 + a * 8 + t * 4 + d * 2 + r
             y == c
             z == q * 128 + o * 8 + a * 4 + t * 2 + d
  <2>2. /\ x \in Nat /\ y \in Nat /\ z \in Nat /\ y < 128 /\ x = z * 2 + r
        /\ f = x * 128 + y
    BY SMT, <1>0
  <2> HIDE DEF x, y, z
  <2>3. f \div 128 = x
    BY ONLY <2>1, <2>2
  <2>4. x % 2 = r
    BY ONLY <2>1, <2>2, <1>0
  <2> QED
    BY ONLY <1>2, <2>3, <2>4
<1>9. Bits(f, 0, 4) = c
  <2>1. \A x, y \in Nat : y < 16 => (x * 16 + y) % 16 = y
    BY SMT
  <2> DEFINE x == q * 2048 + o * 128 + a * 64 + t * 32 + d * 16 + r * 8
  <2>2. x \in Nat /\ f = x * 16 + c
    BY SMT, <1>0
  <2>3. (x * 16 + c) % 16 = c
    BY ONLY SMT, <2>1, <2>2, <1>0
  <2> QED
    BY ONLY SMT, <1>2, <2>2, <2>3
<1> QED
  BY <1>1, <1>3, <1>4, <1>5, <1>6, <1>7, <1>8, <1>9 DEF q, o, a, t, d, r, c, f

LEMMA TwoBytes ==
  ASSUME NEW v \in Word
  PROVE  Packed(2, v) \in Seq(Byte) /\ Len(Packed(2, v)) = 2
<1>1. v \in Nat /\ v < 65536
  BY WordType, SMT
<1>2. PICK x, y \in Byte : Packed(2, v) = <<x, y>>
  BY <1>1, PackedTwo
<1>3. <<x, y>> \in Seq(Byte) /\ Len(<<x, y>>) = 2
  OBVIOUS
<1> QED
  BY <1>2, <1>3

(* What sequences of bytes spell when others are put before or behind.     *)
LEMMA SpellsBehind ==
  ASSUME NEW s \in Seq(Byte), NEW p \in Seq(Byte)
  PROVE  /\ s \o p \in Seq(Byte) /\ Len(s \o p) = Len(s) + Len(p)
         /\ Spells(s \o p, 0, s) /\ Spells(s \o p, Len(s), p)
<1>1. /\ s \o p \in Seq(Byte) /\ Len(s \o p) = Len(s) + Len(p)
      /\ \A i \in 1 .. Len(s) + Len(p) :
             (s \o p)[i] = IF i <= Len(s) THEN s[i] ELSE p[i - Len(s)]
  BY ConcatProperties
<1>2. Len(s) \in Nat /\ Len(p) \in Nat
  BY LenProperties
<1>3. /\ \A j \in 1 .. Len(s) : 0 + j = j /\ j \in 1 .. Len(s) + Len(p) /\ j <= Len(s)
      /\ \A j \in 1 .. Len(p) : /\ Len(s) + j \in 1 .. Len(s) + Len(p)
                                /\ ~(Len(s) + j <= Len(s)) /\ Len(s) + j - Len(s) = j
  BY <1>2
<1> QED
  BY <1>1, <1>3 DEF Spells

LEMMA SpellsWithin ==
  ASSUME NEW b, NEW at \in Nat, NEW s \in Seq(Byte), NEW o \in Nat, NEW q \in Seq(Byte),
         Spells(b, at, s), Spells(s, o, q), o + Len(q) <= Len(s)
  PROVE  Spells(b, at + o, q)
<1>1. Len(s) \in Nat /\ Len(q) \in Nat
  BY LenProperties
<1>2. \A j \in 1 .. Len(q) : o + j \in 1 .. Len(s) /\ at + o + j = at + (o + j)
  BY <1>1
<1> QED
  BY <1>2 DEF Spells

LEMMA SpellsKept ==
  ASSUME NEW s \in Seq(Byte), NEW p \in Seq(Byte), NEW o \in Nat, NEW q \in Seq(Byte),
         Spells(s, o, q), o + Len(q) <= Len(s)
  PROVE  Spells(s \o p, o, q)
<1>1. Spells(s \o p, 0, s)
  BY SpellsBehind
<1>2. Spells(s \o p, 0 + o, q)
  BY <1>1, SpellsWithin
<1> QED
  BY <1>2

(* The encoding of a header: its number, its flags and its counts.         *)
LEMMA HeaderBytes ==
  ASSUME NEW item \in HeaderItem
  PROVE  LET E == Encoded(item)
         IN  /\ E \in Seq(Byte) /\ Len(E) = 12
             /\ Spells(E, 0, Packed(2, item.header.id))
             /\ Spells(E, 2, Packed(2, Flags(item.header)))
             /\ Spells(E, 4, Packed(2, item.counts[1]))
             /\ Spells(E, 6, Packed(2, item.counts[2]))
             /\ Spells(E, 8, Packed(2, item.counts[3]))
             /\ Spells(E, 10, Packed(2, item.counts[4]))
<1> DEFINE ss == [i \in 1 .. 4 |-> Packed(2, item.counts[i])]
           id == Packed(2, item.header.id)
           flags == Packed(2, Flags(item.header))
           front == id \o flags
           back == FlattenSeq(ss)
           E == Encoded(item)
<1>1. /\ item.header \in Header /\ item.header.id \in Word
      /\ \A i \in 1 .. 4 : item.counts[i] \in Word
      /\ E = front \o back
  BY DEF HeaderItem, Header, Encoded
<1>2. Flags(item.header) \in Word
  <2>1. Flags(item.header) \in Nat /\ Flags(item.header) < 65536
    BY SMT, <1>1, FlagsReadBack
  <2> QED
    BY SMT, <2>1, WordType
<1>3. \A i \in 1 .. 4 : ss[i] \in Seq(Byte) /\ Len(ss[i]) = 2
  BY <1>1, TwoBytes
<1>4. id \in Seq(Byte) /\ Len(id) = 2 /\ flags \in Seq(Byte) /\ Len(flags) = 2
  BY <1>1, <1>2, TwoBytes
<1>5. ss \in Seq(Seq(Byte)) /\ Len(ss) = 4
  <2>1. ss \in [1 .. 4 -> Seq(Byte)]
    BY <1>1, TwoBytes
  <2> QED
    BY <2>1, SeqDef, LenProperties
<1> HIDE DEF ss, id, flags, front, back, E
<1>6. PICK g \in [0 .. 4 -> Seq(Byte)] : OneByOne(ss, g)
  <2>1. \E g \in [0 .. Len(ss) -> Seq(Byte)] : OneByOne(ss, g)
    BY <1>5, Flattened
  <2> QED
    BY <1>5, <2>1
<1>7. g[0] = <<>> /\ g[4] = back /\ \A k \in 1 .. 4 : g[k] = g[k - 1] \o ss[k]
  BY <1>5, <1>6 DEF OneByOne, back
<1>8. /\ back \in Seq(Byte) /\ Len(back) = 8
      /\ Spells(back, 0, ss[1]) /\ Spells(back, 2, ss[2])
      /\ Spells(back, 4, ss[3]) /\ Spells(back, 6, ss[4])
  <2>1. ASSUME NEW k \in 1 .. 4, g[k] = g[k - 1] \o ss[k], Len(g[k - 1]) = 2 * (k - 1)
        PROVE  /\ g[k] \in Seq(Byte) /\ Len(g[k]) = 2 * k
               /\ Spells(g[k], 2 * (k - 1), ss[k])
               /\ \A i \in 1 .. k - 1 : Spells(g[k - 1], 2 * (i - 1), ss[i])
                                          => Spells(g[k], 2 * (i - 1), ss[i])
    <3>1. g[k - 1] \in Seq(Byte) /\ ss[k] \in Seq(Byte) /\ Len(ss[k]) = 2
      BY <1>3, <1>6
    <3>2. g[k] \in Seq(Byte) /\ Len(g[k]) = 2 * (k - 1) + 2 /\ Spells(g[k], 2 * (k - 1), ss[k])
      BY <2>1, <3>1, SpellsBehind
    <3>3. 2 * (k - 1) + 2 = 2 * k
      OBVIOUS
    <3>4. ASSUME NEW i \in 1 .. k - 1, Spells(g[k - 1], 2 * (i - 1), ss[i])
          PROVE  Spells(g[k], 2 * (i - 1), ss[i])
      <4>1. /\ ss[i] \in Seq(Byte) /\ Len(ss[i]) = 2 /\ 2 * (i - 1) \in Nat
            /\ 2 * (i - 1) + 2 <= 2 * (k - 1)
        BY <1>3
      <4> QED
        BY <2>1, <3>1, <3>4, <4>1, SpellsKept
    <3> QED
      BY <3>2, <3>3, <3>4
  <2>2. g[0] \in Seq(Byte) /\ Len(g[0]) = 2 * 0
    BY <1>6, <1>7
  <2> DEFINE Good == {k \in 0 .. 4 : /\ Len(g[k]) = 2 * k
                                     /\ \A i \in 1 .. k : Spells(g[k], 2 * (i - 1), ss[i])}
  <2>3. 0 \in Good
    BY <2>2
  <2>4. ASSUME NEW k \in 1 .. 4, k - 1 \in Good PROVE k \in Good
    <3>1. /\ Len(g[k - 1]) = 2 * (k - 1)
          /\ \A i \in 1 .. k - 1 : Spells(g[k - 1], 2 * (i - 1), ss[i])
      BY <2>4
    <3>2. g[k] = g[k - 1] \o ss[k]
      BY <1>7
    <3>3. /\ Len(g[k]) = 2 * k /\ Spells(g[k], 2 * (k - 1), ss[k])
          /\ \A i \in 1 .. k - 1 : Spells(g[k], 2 * (i - 1), ss[i])
      BY <2>1, <3>1, <3>2
    <3>4. k \in 0 .. 4 /\ \A i \in 1 .. k : i = k \/ i \in 1 .. k - 1
      OBVIOUS
    <3> QED
      BY <3>3, <3>4
  <2> HIDE DEF Good
  <2>5. 4 \in Good
    <3>1. \A k \in 0 .. 4 : k \in Good
      BY <2>3, <2>4, UpTo
    <3> QED
      BY <3>1
  <2>6. /\ Len(g[4]) = 8 /\ g[4] \in Seq(Byte)
        /\ \A i \in 1 .. 4 : Spells(g[4], 2 * (i - 1), ss[i])
    BY <1>6, <2>5 DEF Good
  <2>7. 2 * (1 - 1) = 0 /\ 2 * (2 - 1) = 2 /\ 2 * (3 - 1) = 4 /\ 2 * (4 - 1) = 6
    OBVIOUS
  <2> QED
    BY <1>7, <2>6, <2>7
<1>9. front \in Seq(Byte) /\ Len(front) = 4 /\ Spells(front, 0, id) /\ Spells(front, 2, flags)
  <2>1. /\ front \in Seq(Byte) /\ Len(front) = Len(id) + Len(flags)
        /\ Spells(front, 0, id) /\ Spells(front, Len(id), flags)
    BY <1>4, SpellsBehind DEF front
  <2> QED
    BY <1>4, <2>1
<1>10. E \in Seq(Byte) /\ Len(E) = 12 /\ Spells(E, 0, front) /\ Spells(E, 4, back)
  <2>1. /\ E \in Seq(Byte) /\ Len(E) = Len(front) + Len(back)
        /\ Spells(E, 0, front) /\ Spells(E, Len(front), back)
    BY <1>1, <1>8, <1>9, SpellsBehind
  <2> QED
    BY <1>8, <1>9, <2>1
<1>11. \A o \in {0, 2}, q \in {id, flags} : Spells(front, o, q) => Spells(E, o, q)
  <2> TAKE o \in {0, 2}, q \in {id, flags}
  <2>1. q \in Seq(Byte) /\ Len(q) = 2
    BY <1>4
  <2>2. o \in Nat /\ 0 \in Nat /\ o + 2 <= 4 /\ 0 + o = o
    OBVIOUS
  <2> QED
    BY <1>9, <1>10, <2>1, <2>2, SpellsWithin
<1>12. \A i \in 1 .. 4, o \in {0, 2, 4, 6} : Spells(back, o, ss[i]) => Spells(E, 4 + o, ss[i])
  <2> TAKE i \in 1 .. 4, o \in {0, 2, 4, 6}
  <2>1. /\ o \in Nat /\ 4 \in Nat /\ ss[i] \in Seq(Byte) /\ Len(ss[i]) = 2
        /\ o + 2 <= Len(back)
    BY <1>3, <1>8
  <2> QED
    BY <1>8, <1>10, <2>1, SpellsWithin
<1>13. /\ Spells(E, 0, id) /\ Spells(E, 2, flags) /\ Spells(E, 4 + 0, ss[1])
       /\ Spells(E, 4 + 2, ss[2]) /\ Spells(E, 4 + 4, ss[3]) /\ Spells(E, 4 + 6, ss[4])
  BY <1>8, <1>9, <1>11, <1>12
<1>14. /\ Spells(E, 0, id) /\ Spells(E, 2, flags) /\ Spells(E, 4, ss[1])
       /\ Spells(E, 6, ss[2]) /\ Spells(E, 8, ss[3]) /\ Spells(E, 10, ss[4])
  BY <1>13
<1> QED
  BY <1>10, <1>14 DEF ss, id, flags, E

(* A header and its counts are read back.                                  *)
LEMMA HeaderReadBack ==
  ASSUME buf \in Seq(Byte), NEW at \in Nat, at + 12 <= Len(buf),
         NEW item \in HeaderItem, Spells(buf, at, Encoded(item))
  PROVE  /\ HeaderAt(at) = item.header
         /\ [i \in 1 .. 4 |-> Unpacked(at + 2 + 2 * i, 2)] = item.counts
<1>1. /\ item.header \in Header /\ item.header.id \in Word
      /\ \A i \in 1 .. 4 : item.counts[i] \in Word
      /\ item.counts = [i \in 1 .. 4 |-> item.counts[i]]
  <2>1. item.header \in Header /\ item.counts \in [1 .. 4 -> Word]
    BY DEF HeaderItem
  <2> QED
    BY <2>1 DEF Header
<1>2. Flags(item.header) \in Word
  <2>1. Flags(item.header) \in Nat /\ Flags(item.header) < 65536
    BY SMT, <1>1, FlagsReadBack
  <2> QED
    BY SMT, <2>1, WordType
<1>3. \A o \in Nat, v \in Word :
         o + 2 <= 12 /\ Spells(Encoded(item), o, Packed(2, v)) => Unpacked(at + o, 2) = v
  <2> SUFFICES ASSUME NEW o \in Nat, NEW v \in Word, o + 2 <= 12,
                      Spells(Encoded(item), o, Packed(2, v))
               PROVE  Unpacked(at + o, 2) = v
    OBVIOUS
  <2>1. v \in Nat /\ v < 256 ^ 2 /\ at + o \in Nat /\ at + o + 2 <= Len(buf) /\ 2 \in {2, 4}
    <3>1. 256 ^ 2 = 65536
      BY SMT
    <3>2. Len(buf) \in Nat
      BY LenProperties
    <3> QED
      BY SMT, <3>1, <3>2, WordType
  <2>2. Spells(buf, at + o, Packed(2, v))
    BY HeaderBytes, TwoBytes, SpellsWithin
  <2> QED
    BY <2>1, <2>2, NumberReadBack
<1>4. Unpacked(at, 2) = item.header.id /\ Unpacked(at + 2, 2) = Flags(item.header)
  <2>1. Unpacked(at + 0, 2) = item.header.id
    BY <1>1, <1>3, HeaderBytes
  <2>2. Unpacked(at + 2, 2) = Flags(item.header)
    BY <1>2, <1>3, HeaderBytes
  <2> QED
    BY <2>1, <2>2
<1>5. /\ Unpacked(at + 4, 2) = item.counts[1] /\ Unpacked(at + 6, 2) = item.counts[2]
      /\ Unpacked(at + 8, 2) = item.counts[3] /\ Unpacked(at + 10, 2) = item.counts[4]
  BY <1>1, <1>3, HeaderBytes
<1>6. [i \in 1 .. 4 |-> Unpacked(at + 2 + 2 * i, 2)] = item.counts
  <2>1. ASSUME NEW i \in 1 .. 4 PROVE Unpacked(at + 2 + 2 * i, 2) = item.counts[i]
    <3>1. /\ i = 1 \/ i = 2 \/ i = 3 \/ i = 4
          /\ at + 2 + 2 * 1 = at + 4 /\ at + 2 + 2 * 2 = at + 6 /\ at + 2 + 2 * 3 = at + 8
          /\ at + 2 + 2 * 4 = at + 10
      OBVIOUS
    <3> QED
      BY <1>5, <3>1
  <2> QED
    BY <1>1, <2>1
<1>7. HeaderAt(at) = item.header
  <2> DEFINE h == item.header
  <2>1. h = [id |-> h.id, qr |-> h.qr, opcode |-> h.opcode, aa |-> h.aa, tc |-> h.tc,
             rd |-> h.rd, ra |-> h.ra, rcode |-> h.rcode]
    BY <1>1 DEF Header
  <2> HIDE DEF h
  <2>2. HeaderAt(at)
          = [id |-> Unpacked(at, 2), qr |-> Bits(Flags(h), 15, 1),
             opcode |-> Bits(Flags(h), 11, 4), aa |-> Bits(Flags(h), 10, 1),
             tc |-> Bits(Flags(h), 9, 1), rd |-> Bits(Flags(h), 8, 1),
             ra |-> Bits(Flags(h), 7, 1), rcode |-> Bits(Flags(h), 0, 4)]
    BY <1>4 DEF HeaderAt, h
  <2>3. /\ Bits(Flags(h), 15, 1) = h.qr /\ Bits(Flags(h), 11, 4) = h.opcode
        /\ Bits(Flags(h), 10, 1) = h.aa /\ Bits(Flags(h), 9, 1) = h.tc
        /\ Bits(Flags(h), 8, 1) = h.rd /\ Bits(Flags(h), 7, 1) = h.ra
        /\ Bits(Flags(h), 0, 4) = h.rcode /\ Unpacked(at, 2) = h.id
    BY <1>1, <1>4, FlagsReadBack DEF h
  <2>4. HeaderAt(at)
          = [id |-> h.id, qr |-> h.qr, opcode |-> h.opcode, aa |-> h.aa, tc |-> h.tc,
             rd |-> h.rd, ra |-> h.ra, rcode |-> h.rcode]
    BY <2>2, <2>3, Zenon
  <2> QED
    BY <2>1, <2>4 DEF h
<1> QED
  BY <1>6, <1>7

-----------------------------------------------------------------------------
(* The headers of messages.                                                *)

(* What Message makes of a header that parse takes, whatever its sections. *)
Headed(items) ==
    /\ Listed(items) /\ items # <<>> /\ items[1] \in HeaderItem
    /\ LengthsFirst(items, FALSE)

(* The header is what the bytes begin with, or it is still to be written.  *)
HeaderWritten == Len(buf) >= 12 /\ Spells(buf, 0, Encoded(sent[1]))

Parsed(items) ==
    /\ Listed(items) /\ items # <<>> /\ items[1] \in HeaderItem

WritingHeaded ==
    /\ ~refused /\ sent[1] \in HeaderItem
    /\ Listed(script) /\ LengthsFirst(script, hole >= 12)
    /\ \/ buf = <<>> /\ naming = Nothing /\ script = sent /\ script # <<>>
       \/ HeaderWritten

ReadingHeaded ==
    /\ sent[1] \in HeaderItem /\ HeaderWritten
    /\ \/ got = <<>> /\ expect = Expected /\ cursor = 0 /\ ~refused
       \/ Parsed(got) /\ got[1] = sent[1] /\ expect \in Seq(Expectation)

GivenHeaded ==
    /\ refused => expect # <<>> /\ op # "busy"
    /\ \/ got = <<>> /\ expect = Expected
       \/ Parsed(got) /\ expect \in Seq(Expectation)

HeadedInv ==
    /\ stage = "writing" => WritingHeaded
    /\ stage = "reading" => ReadingHeaded
    /\ stage = "given" => GivenHeaded

(* What is parsed behind a header.                                         *)
LEMMA ParsedConcat ==
  ASSUME NEW s, Parsed(s), NEW t, Listed(t)
  PROVE  Parsed(s \o t) /\ (s \o t)[1] = s[1]
<1>1. Listed(s) /\ Len(s) \in Nat /\ Len(t) \in Nat /\ Len(s) # 0
  BY ListedParts DEF Parsed
<1>2. /\ Listed(s \o t) /\ Len(s \o t) = Len(s) + Len(t)
      /\ \A i \in 1 .. Len(s) + Len(t) :
                (s \o t)[i] = IF i <= Len(s) THEN s[i] ELSE t[i - Len(s)]
  BY <1>1, ListedConcat
<1>3. 1 \in 1 .. Len(s) + Len(t) /\ 1 <= Len(s) /\ Len(s) + Len(t) # 0
  BY <1>1
<1> QED
  BY <1>2, <1>3, ListedParts DEF Parsed

(* A message that was parsed is written again.                             *)
LEMMA ResentHeaded ==
  ASSUME NEW s, Parsed(s), LengthsFirst(s, FALSE)
  PROVE  Headed(Resent(s))
<1> DEFINE r == Resent(s)
<1>1. Listed(s) /\ Len(s) \in Nat /\ Len(s) # 0 /\ s[1] \in HeaderItem
  BY ListedParts DEF Parsed
<1>2. /\ Listed(r) /\ LengthsFirst(r, FALSE) /\ Len(r) = Len(s)
      /\ \A i \in 1 .. Len(s) : r[i] = IF s[i].kind = "name"
                                       THEN NameItem(Pieces(s[i].labels)) ELSE s[i]
  BY <1>1, ResentOrdered
<1> HIDE DEF r
<1>3. 1 \in 1 .. Len(s) /\ s[1].kind = "header"
  BY <1>1 DEF HeaderItem
<1>4. r[1] \in HeaderItem
  BY <1>1, <1>2, <1>3
<1>5. r # <<>>
  BY <1>1, <1>2, ListedParts
<1> QED
  BY <1>2, <1>4, <1>5 DEF Headed, r

(* Bytes are only added behind the header.                                 *)
LEMMA HeaderStays ==
  ASSUME buf \in Seq(Byte), HeaderWritten, sent[1] \in HeaderItem, sent' = sent,
         NEW bytes \in Seq(Byte), buf' = buf \o bytes
  PROVE  HeaderWritten'
<1>1. Encoded(sent[1]) \in Seq(Byte) /\ Len(Encoded(sent[1])) = 12
  BY HeaderBytes
<1>2. Len(buf) >= 12 /\ Spells(buf, 0, Encoded(sent[1]))
  BY DEF HeaderWritten
<1>3. /\ Len(buf) \in Nat /\ Len(bytes) \in Nat /\ Len(buf \o bytes) = Len(buf) + Len(bytes)
  BY LenProperties, ConcatProperties
<1> DEFINE e == Encoded(sent[1])
<1> HIDE DEF e
<1>4. Spells(buf \o bytes, 0, e)
  <2>1. e \in Seq(Byte) /\ Spells(buf, 0, e) /\ 0 + Len(e) <= Len(buf) /\ 0 \in Nat
    BY <1>1, <1>2, <1>3 DEF e
  <2> QED
    BY <2>1, SpellsKept
<1> QED
  BY <1>2, <1>3, <1>4 DEF HeaderWritten, e

(* What the parser takes for a header is one that it takes again.          *)
LEMMA HeaderTaken ==
  ASSUME buf \in Seq(Byte), NEW at \in Nat, at + 12 <= Len(buf),
         HeaderAt(at).opcode \in OpCode, HeaderAt(at).rcode \in ResponseCode
  PROVE  [kind |-> "header", header |-> HeaderAt(at),
          counts |-> [i \in 1 .. 4 |-> Unpacked(at + 2 + 2 * i, 2)]] \in HeaderItem
<1>1. Len(buf) \in Nat
  BY LenProperties
<1>2. \A o \in Nat : o + 2 <= Len(buf) => Unpacked(o, 2) \in Word
  BY UnpackedTwo, WordType
<1>3. /\ at \in Nat /\ at + 2 \in Nat /\ at + 2 <= Len(buf) /\ at + 2 + 2 <= Len(buf)
      /\ \A i \in 1 .. 4 : at + 2 + 2 * i \in Nat /\ at + 2 + 2 * i + 2 <= Len(buf)
  BY <1>1
<1>4. /\ Unpacked(at, 2) \in Word /\ Unpacked(at + 2, 2) \in Word
      /\ \A i \in 1 .. 4 : Unpacked(at + 2 + 2 * i, 2) \in Word
  BY <1>2, <1>3
<1> DEFINE f == Unpacked(at + 2, 2)
<1>5. f \in Nat
  BY <1>4, WordType
<1> HIDE DEF f
<1>6. Bits(f, 15, 1) \in Bit /\ Bits(f, 10, 1) \in Bit /\ Bits(f, 9, 1) \in Bit /\ Bits(f, 8, 1) \in Bit
      /\ Bits(f, 7, 1) \in Bit
  <2>1. \A x \in Int : x % 2 = 0 \/ x % 2 = 1
    BY SMT
  <2>2. 2 ^ 15 = 32768 /\ 2 ^ 10 = 1024 /\ 2 ^ 9 = 512 /\ 2 ^ 8 = 256 /\ 2 ^ 7 = 128 /\ 2 ^ 1 = 2
    BY SMT
  <2>3. /\ f \div 32768 \in Int /\ f \div 1024 \in Int /\ f \div 512 \in Int
        /\ f \div 256 \in Int /\ f \div 128 \in Int
    BY SMT, <1>5
  <2>4. \A x \in Int : x % 2 \in Bit
    BY <2>1 DEF Bit
  <2> QED
    BY ONLY SMT, <2>2, <2>3, <2>4 DEF Bits
<1>7. HeaderAt(at)
        = [id |-> Unpacked(at, 2), qr |-> Bits(f, 15, 1),
           opcode |-> Bits(f, 11, 4), aa |-> Bits(f, 10, 1),
           tc |-> Bits(f, 9, 1), rd |-> Bits(f, 8, 1),
           ra |-> Bits(f, 7, 1), rcode |-> Bits(f, 0, 4)]
  BY DEF HeaderAt, f
<1>8. HeaderAt(at) \in Header
  <2>1. Bits(f, 11, 4) \in OpCode /\ Bits(f, 0, 4) \in ResponseCode
    BY <1>7
  <2> QED
    BY <1>4, <1>6, <1>7, <2>1 DEF Header
<1>9. [i \in 1 .. 4 |-> Unpacked(at + 2 + 2 * i, 2)] \in [1 .. 4 -> Word]
  BY <1>4
<1> QED
  BY <1>8, <1>9 DEF HeaderItem

LEMMA HeadedInit ==
  ASSUME \A m \in Messages : Headed(m)
  PROVE  MessageInit => HeadedInv
<1> SUFFICES ASSUME MessageInit PROVE HeadedInv
  OBVIOUS
<1>1. /\ hole = 0 /\ cursor = 0 /\ got = <<>> /\ refused = FALSE /\ sent = script
      /\ stage = "writing" => script \in Messages /\ buf = <<>>
      /\ stage \in {"writing", "given"} /\ naming = Nothing
      /\ stage # "writing" => expect = Expected
  BY DEF MessageInit, Init
<1>2. CASE stage = "writing"
  <2>1. Headed(script)
    BY <1>1, <1>2
  <2>2. LengthsFirst(script, hole >= 12)
    BY <2>1 DEF Headed, LengthsFirst
  <2>3. WritingHeaded
    BY <1>1, <1>2, <2>1, <2>2 DEF Headed, WritingHeaded
  <2> QED
    BY <1>2, <2>3 DEF HeadedInv
<1>3. CASE stage = "given"
  BY <1>1, <1>3 DEF HeadedInv, GivenHeaded
<1> QED
  BY <1>1, <1>2, <1>3

(* The writer.                                                             *)
LEMMA FieldHeaded == ASSUME CodecInv, HeadedInv, PutField PROVE HeadedInv'
<1> DEFINE bytes == Encoded(Head(script))
<1>1. /\ stage = "writing" /\ naming = Nothing /\ script # <<>> /\ stage' = stage
      /\ Head(script).kind # "patch"
      /\ bytes \in Seq(Byte) /\ buf' = buf \o bytes
      /\ hole' = IF Head(script).kind = "length" THEN Len(buf) ELSE hole
      /\ script' = Tail(script) /\ sent' = sent /\ refused' = refused
  BY DEF PutField, Composing, WriteField, Write, parseVars
<1>2. WritingHeaded
  BY <1>1 DEF HeadedInv
<1>3. /\ ~refused /\ sent[1] \in HeaderItem
      /\ Listed(script) /\ LengthsFirst(script, hole >= 12)
  BY <1>2 DEF WritingHeaded
<1>4. buf \in Seq(Byte) /\ Len(buf) \in Nat /\ hole \in Nat
  BY LenProperties DEF CodecInv, IInv, TypeOK
<1>5. Head(script) = script[1] /\ Listed(Tail(script))
  BY <1>1, <1>3, ListedTail
<1>6. CASE script = sent /\ buf = <<>>
  <2>1. bytes = Encoded(sent[1])
    BY <1>5, <1>6
  <2>2. buf' = bytes
    BY <1>1, <1>6, ConcatEmptySeq
  <2>3. Len(bytes) = 12
    BY <1>3, <2>1, HeaderBytes
  <2> HIDE DEF bytes
  <2>4. Spells(bytes, 0, bytes)
    <3>1. \A j \in 1 .. Len(bytes) : 0 + j = j
      BY <2>3
    <3> QED
      BY <3>1 DEF Spells
  <2>5. HeaderWritten'
    <3>1. sent'[1] = sent[1]
      BY <1>1
    <3>2. Len(buf') >= 12 /\ Spells(buf', 0, Encoded(sent'[1]))
      BY <2>1, <2>2, <2>3, <2>4, <3>1
    <3> QED
      BY <3>2 DEF HeaderWritten
  <2>6. script[1].kind # "length"
    BY <1>3, <1>6 DEF HeaderItem
  <2>7. hole' = hole
    BY <1>1, <1>5, <2>6
  <2>8. LengthsFirst(script', hole' >= 12)
    <3> DEFINE placed == hole >= 12
    <3>1. placed \in BOOLEAN
      OBVIOUS
    <3>2. LengthsFirst(script, placed) /\ (placed \/ script[1].kind = "length" => placed)
      BY <1>3, <2>6
    <3> HIDE DEF placed
    <3>3. LengthsFirst(Tail(script), placed)
      BY <1>1, <1>3, <3>1, <3>2, LengthsFirstTail
    <3> QED
      BY <1>1, <2>7, <3>3 DEF placed
  <2>9. WritingHeaded'
    BY <1>1, <1>3, <1>5, <2>5, <2>8 DEF WritingHeaded
  <2> QED
    BY <1>1, <2>9 DEF HeadedInv
<1>7. CASE HeaderWritten
  <2>1. HeaderWritten'
    BY <1>1, <1>3, <1>4, <1>7, HeaderStays
  <2>2. LengthsFirst(script', hole' >= 12)
    <3> DEFINE placed == hole >= 12
               placed1 == hole' >= 12
    <3>1. placed \in BOOLEAN /\ placed1 \in BOOLEAN /\ LengthsFirst(script, placed)
      BY <1>3
    <3>2. placed \/ script[1].kind = "length" => placed1
      BY <1>1, <1>5, <1>7 DEF HeaderWritten
    <3> HIDE DEF placed, placed1
    <3>3. LengthsFirst(Tail(script), placed1)
      BY <1>1, <1>3, <3>1, <3>2, LengthsFirstTail
    <3> QED
      BY <1>1, <3>3 DEF placed1
  <2>3. WritingHeaded'
    BY <1>1, <1>3, <1>5, <2>1, <2>2 DEF WritingHeaded
  <2> QED
    BY <1>1, <2>3 DEF HeadedInv
<1> QED
  BY <1>2, <1>6, <1>7 DEF WritingHeaded

(* Where the next item is no header, the header has been written.          *)
LEMMA HeaderIsFirst ==
  ASSUME stage = "writing", HeadedInv,
         naming = Nothing /\ script # <<>> => Head(script).kind # "header"
  PROVE  HeaderWritten
<1>1. WritingHeaded
  BY DEF HeadedInv
<1>2. CASE buf = <<>> /\ naming = Nothing /\ script = sent /\ script # <<>>
  <2>1. Head(script) = sent[1] /\ sent[1] \in HeaderItem
    BY <1>1, <1>2, ListedTail DEF WritingHeaded
  <2> QED
    BY <1>2, <2>1 DEF HeaderItem
<1> QED
  BY <1>1, <1>2 DEF WritingHeaded

LEMMA NameHeaded == ASSUME CodecInv, HeadedInv, PutName PROVE HeadedInv'
<1>1. /\ stage = "writing" /\ naming = Nothing /\ script # <<>> /\ stage' = stage
      /\ Head(script).kind = "name" /\ buf' = buf /\ hole' = hole
      /\ script' = Tail(script) /\ sent' = sent /\ refused' = refused
  BY DEF PutName, Composing, BeginName, parseVars
<1>2. /\ ~refused /\ sent[1] \in HeaderItem
      /\ Listed(script) /\ LengthsFirst(script, hole >= 12)
  BY <1>1 DEF HeadedInv, WritingHeaded
<1>3. HeaderWritten
  BY <1>1, HeaderIsFirst
<1>4. Head(script) = script[1] /\ Listed(Tail(script))
  BY <1>1, <1>2, ListedTail
<1>5. LengthsFirst(script', hole' >= 12)
  <2> DEFINE placed == hole >= 12
  <2>1. placed \in BOOLEAN
    OBVIOUS
  <2>2. LengthsFirst(script, placed) /\ (placed \/ script[1].kind = "length" => placed)
    BY <1>1, <1>2, <1>4
  <2> HIDE DEF placed
  <2>3. LengthsFirst(Tail(script), placed)
    BY <1>1, <1>2, <2>1, <2>2, LengthsFirstTail
  <2> QED
    BY <1>1, <2>3 DEF placed
<1>6. WritingHeaded'
  BY <1>1, <1>2, <1>3, <1>4, <1>5 DEF WritingHeaded, HeaderWritten
<1> QED
  BY <1>1, <1>6 DEF HeadedInv

LEMMA PatchHeaded == ASSUME CodecInv, HeadedInv, PatchLength PROVE HeadedInv'
<1> DEFINE bytes == Packed(2, Len(buf) - (hole + 2))
<1>1. /\ stage = "writing" /\ naming = Nothing /\ script # <<>> /\ stage' = stage
      /\ Head(script).kind = "patch" /\ Overwrite(hole, bytes) /\ hole' = hole
      /\ script' = Tail(script) /\ sent' = sent /\ refused' = refused
  BY DEF PatchLength, Composing, Overwrite, parseVars
<1> HIDE DEF bytes
<1>2. /\ ~refused /\ sent[1] \in HeaderItem
      /\ Listed(script) /\ LengthsFirst(script, hole >= 12)
  BY <1>1 DEF HeadedInv, WritingHeaded
<1>3. HeaderWritten
  BY <1>1, HeaderIsFirst
<1>4. Head(script) = script[1] /\ Listed(Tail(script)) /\ Len(script) >= 1 /\ Len(script) \in Nat
  BY <1>1, <1>2, ListedTail, ListedParts
<1>5. hole \in Nat /\ hole >= 12
  <2>1. hole \in Nat
    BY LenProperties DEF CodecInv, IInv, TypeOK
  <2>2. 1 \in 1 .. Len(script) /\ script[1].kind = "patch"
    BY <1>1, <1>4
  <2>3. ~ \E l \in 1 .. 1 - 1 : script[l].kind = "length"
    OBVIOUS
  <2> QED
    BY <1>2, <2>1, <2>2, <2>3 DEF LengthsFirst
<1>6. HeaderWritten'
  <2>1. Encoded(sent[1]) \in Seq(Byte) /\ Len(Encoded(sent[1])) = 12
    BY <1>2, HeaderBytes
  <2>2. Len(buf') = Len(buf)
    BY PatchIsRefill, OverwrittenBytes DEF CodecInv
  <2>3. buf' = [buf EXCEPT ![hole + 1] = bytes[1], ![hole + 2] = bytes[2]]
    BY <1>1 DEF Overwrite
  <2>4. buf \in Seq(Byte) /\ Len(buf) \in Nat /\ DOMAIN buf = 1 .. Len(buf)
    BY LenProperties DEF CodecInv, IInv, TypeOK
  <2>5. \A j \in 1 .. 12 : 0 + j = j /\ j # hole + 1 /\ j # hole + 2
    BY <1>5
  <2>6. \A j \in 1 .. 12 : j \in DOMAIN buf
    BY <1>3, <2>4 DEF HeaderWritten
  <2>7. \A j \in 1 .. 12 : buf'[j] = buf[j]
    BY <2>3, <2>5, <2>6
  <2>8. Spells(buf', 0, Encoded(sent[1]))
    BY SMTT(40), <1>3, <2>1, <2>5, <2>7 DEF HeaderWritten, Spells
  <2> QED
    BY <1>1, <1>3, <2>2, <2>8 DEF HeaderWritten
<1>7. LengthsFirst(script', hole' >= 12)
  <2> DEFINE placed == hole >= 12
  <2>1. placed \in BOOLEAN
    OBVIOUS
  <2>2. LengthsFirst(script, placed) /\ (placed \/ script[1].kind = "length" => placed)
    BY <1>2, <1>5
  <2> HIDE DEF placed
  <2>3. LengthsFirst(Tail(script), placed)
    BY <1>1, <1>2, <2>1, <2>2, LengthsFirstTail
  <2> QED
    BY <1>1, <2>3 DEF placed
<1>8. WritingHeaded'
  BY <1>1, <1>2, <1>4, <1>6, <1>7 DEF WritingHeaded
<1> QED
  BY <1>1, <1>8 DEF HeadedInv

LEMMA WriteNameHeaded ==
  ASSUME CodecInv, HeadedInv, WriteName, UNCHANGED <<scriptVars, parseVars>>
  PROVE  HeadedInv'
<1>1. stage = "writing" /\ naming # Nothing /\ stage' \in {"writing", "lost"}
  BY DEF WriteName, PointBack, WriteLabel, Refuse, WriteRoot, Naming, EndName
<1>2. /\ script' = script /\ sent' = sent /\ refused' = refused /\ hole' = hole
  BY DEF scriptVars, parseVars
<1>3. /\ ~refused /\ sent[1] \in HeaderItem
      /\ Listed(script) /\ LengthsFirst(script, hole >= 12) /\ HeaderWritten
  BY <1>1 DEF HeadedInv, WritingHeaded
<1>4. buf \in Seq(Byte) /\ IInv
  BY DEF CodecInv, IInv, TypeOK
<1>5. PICK bytes \in Seq(Byte) : buf' = buf \o bytes
  BY <1>4, NameIsAppended
<1>6. HeaderWritten'
  BY <1>2, <1>3, <1>4, <1>5, HeaderStays
<1>7. WritingHeaded'
  BY <1>2, <1>3, <1>6 DEF WritingHeaded
<1> QED
  BY <1>1, <1>7 DEF HeadedInv

LEMMA DeliverHeaded == ASSUME CodecInv, HeadedInv, Deliver PROVE HeadedInv'
<1>1. /\ stage = "writing" /\ naming = Nothing /\ script = <<>> /\ stage' = "reading"
      /\ buf' = buf /\ sent' = sent /\ refused' = refused
      /\ expect' = Expected /\ cursor' = 0 /\ got' = <<>>
  BY DEF Deliver, Seal, scriptVars
<1>2. ~refused /\ sent[1] \in HeaderItem /\ HeaderWritten
  BY <1>1 DEF HeadedInv, WritingHeaded
<1>3. ReadingHeaded'
  BY <1>1, <1>2 DEF ReadingHeaded, HeaderWritten
<1> QED
  BY <1>1, <1>3 DEF HeadedInv

LEMMA RelayHeaded == ASSUME CodecInv, HeadedInv, Relay PROVE HeadedInv'
<1>1. /\ stage = "given" /\ expect = <<>> /\ stage' = "writing" /\ buf' = <<>>
      /\ naming' = Nothing /\ script' = Resent(got) /\ sent' = script' /\ hole' = 0
      /\ refused' = refused
  BY DEF Relay, Renew, parseVars
<1>2. GivenHeaded
  BY <1>1 DEF HeadedInv
<1>3. ~refused /\ Parsed(got) /\ LengthsFirst(got, FALSE)
  <2>1. expect # Expected
    BY <1>1 DEF Expected
  <2>2. refused \in BOOLEAN
    BY DEF CodecInv
  <2> QED
    BY <1>1, <1>2, <2>1, <2>2 DEF GivenHeaded, CodecInv, Ordered
<1>4. Headed(script')
  BY <1>1, <1>3, ResentHeaded
<1>5. LengthsFirst(script', hole' >= 12)
  BY <1>4 DEF Headed, LengthsFirst
<1>6. WritingHeaded'
  BY <1>1, <1>3, <1>4, <1>5 DEF WritingHeaded, Headed
<1> QED
  BY <1>1, <1>6 DEF HeadedInv

LEMMA MoreParsed ==
  ASSUME CodecInv', HeadedInv, stage \in {"reading", "given"},
         UNCHANGED <<buf, stage, sent>>, stage = "given" => ~refused',
         expect # Expected, Grows
  PROVE  HeadedInv'
<1>1. PICK t : Listed(t) /\ got' = got \o t
  BY DEF Grows
<1>2. Parsed(got)
  BY DEF HeadedInv, ReadingHeaded, GivenHeaded
<1>3. Parsed(got') /\ got'[1] = got[1]
  BY <1>1, <1>2, ParsedConcat
<1>4. expect' \in Seq(Expectation)
  <2>1. got' # <<>>
    BY <1>3 DEF Parsed
  <2> QED
    BY <2>1 DEF CodecInv, Asked
<1>5. CASE stage = "reading"
  <2>1. ReadingHeaded'
    BY <1>3, <1>4, <1>5 DEF HeadedInv, ReadingHeaded, HeaderWritten
  <2> QED
    BY <1>5, <2>1 DEF HeadedInv
<1>6. CASE stage = "given"
  <2>1. GivenHeaded'
    BY <1>3, <1>4, <1>6 DEF GivenHeaded
  <2> QED
    BY <1>6, <2>1 DEF HeadedInv
<1> QED
  BY <1>5, <1>6

LEMMA HeaderHeaded == ASSUME CodecInv, CodecInv', HeadedInv, ParseHeader PROVE HeadedInv'
<1> DEFINE item == [kind |-> "header", header |-> HeaderAt(cursor),
                    counts |-> [i \in 1 .. 4 |-> Unpacked(cursor + 2 + 2 * i, 2)]]
<1>1. /\ stage \in {"reading", "given"} /\ ~refused /\ Head(expect).kind = "header"
      /\ expect # <<>> /\ refused' = refused /\ UNCHANGED <<buf, stage, sent>>
      /\ got' = got \o <<item>> /\ cursor + 12 <= Len(buf)
      /\ HeaderAt(cursor).opcode \in OpCode /\ HeaderAt(cursor).rcode \in ResponseCode
  BY DEF ParseHeader, Expects, Parsing, Take, nameVars, writerVars, scriptVars
<1>3. buf \in Seq(Byte) /\ cursor \in Nat
  BY DEF CodecInv, IInv, TypeOK
<1>4. item \in HeaderItem
  BY <1>1, <1>3, HeaderTaken
<1>5. got = <<>> /\ expect = Expected
  <2>1. ~(expect \in Seq(Expectation))
    <3>1. \A e \in Expectation : e.kind # "header"
      BY DEF Expectation
    <3> QED
      BY <1>1, <3>1, ExpectTail
  <2> QED
    BY <2>1 DEF CodecInv, Asked
<1> HIDE DEF item
<1>6. got' = <<item>> /\ Listed(<<item>>) /\ <<item>> # <<>> /\ <<item>>[1] = item
      /\ Len(<<item>>) = 1
  <2>1. <<item>> \in Seq({item}) /\ <<item>>[1] = item /\ Len(<<item>>) = 1
    OBVIOUS
  <2>2. got' = <<item>>
    BY <1>1, <1>5, <2>1, ConcatEmptySeq
  <2> QED
    BY <2>1, <2>2, ListedIn
<1>7. Parsed(got') /\ expect' \in Seq(Expectation)
  <2>1. Parsed(got')
    BY <1>4, <1>6 DEF Parsed
  <2>2. got' # <<>>
    BY <1>6
  <2> QED
    BY <2>1, <2>2 DEF CodecInv, Asked
<1>8. CASE stage = "reading"
  <2>1. sent[1] \in HeaderItem /\ HeaderWritten /\ cursor = 0
    BY <1>5, <1>8 DEF HeadedInv, ReadingHeaded, Parsed
  <2>2. item = sent[1]
    <3> DEFINE s == sent[1]
    <3>0. s \in HeaderItem /\ Len(buf) >= 12 /\ Spells(buf, 0, Encoded(s))
      BY <2>1 DEF HeaderWritten
    <3> HIDE DEF s
    <3>1. /\ HeaderAt(0) = s.header
          /\ [i \in 1 .. 4 |-> Unpacked(0 + 2 + 2 * i, 2)] = s.counts
      <4>1. 0 \in Nat /\ 0 + 12 <= Len(buf)
        BY <1>3, <3>0, LenProperties
      <4> QED
        BY <1>3, <3>0, <4>1, HeaderReadBack
    <3>2. s = [kind |-> "header", header |-> s.header, counts |-> s.counts]
      BY <3>0 DEF HeaderItem
    <3>3. item = [kind |-> "header", header |-> s.header, counts |-> s.counts]
      BY <2>1, <3>1 DEF item
    <3> QED
      BY <3>2, <3>3 DEF s
  <2>3. ReadingHeaded'
    BY <1>1, <1>6, <1>7, <2>1, <2>2 DEF ReadingHeaded, HeaderWritten
  <2> QED
    BY <1>1, <1>8, <2>3 DEF HeadedInv
<1>9. CASE stage = "given"
  <2>1. GivenHeaded'
    BY <1>1, <1>7 DEF GivenHeaded
  <2> QED
    BY <1>1, <1>9, <2>1 DEF HeadedInv
<1> QED
  BY <1>1, <1>8, <1>9

LEMMA ItemsHeaded ==
  ASSUME CodecInv, CodecInv', HeadedInv,
         ParseNumber \/ ParseBytes \/ ParseRecord \/ ParseChunk \/ NoMoreChunks \/ ParseEnd
  PROVE  HeadedInv'
<1>1. /\ stage \in {"reading", "given"} /\ ~refused /\ Head(expect).kind # "header"
      /\ refused' = refused /\ UNCHANGED <<buf, stage, sent>>
  BY DEF ParseNumber, ParseBytes, ParseRecord, ParseChunk, NoMoreChunks, ParseEnd, Expects,
         Parsing, Take, nameVars, writerVars, scriptVars
<1>2. expect # Expected
  BY <1>1 DEF Expected
<1>3. Grows
  BY NumberGrows, BytesGrow, RecordGrows, ChunkGrows, NoMoreChunksGrows, EndGrows
<1> QED
  BY <1>1, <1>2, <1>3, MoreParsed

LEMMA ParsedNameHeaded == ASSUME CodecInv, CodecInv', HeadedInv, NameParsed PROVE HeadedInv'
<1>1. /\ op = "busy" /\ UNCHANGED <<buf, stage, sent>> /\ refused' = refused
  BY DEF NameParsed, Return, Iterate, writerVars, scriptVars
<1>2. stage \in {"reading", "given"}
  BY <1>1, BusyReads DEF CodecInv
<1>3. expect # <<>> /\ Head(expect).kind = "name"
  BY <1>1 DEF CodecInv, AskedName
<1>4. expect # Expected
  BY <1>3 DEF Expected
<1>5. stage = "given" => ~refused'
  BY <1>1 DEF HeadedInv, GivenHeaded
<1> QED
  BY <1>1, <1>2, <1>4, <1>5, NameGrows, MoreParsed

(* The parser finds a header where one was written.                        *)
LEMMA FailsHeaded == ASSUME CodecInv, HeadedInv, ParseFails PROVE HeadedInv'
<1>1. /\ stage \in {"reading", "given"} /\ expect # <<>> /\ op \in {"ready", "done"}
      /\ IF Truncated THEN TRUE ELSE Unsupported
      /\ UNCHANGED <<buf, stage, sent, op, expect, cursor, got>>
  BY DEF ParseFails, Parsing, nameVars, writerVars, readerVars, scriptVars
<1>2. CASE stage = "given"
  <2>1. GivenHeaded'
    BY <1>1, <1>2 DEF HeadedInv, GivenHeaded, EndsAsked
  <2> QED
    BY <1>1, <1>2, <2>1 DEF HeadedInv
<1>3. CASE stage = "reading"
  <2>1. ReadingHeaded
    BY <1>3 DEF HeadedInv
  <2>2. ~(got = <<>> /\ expect = Expected /\ cursor = 0)
    <3> SUFFICES ASSUME got = <<>>, expect = Expected, cursor = 0
                 PROVE  FALSE
      OBVIOUS
    <3> DEFINE s == sent[1]
    <3>1. s \in HeaderItem /\ Len(buf) >= 12 /\ Spells(buf, 0, Encoded(s))
      BY <2>1 DEF ReadingHeaded, HeaderWritten
    <3> HIDE DEF s
    <3>2. buf \in Seq(Byte) /\ Len(buf) \in Nat
      BY LenProperties DEF CodecInv, IInv, TypeOK
    <3>3. HeaderAt(0) = s.header
      <4>1. 0 \in Nat /\ 0 + 12 <= Len(buf)
        BY <3>1, <3>2
      <4> QED
        BY <3>1, <3>2, <4>1, HeaderReadBack
    <3>4. ~Unsupported
      <4>1. s.header \in Header
        BY <3>1 DEF HeaderItem
      <4>2. s.header.opcode \in OpCode /\ s.header.rcode \in ResponseCode
        BY <4>1 DEF Header
      <4> QED
        BY <3>3, <4>2 DEF Unsupported
    <3>5. ~Truncated
      <4>1. Head(expect).kind = "header"
        BY DEF Expected
      <4> QED
        BY <3>1, <3>2, <4>1 DEF Truncated
    <3> QED
      BY <1>1, <3>4, <3>5
  <2>3. ReadingHeaded'
    BY <1>1, <2>1, <2>2 DEF ReadingHeaded, HeaderWritten
  <2> QED
    BY <1>1, <1>3, <2>3 DEF HeadedInv
<1> QED
  BY <1>1, <1>2, <1>3

(* The steps of read_name touch none of it.                                *)
LEMMA NameStepHeaded ==
  ASSUME HeadedInv, UNCHANGED <<scriptVars, parseVars>>, UNCHANGED <<buf, stage, naming>>,
         op' = "busy" => op = "busy" \/ ~refused
  PROVE  HeadedInv'
<1>1. UNCHANGED <<script, sent, hole, expect, cursor, got, refused>>
  BY DEF scriptVars, parseVars
<1> QED
  BY <1>1 DEF HeadedInv, WritingHeaded, ReadingHeaded, GivenHeaded, HeaderWritten, EndsAsked

LEMMA HeadedStep ==
  ASSUME CodecInv, CodecInv', HeadedInv, [MessageNext]_vars
  PROVE  HeadedInv'
<1>1. CASE ParseName
  <2>1. UNCHANGED <<scriptVars, parseVars>> /\ UNCHANGED <<buf, stage, naming>> /\ ~refused
    BY <1>1 DEF ParseName, ReadFrom, writerVars, Expects, Parsing
  <2> QED
    BY <2>1, NameStepHeaded
<1>2. CASE (Follow \/ Collect \/ Raise) /\ UNCHANGED <<scriptVars, parseVars>>
  <2>1. UNCHANGED <<buf, stage, naming>> /\ op = "busy"
    BY <1>2 DEF Follow, Collect, Raise, Iterate, writerVars
  <2> QED
    BY <1>2, <2>1, NameStepHeaded
<1>3. CASE Over \/ UNCHANGED vars
  <2>1. UNCHANGED <<scriptVars, parseVars>> /\ UNCHANGED <<buf, stage, naming, op>>
    BY <1>3 DEF Over, vars, nameVars, writerVars, readerVars
  <2> QED
    BY <2>1, NameStepHeaded
<1> QED
  BY <1>1, <1>2, <1>3, FieldHeaded, NameHeaded, PatchHeaded, DeliverHeaded,
     RelayHeaded, WriteNameHeaded, HeaderHeaded, ItemsHeaded, ParsedNameHeaded, FailsHeaded
  DEF MessageNext, Compose, Parse

(* The header and the four counts of a message, its own or one it passes   *)
(* on, are read back as they were written: no name or length that is       *)
(* written later touches them, and the parser never refuses them           *)
(* (Header.to_bytes and Header.parse).                                     *)
HeaderReadsBack ==
    stage = "reading" =>
        IF got = <<>> THEN ~refused ELSE got[1] = sent[1]

THEOREM HeadersReadBack ==
  ASSUME \A m \in Messages : Headed(m)
  PROVE  MessageSpec => []HeaderReadsBack
<1>1. MessageInit => HeadedInv
  BY HeadedInit
<1>2. CodecInv /\ CodecInv' /\ HeadedInv /\ [MessageNext]_vars => HeadedInv'
  BY HeadedStep
<1>3. HeadedInv => HeaderReadsBack
  BY DEF HeadedInv, ReadingHeaded, HeaderReadsBack, Parsed
<1> QED
  BY <1>1, <1>2, <1>3, CodecAlways, PTL DEF MessageSpec

(* Where the items of a message are.  Item i lies from p[i - 1] up to p[i]; *)
(* a patch takes no room and belongs to the length before it, its mate.    *)

Marks(items, i) == items[i].kind \in {"length", "patch"}

Mates(items, l, q) ==
    /\ l < q /\ items[l].kind = "length" /\ items[q].kind = "patch"
    /\ \A j \in l + 1 .. q - 1 : ~Marks(items, j)

IsField(item) == item.kind \notin {"name", "length", "patch"}

Placed(i, p) ==
    /\ IsField(sent[i]) =>
        /\ Encoded(sent[i]) \in Seq(Byte)
        /\ p[i] = p[i - 1] + Len(Encoded(sent[i]))
        /\ Spells(buf, p[i - 1], Encoded(sent[i]))
    /\ sent[i].kind = "length" => p[i] = p[i - 1] + 2
    /\ sent[i].kind = "patch" => p[i] = p[i - 1]
    /\ sent[i].kind = "name" =>
        \E n \in 1 .. Len(stops) :
            /\ n \in 1 .. Len(names) /\ names[n].labels = sent[i].labels
            /\ names[n].start = p[i - 1] /\ stops[n] = p[i]

Patched(l, q, p) == Spells(buf, p[l - 1], Packed(2, p[q - 1] - p[l]))

Laid(k, p) ==
    /\ p \in [0 .. k -> Nat] /\ p[0] = 0
    /\ \A i, j \in 0 .. k : i <= j => p[i] <= p[j]
    /\ \A i \in 1 .. k : Placed(i, p)
    /\ \A l, q \in 1 .. k : Mates(sent, l, q) => Patched(l, q, p)

(* Between the mates of a message lies the body of a record.               *)
LEMMA MatesApart ==
  ASSUME NEW items, NEW k \in Nat, NEW p \in [0 .. k -> Nat],
         \A i, j \in 0 .. k : i <= j => p[i] <= p[j],
         NEW l \in 1 .. k, NEW q \in 1 .. k, Mates(items, l, q)
  PROVE  /\ p[l - 1] \in Nat /\ p[l] \in Nat /\ p[q - 1] \in Nat
         /\ p[q - 1] - p[l] \in Nat
         /\ l - 1 \in 0 .. k /\ q - 1 \in 0 .. k /\ l <= q - 1
<1>1. l <= q - 1 /\ l - 1 \in 0 .. k /\ q - 1 \in 0 .. k /\ l \in 0 .. k
  BY DEF Mates
<1>2. p[l - 1] \in Nat /\ p[l] \in Nat /\ p[q - 1] \in Nat /\ p[l] <= p[q - 1]
  BY <1>1
<1> QED
  BY <1>1, <1>2

(* Bytes that are added, and names, leave those before them as they were.  *)
LEMMA LaidKept ==
  ASSUME NEW k \in Nat, NEW p, NEW n \in Nat, Laid(k, p), p[k] <= n, sent' = sent,
         \A x \in 1 .. n : buf'[x] = buf[x],
         Len(names) \in Nat, Len(names') \in Nat, Len(names) <= Len(names'),
         Len(stops) \in Nat, Len(stops') \in Nat, Len(stops) <= Len(stops'),
         \A x \in 1 .. Len(names) : names'[x] = names[x],
         \A x \in 1 .. Len(stops) : stops'[x] = stops[x]
  PROVE  Laid(k, p)'
<1>1. /\ p \in [0 .. k -> Nat] /\ p[0] = 0
      /\ \A i, j \in 0 .. k : i <= j => p[i] <= p[j]
      /\ \A i \in 1 .. k : Placed(i, p)
      /\ \A l, q \in 1 .. k : Mates(sent, l, q) => Patched(l, q, p)
  BY DEF Laid
<1>2. \A at \in Nat, bytes \in Seq(Byte) :
          Spells(buf, at, bytes) /\ at + Len(bytes) <= n => Spells(buf', at, bytes)
  <2> SUFFICES ASSUME NEW at \in Nat, NEW bytes \in Seq(Byte), Spells(buf, at, bytes),
                      at + Len(bytes) <= n, NEW j \in 1 .. Len(bytes)
               PROVE  buf'[at + j] = bytes[j]
    BY DEF Spells
  <2>1. Len(bytes) \in Nat
    BY LenProperties
  <2>2. at + j \in 1 .. n
    BY <2>1
  <2> QED
    BY <2>2 DEF Spells
<1>3. \A i \in 0 .. k : p[i] \in Nat /\ p[i] <= n
  BY <1>1
<1>4. ASSUME NEW i \in 1 .. k PROVE Placed(i, p)'
  <2>1. Placed(i, p) /\ i \in 0 .. k /\ i - 1 \in 0 .. k
    BY <1>1
  <2>2. ASSUME IsField(sent[i])
        PROVE  Spells(buf', p[i - 1], Encoded(sent[i]))
    <3>1. /\ Encoded(sent[i]) \in Seq(Byte) /\ p[i] = p[i - 1] + Len(Encoded(sent[i]))
          /\ Spells(buf, p[i - 1], Encoded(sent[i]))
      BY <2>1, <2>2 DEF Placed
    <3>2. p[i - 1] \in Nat /\ p[i] <= n
      BY <1>3, <2>1
    <3> QED
      BY <1>2, <3>1, <3>2
  <2>3. ASSUME sent[i].kind = "name"
        PROVE  \E m \in 1 .. Len(stops') :
                   /\ m \in 1 .. Len(names') /\ names'[m].labels = sent[i].labels
                   /\ names'[m].start = p[i - 1] /\ stops'[m] = p[i]
    <3>1. PICK m \in 1 .. Len(stops) :
              /\ m \in 1 .. Len(names) /\ names[m].labels = sent[i].labels
              /\ names[m].start = p[i - 1] /\ stops[m] = p[i]
      BY <2>1, <2>3 DEF Placed
    <3>2. m \in 1 .. Len(stops') /\ m \in 1 .. Len(names')
      BY <3>1
    <3> QED
      BY <3>1, <3>2
  <2> QED
    BY <2>1, <2>2, <2>3 DEF Placed
<1>5. ASSUME NEW l \in 1 .. k, NEW q \in 1 .. k, Mates(sent, l, q)
      PROVE  Patched(l, q, p)'
  <2>1. p[l - 1] \in Nat /\ p[q - 1] - p[l] \in Nat /\ l - 1 \in 0 .. k
    BY <1>1, <1>5, MatesApart
  <2>2. /\ Packed(2, p[q - 1] - p[l]) \in Seq(Byte) /\ Len(Packed(2, p[q - 1] - p[l])) = 2
    BY <2>1, PackedPair
  <2>3. p[l - 1] + 2 <= n
    <3>1. p[l] = p[l - 1] + 2
      BY <1>1, <1>5 DEF Placed, Mates
    <3>2. p[l] <= n
      BY <1>3
    <3> QED
      BY <3>1, <3>2
  <2> QED
    BY <1>1, <1>2, <1>5, <2>1, <2>2, <2>3 DEF Patched
<1> QED
  BY <1>1, <1>4, <1>5 DEF Laid

(* One more item.                                                          *)
Further(p, k, x) == [i \in 0 .. k + 1 |-> IF i = k + 1 THEN x ELSE p[i]]

LEMMA LaidFurther ==
  ASSUME NEW k \in Nat, NEW p, NEW x \in Nat, Laid(k, p)', p[k] <= x,
         Placed(k + 1, Further(p, k, x))',
         \A l \in 1 .. k : Mates(sent', l, k + 1)
            => Spells(buf', p[l - 1], Packed(2, p[k] - p[l]))
  PROVE  Laid(k + 1, Further(p, k, x))'
<1> DEFINE f == Further(p, k, x)
<1>1. /\ p \in [0 .. k -> Nat] /\ p[0] = 0
      /\ \A i, j \in 0 .. k : i <= j => p[i] <= p[j]
      /\ \A i \in 1 .. k : Placed(i, p)'
      /\ \A l, q \in 1 .. k : Mates(sent', l, q) => Patched(l, q, p)'
  BY DEF Laid
<1>2. \A i \in 0 .. k : f[i] = p[i]
  BY DEF Further
<1>3. f \in [0 .. k + 1 -> Nat] /\ f[0] = 0 /\ f[k + 1] = x
  BY <1>1 DEF Further
<1> HIDE DEF f
<1>4. \A i, j \in 0 .. k + 1 : i <= j => f[i] <= f[j]
  <2> SUFFICES ASSUME NEW i \in 0 .. k + 1, NEW j \in 0 .. k + 1, i <= j
               PROVE  f[i] <= f[j]
    OBVIOUS
  <2>1. CASE j \in 0 .. k
    <3>1. i \in 0 .. k
      BY <2>1
    <3> QED
      BY <1>1, <1>2, <2>1, <3>1
  <2>2. CASE i = k + 1
    <3>1. j = k + 1
      BY <2>2
    <3> QED
      BY <1>3, <2>2, <3>1
  <2>3. CASE j = k + 1 /\ i \in 0 .. k
    <3>1. p[i] \in Nat /\ p[k] \in Nat /\ p[i] <= p[k]
      BY <1>1, <2>3
    <3> QED
      BY <1>2, <1>3, <2>3, <3>1
  <2> QED
    BY <2>1, <2>2, <2>3
<1>5. ASSUME NEW i \in 1 .. k + 1 PROVE Placed(i, f)'
  <2>1. CASE i = k + 1
    BY <2>1 DEF f
  <2>2. CASE i # k + 1
    <3>1. i \in 1 .. k /\ i \in 0 .. k /\ i - 1 \in 0 .. k
      BY <2>2
    <3>2. f[i] = p[i] /\ f[i - 1] = p[i - 1]
      BY <1>2, <3>1
    <3> QED
      BY ZenonT(40), <1>1, <3>1, <3>2 DEF Placed
  <2> QED
    BY <2>1, <2>2
<1>6. ASSUME NEW l \in 1 .. k + 1, NEW q \in 1 .. k + 1, Mates(sent', l, q)
      PROVE  Patched(l, q, f)'
  <2>1. l \in 1 .. k /\ l \in 0 .. k /\ l - 1 \in 0 .. k /\ q - 1 \in 0 .. k
    BY <1>6 DEF Mates
  <2>2. f[l] = p[l] /\ f[l - 1] = p[l - 1] /\ f[q - 1] = p[q - 1]
    BY <1>2, <2>1
  <2>3. CASE q = k + 1
    <3>1. q - 1 = k
      BY <2>3
    <3> QED
      BY <1>6, <2>1, <2>2, <2>3, <3>1 DEF Patched
  <2>4. CASE q # k + 1
    <3>1. q \in 1 .. k
      BY <2>4
    <3> QED
      BY <1>1, <1>6, <2>1, <2>2, <3>1 DEF Patched
  <2> QED
    BY <2>3, <2>4
<1>7. k + 1 \in Nat
  OBVIOUS
<1> QED
  BY <1>3, <1>4, <1>5, <1>6 DEF Laid, f

(* A length that is filled in disturbs no other item.                      *)
LEMMA LaidPatched ==
  ASSUME NEW k \in Nat, NEW p, NEW n \in Nat, Laid(k, p), p[k] <= n,
         sent' = sent, names' = names, stops' = stops,
         NEW l \in 1 .. k, Mates(sent, l, k + 1),
         Spells(buf', p[l - 1], Packed(2, p[k] - p[l])),
         \A x \in 1 .. n : x = p[l - 1] + 1 \/ x = p[l - 1] + 2 \/ buf'[x] = buf[x]
  PROVE  Laid(k + 1, Further(p, k, p[k]))'
<1> DEFINE place == p[l - 1]
<1>1. /\ p \in [0 .. k -> Nat] /\ p[0] = 0
      /\ \A i, j \in 0 .. k : i <= j => p[i] <= p[j]
      /\ \A i \in 1 .. k : Placed(i, p)
      /\ \A x, y \in 1 .. k : Mates(sent, x, y) => Patched(x, y, p)
  BY DEF Laid
<1>2. \A i \in 0 .. k : p[i] \in Nat /\ p[i] <= n
  BY <1>1
<1>3. /\ place \in Nat /\ p[l] = place + 2 /\ l \in 0 .. k /\ l - 1 \in 0 .. k
      /\ k \in 0 .. k /\ p[k] \in Nat
  <2>1. sent[l].kind = "length"
    BY DEF Mates
  <2>2. l \in 0 .. k /\ l - 1 \in 0 .. k /\ k \in 0 .. k
    OBVIOUS
  <2> QED
    BY <1>1, <2>1, <2>2 DEF Placed
<1> HIDE DEF place
<1>4. \A at \in Nat, bytes \in Seq(Byte) :
          Spells(buf, at, bytes) /\ at + Len(bytes) <= n
              /\ (at + Len(bytes) <= place \/ place + 2 <= at)
            => Spells(buf', at, bytes)
  <2> SUFFICES ASSUME NEW at \in Nat, NEW bytes \in Seq(Byte), Spells(buf, at, bytes),
                      at + Len(bytes) <= n, at + Len(bytes) <= place \/ place + 2 <= at,
                      NEW j \in 1 .. Len(bytes)
               PROVE  buf'[at + j] = bytes[j]
    BY DEF Spells
  <2>1. Len(bytes) \in Nat
    BY LenProperties
  <2>2. at + j \in 1 .. n /\ at + j # place + 1 /\ at + j # place + 2
    BY <1>3, <2>1
  <2> QED
    BY <2>2 DEF Spells, place
<1>5. \A i \in 1 .. k : i # l => /\ i \in 0 .. k /\ i - 1 \in 0 .. k
                                 /\ p[i] <= place \/ place + 2 <= p[i - 1]
  <2> SUFFICES ASSUME NEW i \in 1 .. k, i # l PROVE p[i] <= place \/ place + 2 <= p[i - 1]
    OBVIOUS
  <2>1. i \in 0 .. k /\ i - 1 \in 0 .. k /\ (i <= l - 1 \/ l <= i - 1)
    OBVIOUS
  <2> QED
    BY <1>1, <1>3, <2>1 DEF place
<1>6. ASSUME NEW i \in 1 .. k PROVE Placed(i, p)'
  <2>1. Placed(i, p)
    BY <1>1
  <2>2. ASSUME IsField(sent[i])
        PROVE  Spells(buf', p[i - 1], Encoded(sent[i]))
    <3>1. /\ Encoded(sent[i]) \in Seq(Byte) /\ p[i] = p[i - 1] + Len(Encoded(sent[i]))
          /\ Spells(buf, p[i - 1], Encoded(sent[i]))
      BY <2>1, <2>2 DEF Placed
    <3>2. i # l
      BY <2>2 DEF IsField, Mates
    <3>3. /\ p[i - 1] \in Nat /\ p[i] <= n
          /\ p[i] <= place \/ place + 2 <= p[i - 1]
      BY <1>2, <1>5, <3>2
    <3> QED
      BY <1>4, <3>1, <3>3
  <2> QED
    BY <2>1, <2>2 DEF Placed
<1>7. ASSUME NEW x \in 1 .. k, NEW y \in 1 .. k, Mates(sent, x, y)
      PROVE  Patched(x, y, p)'
  <2>1. p[x - 1] \in Nat /\ p[y - 1] - p[x] \in Nat
    BY <1>1, <1>7, MatesApart
  <2>2. /\ Packed(2, p[y - 1] - p[x]) \in Seq(Byte) /\ Len(Packed(2, p[y - 1] - p[x])) = 2
    BY <2>1, PackedPair
  <2>3. p[x] = p[x - 1] + 2
    BY <1>1, <1>7 DEF Placed, Mates
  <2>4. x # l
    <3>1. x = l => y \in l + 1 .. k + 1 - 1 /\ Marks(sent, y)
      BY <1>7 DEF Mates, Marks
    <3> QED
      BY <3>1 DEF Mates
  <2>5. p[x] <= n /\ (p[x] <= place \/ place + 2 <= p[x - 1])
    BY <1>2, <1>5, <2>4
  <2>6. Spells(buf, p[x - 1], Packed(2, p[y - 1] - p[x]))
    BY <1>1, <1>7 DEF Patched
  <2>7. Spells(buf', p[x - 1], Packed(2, p[y - 1] - p[x]))
    BY <1>4, <2>1, <2>2, <2>3, <2>5, <2>6
  <2> QED
    BY <2>7 DEF Patched
<1>8. Laid(k, p)'
  BY <1>1, <1>6, <1>7 DEF Laid
<1>9. Placed(k + 1, Further(p, k, p[k]))'
  <2>1. sent[k + 1].kind = "patch"
    BY DEF Mates
  <2>2. Further(p, k, p[k])[k + 1] = p[k] /\ Further(p, k, p[k])[k + 1 - 1] = p[k]
    BY DEF Further
  <2> QED
    BY <2>1, <2>2 DEF Placed, IsField
<1>10. ASSUME NEW x \in 1 .. k, Mates(sent, x, k + 1)
       PROVE  Spells(buf', p[x - 1], Packed(2, p[k] - p[x]))
  <2>1. x = l
    <3>1. x < l => l \in x + 1 .. k + 1 - 1 /\ Marks(sent, l)
      BY DEF Mates, Marks
    <3>2. l < x => x \in l + 1 .. k + 1 - 1 /\ Marks(sent, x)
      BY <1>10 DEF Mates, Marks
    <3>3. x < l \/ x = l \/ l < x
      OBVIOUS
    <3> QED
      BY <1>10, <3>1, <3>2, <3>3 DEF Mates
  <2> QED
    BY <2>1
<1>11. p[k] <= p[k] /\ p[k] \in Nat
  BY <1>3
<1> HIDE DEF Laid
<1> QED
  BY <1>8, <1>9, <1>10, <1>11, LaidFurther

-----------------------------------------------------------------------------
(* What the parser makes of the items of a message.  D[i] is what it       *)
(* expects behind item i; A are the places where it may stop.              *)

AfterHeader(counts) ==
    Repeat(counts[1], <<Expect("name"), ExpectWide("number", 2), ExpectWide("number", 2)>>)
        \o Repeat(counts[2] + counts[3] + counts[4], <<Expect("name"), Expect("record")>>)

(* Behind a length whose patch is still to come.                           *)
Open(items, k) ==
    \E l \in 1 .. k : items[l].kind = "length" /\ \A j \in l + 1 .. k : ~Marks(items, j)

HeaderRule(items, D, i, j) ==
    /\ i = 0 /\ j = 1 /\ Head(D[i]).kind = "header" /\ items[j] \in HeaderItem
    /\ D[j] = AfterHeader(items[j].counts)

NameRule(items, D, i, j) ==
    /\ j = i + 1 /\ Head(D[i]).kind = "name" /\ items[j].kind = "name" /\ D[j] = Tail(D[i])

Fits(width, value) == value \in Nat /\ value < 256 ^ width

NumberRule(items, D, i, j) ==
    /\ j = i + 1 /\ Head(D[i]).kind = "number" /\ D[j] = Tail(D[i])
    /\ Head(D[i]).width \in {2, 4}
    /\ \E v : Fits(Head(D[i]).width, v) /\ items[j] = Number(Head(D[i]).width, v)

BytesRule(items, D, i, j) ==
    /\ j = i + 1 /\ Head(D[i]).kind = "bytes" /\ D[j] = Tail(D[i])
    /\ \E s \in Seq(Byte) : Len(s) = Head(D[i]).width /\ items[j] = Bytes(s)

(* What is left behind the fixed part of a record: its body, its end, and  *)
(* what comes then.                                                        *)
BodyThen(rtype, rdlength, then) == Shape(rtype, rdlength) \o <<Expect("end")>> \o then

(* The number of bytes of a body of an unknown type is what it says.       *)
RecordRule(items, D, i, j) ==
    /\ j = i + 4 /\ Head(D[i]).kind = "record"
    /\ \E v \in Word : items[i + 1] = Number(2, v)
    /\ \E v \in Word : items[i + 2] = Number(2, v)
    /\ \E v : Fits(4, v) /\ items[i + 3] = Number(4, v)
    /\ items[i + 4] = LengthItem
    /\ \E n \in Nat : D[j] = BodyThen(items[i + 1].value, n, Tail(D[i]))

ChunkRule(items, D, i, j) ==
    /\ j = i + 2 /\ Head(D[i]).kind = "chunks" /\ D[j] = D[i] /\ Open(items, i)
    /\ \E s \in Seq(Byte) :
          Len(s) \in Byte /\ items[i + 1] = Number(1, Len(s)) /\ items[i + 2] = Bytes(s)

LastChunkRule(items, D, i, j) ==
    /\ j = i + 1 /\ Head(D[i]).kind = "chunks" /\ items[j] = PatchItem
    /\ Tail(D[i]) # <<>> /\ Head(Tail(D[i])).kind = "end" /\ D[j] = Tail(Tail(D[i]))

EndRule(items, D, i, j) ==
    /\ j = i + 1 /\ Head(D[i]).kind = "end" /\ items[j] = PatchItem /\ D[j] = Tail(D[i])

Parses(items, D, i, j) ==
    /\ D[i] # <<>>
    /\ \/ HeaderRule(items, D, i, j) \/ NameRule(items, D, i, j)
       \/ NumberRule(items, D, i, j) \/ BytesRule(items, D, i, j)
       \/ RecordRule(items, D, i, j) \/ ChunkRule(items, D, i, j)
       \/ LastChunkRule(items, D, i, j) \/ EndRule(items, D, i, j)

Run(items, D, A, n) ==
    /\ 0 \in A /\ n \in A /\ A \subseteq 0 .. n
    /\ D[0] = Expected /\ \A i \in A : i # 0 => D[i] \in Seq(Expectation)
    /\ \A i \in A : i < n => \E j \in A : i < j /\ Parses(items, D, i, j)

Paired(items) ==
    /\ \A q \in 1 .. Len(items) :
          items[q].kind = "patch" => \E l \in 1 .. Len(items) : Mates(items, l, q)
    /\ \A l \in 1 .. Len(items) :
          items[l].kind = "length" => \E q \in 1 .. Len(items) : Mates(items, l, q)

(* A message that parse takes.                                             *)
Parsable(items) == \E D, A : Run(items, D, A, Len(items)) /\ D[Len(items)] = <<>>

WellFormed(items) == Listed(items) /\ Paired(items) /\ Parsable(items)

-----------------------------------------------------------------------------
(* Fields are read back.                                                   *)

LEMMA OctetPacked ==
  ASSUME NEW v \in Byte
  PROVE  Packed(1, v) = <<v>>
<1>1. Packed(1, v)[1] = (v \div (256 ^ (1 - 1))) % 256 /\ Packed(1, v) = <<Packed(1, v)[1]>>
  BY SMT DEF Packed
<1>2. 256 ^ (1 - 1) = 1 /\ (\A n \in Nat : n \div 1 = n) /\ (\A n \in Nat : n < 256 => n % 256 = n)
  BY SMT
<1>3. v \in Nat /\ v < 256
  BY SMT DEF Byte
<1> QED
  BY ONLY SMT, <1>1, <1>2, <1>3

LEMMA BytesReadBack ==
  ASSUME buf \in Seq(Byte), NEW at \in Nat, NEW s \in Seq(Byte), Spells(buf, at, s),
         at + Len(s) <= Len(buf)
  PROVE  SubSeq(buf, at + 1, at + Len(s)) = s
<1> DEFINE m == at + 1
           n == at + Len(s)
           u == SubSeq(buf, m, n)
<1>1. /\ Len(s) \in Nat /\ Len(buf) \in Nat /\ m \in Int /\ n \in Int /\ n - m + 1 = Len(s)
      /\ \A i \in m .. n : i \in 1 .. Len(buf)
      /\ \A i \in 1 .. Len(s) : m + i - 1 = at + i
      /\ (m <= n <=> Len(s) # 0)
  BY LenProperties
<1>2. \A i \in m .. n : buf[i] \in Byte
  BY <1>1, ElementOfSeq
<1> HIDE DEF m, n
<1>3. /\ SubSeq(buf, m, n) \in Seq(Byte)
      /\ Len(SubSeq(buf, m, n)) = IF m <= n THEN n - m + 1 ELSE 0
      /\ \A i \in 1 .. n - m + 1 : SubSeq(buf, m, n)[i] = buf[m + i - 1]
  BY <1>1, <1>2, SubSeqProperties
<1>4. /\ u \in Seq(Byte) /\ Len(u) = Len(s)
      /\ \A i \in 1 .. Len(s) : u[i] = buf[at + i]
  BY <1>1, <1>3
<1> HIDE DEF u
<1>5. \A i \in 1 .. Len(s) : u[i] = s[i]
  BY <1>4 DEF Spells
<1>6. u = s
  BY <1>4, <1>5, SeqEqual
<1> QED
  BY <1>6 DEF u, m, n

(* The whole message lies in the bytes.                                    *)
LaidOut(p) ==
    /\ buf \in Seq(Byte) /\ Len(sent) \in Nat /\ Laid(Len(sent), p)
    /\ p[Len(sent)] = Len(buf)

LEMMA Places ==
  ASSUME NEW p, LaidOut(p), NEW i \in 1 .. Len(sent)
  PROVE  /\ p[i - 1] \in Nat /\ p[i] \in Nat /\ p[i - 1] <= p[i] /\ p[i] <= Len(buf)
         /\ Len(buf) \in Nat /\ buf \in Seq(Byte)
         /\ Placed(i, p)
<1>1. /\ p \in [0 .. Len(sent) -> Nat] /\ \A x, y \in 0 .. Len(sent) : x <= y => p[x] <= p[y]
      /\ \A x \in 1 .. Len(sent) : Placed(x, p)
      /\ Len(sent) \in Nat /\ p[Len(sent)] = Len(buf) /\ buf \in Seq(Byte)
  BY DEF LaidOut, Laid
<1>2. i - 1 \in 0 .. Len(sent) /\ i \in 0 .. Len(sent) /\ Len(sent) \in 0 .. Len(sent)
      /\ i - 1 <= i /\ i <= Len(sent)
  BY <1>1
<1>3. Placed(i, p)
  BY <1>1
<1>4. Len(buf) \in Nat
  BY <1>1, LenProperties
<1> QED
  BY <1>1, <1>2, <1>3, <1>4

LEMMA FieldPlace ==
  ASSUME NEW p, LaidOut(p), NEW i \in 1 .. Len(sent), IsField(sent[i])
  PROVE  /\ p[i] = p[i - 1] + Len(Encoded(sent[i])) /\ Spells(buf, p[i - 1], Encoded(sent[i]))
         /\ Encoded(sent[i]) \in Seq(Byte)
BY Places DEF Placed

LEMMA NumberHere ==
  ASSUME NEW p, LaidOut(p), NEW i \in 1 .. Len(sent), NEW w \in {2, 4}, NEW v,
         Fits(w, v), sent[i] = Number(w, v)
  PROVE  p[i] = p[i - 1] + w /\ Unpacked(p[i - 1], w) = v
<1>1. IsField(sent[i]) /\ Encoded(sent[i]) = Packed(w, v)
  BY DEF Number, IsField, Encoded
<1>2. p[i] = p[i - 1] + Len(Packed(w, v)) /\ Spells(buf, p[i - 1], Packed(w, v))
  BY <1>1, FieldPlace
<1>3. Len(Packed(w, v)) = w
  <2>1. DOMAIN Packed(w, v) = 1 .. w
    BY DEF Packed
  <2>2. Packed(w, v) \in Seq(Byte)
    BY <1>1, FieldPlace
  <2>3. Len(Packed(w, v)) \in Nat /\ 1 .. Len(Packed(w, v)) = 1 .. w
    BY <2>1, <2>2, LenProperties
  <2>4. \A m \in Nat : 1 .. m = 1 .. w => m = w
    BY SMT
  <2> QED
    BY <2>3, <2>4
<1>4. /\ p[i - 1] \in Nat /\ p[i] <= Len(buf) /\ Len(buf) \in Nat /\ buf \in Seq(Byte)
  BY Places
<1>5. v \in Nat /\ v < 256 ^ w
  BY DEF Fits
<1> QED
  BY <1>2, <1>3, <1>4, <1>5, NumberReadBack

LEMMA OctetHere ==
  ASSUME NEW p, LaidOut(p), NEW i \in 1 .. Len(sent), NEW v \in Byte, sent[i] = Number(1, v)
  PROVE  p[i] = p[i - 1] + 1 /\ At(p[i - 1]) = v
<1>1. IsField(sent[i]) /\ Encoded(sent[i]) = <<v>>
  BY OctetPacked DEF Number, IsField, Encoded
<1>2. p[i] = p[i - 1] + Len(<<v>>) /\ Spells(buf, p[i - 1], <<v>>)
  BY <1>1, FieldPlace
<1>3. Len(<<v>>) = 1 /\ <<v>>[1] = v /\ 1 \in 1 .. 1
  OBVIOUS
<1> QED
  BY <1>2, <1>3 DEF Spells, At

LEMMA BytesHere ==
  ASSUME NEW p, LaidOut(p), NEW i \in 1 .. Len(sent), NEW s \in Seq(Byte), sent[i] = Bytes(s)
  PROVE  /\ p[i] = p[i - 1] + Len(s)
         /\ SubSeq(buf, p[i - 1] + 1, p[i - 1] + Len(s)) = s
<1>1. IsField(sent[i]) /\ Encoded(sent[i]) = s
  BY DEF Bytes, IsField, Encoded
<1>2. p[i] = p[i - 1] + Len(s) /\ Spells(buf, p[i - 1], s)
  BY <1>1, FieldPlace
<1>3. p[i - 1] \in Nat /\ p[i] <= Len(buf) /\ buf \in Seq(Byte)
  BY Places
<1> QED
  BY <1>2, <1>3, BytesReadBack

LEMMA HeaderHere ==
  ASSUME NEW p, LaidOut(p), NEW i \in 1 .. Len(sent), sent[i] \in HeaderItem
  PROVE  /\ p[i] = p[i - 1] + 12
         /\ HeaderAt(p[i - 1]) = sent[i].header
         /\ [x \in 1 .. 4 |-> Unpacked(p[i - 1] + 2 + 2 * x, 2)] = sent[i].counts
<1>1. IsField(sent[i])
  BY DEF HeaderItem, IsField
<1>2. Len(Encoded(sent[i])) = 12
  BY HeaderBytes
<1>3. p[i] = p[i - 1] + 12 /\ Spells(buf, p[i - 1], Encoded(sent[i]))
  BY <1>1, <1>2, FieldPlace
<1>4. p[i - 1] \in Nat /\ p[i] <= Len(buf) /\ buf \in Seq(Byte)
  BY Places
<1> DEFINE at == p[i - 1]
           item == sent[i]
<1>5. at \in Nat /\ at + 12 <= Len(buf) /\ item \in HeaderItem /\ Spells(buf, at, Encoded(item))
  BY <1>3, <1>4
<1> HIDE DEF at, item
<1>6. /\ HeaderAt(at) = item.header
      /\ [x \in 1 .. 4 |-> Unpacked(at + 2 + 2 * x, 2)] = item.counts
  BY <1>4, <1>5, HeaderReadBack
<1> QED
  BY <1>3, <1>6 DEF at, item

LEMMA LengthHere ==
  ASSUME NEW p, LaidOut(p), NEW l \in 1 .. Len(sent), NEW q \in 1 .. Len(sent),
         Mates(sent, l, q), Len(buf) < 65536
  PROVE  /\ p[l] = p[l - 1] + 2 /\ l <= q - 1
         /\ p[l] + Unpacked(p[l - 1], 2) = p[q - 1]
<1>1. p[l] = p[l - 1] + 2
  BY Places DEF Placed, Mates
<1>2. /\ p \in [0 .. Len(sent) -> Nat]
      /\ \A i, j \in 0 .. Len(sent) : i <= j => p[i] <= p[j]
      /\ Patched(l, q, p) /\ Len(sent) \in Nat
  BY DEF LaidOut, Laid
<1>3. p[l - 1] \in Nat /\ p[l] \in Nat /\ p[q - 1] \in Nat /\ p[q - 1] - p[l] \in Nat
      /\ l <= q - 1
  <2> DEFINE n == Len(sent)
  <2>1. /\ n \in Nat /\ p \in [0 .. n -> Nat] /\ l \in 1 .. n /\ q \in 1 .. n
        /\ \A i, j \in 0 .. n : i <= j => p[i] <= p[j]
    BY <1>2
  <2> HIDE DEF n
  <2> QED
    BY SMTT(40), <2>1, MatesApart
<1>4. p[q - 1] <= Len(buf) /\ p[l] <= Len(buf) /\ Len(buf) \in Nat /\ buf \in Seq(Byte)
  <2>1. p[l] <= Len(buf) /\ Len(buf) \in Nat /\ buf \in Seq(Byte)
    BY Places
  <2>2. p[q - 1] \in Nat /\ p[q] \in Nat /\ p[q - 1] <= p[q] /\ p[q] <= Len(buf)
    BY Places
  <2>3. \A x, y, z \in Nat : x <= y /\ y <= z => x <= z
    OBVIOUS
  <2> QED
    BY <2>1, <2>2, <2>3
<1> DEFINE v == p[q - 1] - p[l]
           at == p[l - 1]
<1>5. v \in Nat /\ v < 256 ^ 2 /\ at \in Nat /\ at + 2 <= Len(buf) /\ 2 \in {2, 4}
  <2>1. 256 ^ 2 = 65536
    BY SMT
  <2> QED
    BY ONLY SMTT(40), <1>1, <1>3, <1>4, <2>1, Len(buf) < 65536
<1>6. Spells(buf, at, Packed(2, v))
  BY <1>2 DEF Patched
<1> HIDE DEF v, at
<1>7. Unpacked(at, 2) = v
  BY <1>4, <1>5, <1>6, NumberReadBack
<1> QED
  BY <1>1, <1>3, <1>7 DEF v, at

-----------------------------------------------------------------------------
(* While a message is written: k items of it are, and if a name is being   *)
(* written it is the next one.                                             *)

Left(left, items, k) ==
    /\ Listed(left) /\ Len(left) + k = Len(items)
    /\ \A j \in 1 .. Len(left) : left[j] = items[k + j]

(* hole is where the last length is.                                       *)
HoleAt(items, k, p, at) ==
    \A l \in 1 .. k :
        items[l].kind = "length" /\ (\A j \in l + 1 .. k : items[j].kind # "length")
            => at = p[l - 1]

WrittenTo(k, p) ==
    /\ Laid(k, p) /\ p[k] <= Len(buf) /\ HoleAt(sent, k, p, hole)
    /\ naming = Nothing => p[k] = Len(buf) /\ Left(script, sent, k)
    /\ naming # Nothing =>
        /\ k + 1 \in 1 .. Len(sent) /\ sent[k + 1].kind = "name"
        /\ Left(script, sent, k + 1)
        /\ names[Len(names)].labels = sent[k + 1].labels
        /\ names[Len(names)].start = p[k]

Composed ==
    stage = "writing" =>
        /\ WellFormed(sent) /\ ~refused
        /\ \E k \in Nat : \E p \in [0 .. k -> Nat] : WrittenTo(k, p)

LEMMA LeftHead ==
  ASSUME NEW items, Len(items) \in Nat, NEW k \in Nat, NEW left, Left(left, items, k),
         left # <<>>
  PROVE  /\ Head(left) = items[k + 1] /\ k + 1 \in 1 .. Len(items)
         /\ Left(Tail(left), items, k + 1)
<1>1. /\ Listed(left) /\ Len(left) + k = Len(items)
      /\ \A j \in 1 .. Len(left) : left[j] = items[k + j]
  BY DEF Left
<1>2. /\ Head(left) = left[1] /\ Len(left) \in Nat /\ Len(left) >= 1
      /\ Listed(Tail(left)) /\ Len(Tail(left)) = Len(left) - 1
      /\ \A i \in 1 .. Len(left) - 1 : Tail(left)[i] = left[i + 1]
  BY <1>1, ListedTail, ListedParts
<1>3. \A j \in 1 .. Len(left) - 1 : Tail(left)[j] = items[k + 1 + j]
  <2> TAKE j \in 1 .. Len(left) - 1
  <2>1. j + 1 \in 1 .. Len(left) /\ k + (j + 1) = k + 1 + j
    BY <1>2
  <2> QED
    BY <1>1, <1>2, <2>1
<1>4. 1 \in 1 .. Len(left) /\ k + 1 \in 1 .. Len(items) /\ Len(left) - 1 + (k + 1) = Len(items)
  BY <1>1, <1>2
<1> QED
  BY <1>1, <1>2, <1>3, <1>4 DEF Left

(* What is written behind the last item is the next one.                   *)
LEMMA HoleFurther ==
  ASSUME NEW items, NEW k \in Nat, NEW p \in [0 .. k -> Nat], NEW at, HoleAt(items, k, p, at),
         NEW x, NEW next,
         next = IF items[k + 1].kind = "length" THEN p[k] ELSE at
  PROVE  HoleAt(items, k + 1, Further(p, k, x), next)
<1> SUFFICES ASSUME NEW l \in 1 .. k + 1, items[l].kind = "length",
                    \A j \in l + 1 .. k + 1 : items[j].kind # "length"
             PROVE  next = Further(p, k, x)[l - 1]
  BY DEF HoleAt
<1>1. \A i \in 0 .. k : Further(p, k, x)[i] = p[i]
  BY DEF Further
<1>2. CASE l = k + 1
  <2>1. l - 1 = k /\ k \in 0 .. k
    BY <1>2
  <2> QED
    BY <1>1, <1>2, <2>1
<1>3. CASE l # k + 1
  <2>1. l \in 1 .. k /\ k + 1 \in l + 1 .. k + 1 /\ l - 1 \in 0 .. k
        /\ \A j \in l + 1 .. k : j \in l + 1 .. k + 1
    BY <1>3
  <2>2. next = at
    BY <2>1
  <2>3. at = p[l - 1]
    BY <2>1 DEF HoleAt
  <2> QED
    BY <1>1, <2>1, <2>2, <2>3
<1> QED
  BY <1>2, <1>3

LEMMA WriterTypes ==
  ASSUME CodecInv
  PROVE  /\ buf \in Seq(Byte) /\ Len(buf) \in Nat /\ Len(names) \in Nat /\ Len(stops) \in Nat
         /\ names \in Seq([labels : Seq(Label), start : Nat]) /\ stops \in Seq(Nat)
         /\ naming = Nothing => Len(stops) = Len(names)
         /\ naming # Nothing => Len(names) = Len(stops) + 1
         /\ naming \in Seq(Label) \cup {Nothing}
BY LenProperties DEF CodecInv, IInv, TypeOK, Bookkeeping

LEMMA FieldComposed == ASSUME CodecInv, Composed, PutField PROVE Composed'
<1> DEFINE item == Head(script)
           bytes == Encoded(item)
<1>1. /\ stage = "writing" /\ naming = Nothing /\ script # <<>>
      /\ item.kind \notin {"name", "patch"}
      /\ hole' = IF item.kind = "length" THEN Len(buf) ELSE hole
      /\ script' = Tail(script) /\ sent' = sent /\ refused' = refused
      /\ bytes \in Seq(Byte) /\ naming' = Nothing /\ stops' = stops /\ names' = names
      /\ buf' = buf \o bytes /\ stage' = stage
  BY DEF PutField, parseVars, Composing, WriteField, Write
<1>2. /\ WellFormed(sent) /\ ~refused /\ Len(sent) \in Nat
  BY <1>1, ListedParts DEF Composed, WellFormed
<1>3a. PICK k \in Nat : \E p \in [0 .. k -> Nat] : WrittenTo(k, p)
  BY <1>1 DEF Composed
<1>3. PICK p \in [0 .. k -> Nat] : WrittenTo(k, p)
  BY <1>3a
<1>4. /\ Laid(k, p) /\ HoleAt(sent, k, p, hole) /\ p[k] = Len(buf) /\ Left(script, sent, k)
  BY <1>1, <1>3 DEF WrittenTo
<1>5. item = sent[k + 1] /\ k + 1 \in 1 .. Len(sent) /\ Left(Tail(script), sent, k + 1)
  BY <1>1, <1>2, <1>4, LeftHead
<1> HIDE DEF item, bytes
<1> DEFINE n == Len(buf)
<1>6. /\ n \in Nat /\ Len(bytes) \in Nat /\ Len(buf') = n + Len(bytes)
      /\ Spells(buf', 0, buf) /\ Spells(buf', n, bytes)
      /\ Len(names) \in Nat /\ Len(stops) \in Nat
  BY <1>1, WriterTypes, SpellsBehind, LenProperties
<1>7. \A x \in 1 .. n : buf'[x] = buf[x]
  <2>1. \A x \in 1 .. n : 0 + x = x
    BY <1>6
  <2> QED
    BY <1>6, <2>1 DEF Spells
<1>8. p[k] = n
  BY <1>4
<1>8a. PICK v \in Nat : v = Len(buf) + Len(bytes)
  BY <1>6
<1> HIDE DEF n
<1> DEFINE f == Further(p, k, v)
<1>9. Laid(k, p)'
  <2>1. p[k] <= n
    BY <1>6, <1>8
  <2>2. /\ Len(names') \in Nat /\ Len(names) <= Len(names')
        /\ Len(stops') \in Nat /\ Len(stops) <= Len(stops')
        /\ \A x \in 1 .. Len(names) : names'[x] = names[x]
        /\ \A x \in 1 .. Len(stops) : stops'[x] = stops[x]
    BY <1>1, <1>6
  <2> QED
    BY <1>1, <1>4, <1>6, <1>7, <2>1, <2>2, LaidKept
<1>10. v \in Nat /\ p[k] <= v /\ v = n + Len(bytes) /\ Len(buf') = v
  BY <1>6, <1>8, <1>8a DEF n
<1>11. f[k + 1] = v /\ f[k + 1 - 1] = n
  BY <1>8 DEF Further
<1>12. Placed(k + 1, f)'
  <2>1. item.kind = "length" => Len(bytes) = 2
    <3>1. item.kind = "length" => bytes = Packed(2, 0)
      BY DEF bytes, Encoded
    <3> QED
      BY <3>1, PackedPair
  <2>2. item.kind \notin {"name", "patch"} /\ bytes = Encoded(sent'[k + 1]) /\ item = sent'[k + 1]
    BY <1>1, <1>5 DEF item, bytes
  <2> HIDE DEF f
  <2>3. IsField(sent'[k + 1]) =>
            /\ Encoded(sent'[k + 1]) \in Seq(Byte)
            /\ f[k + 1] = f[k + 1 - 1] + Len(Encoded(sent'[k + 1]))
            /\ Spells(buf', f[k + 1 - 1], Encoded(sent'[k + 1]))
    BY <1>1, <1>6, <1>10, <1>11, <2>2
  <2>4. sent'[k + 1].kind = "length" => f[k + 1] = f[k + 1 - 1] + 2
    BY <1>10, <1>11, <2>1, <2>2
  <2> QED
    BY <2>2, <2>3, <2>4 DEF Placed
<1>13. Laid(k + 1, f)'
  <2>1. \A l \in 1 .. k : ~Mates(sent', l, k + 1)
    BY <1>1, <1>5 DEF Mates
  <2> QED
    BY <1>9, <1>10, <1>12, <2>1, LaidFurther
<1>14. HoleAt(sent, k + 1, f, hole')
  <2>1. hole' = IF sent[k + 1].kind = "length" THEN p[k] ELSE hole
    BY <1>1, <1>5, <1>8 DEF n
  <2> QED
    BY <1>4, <2>1, HoleFurther
<1>15. f \in [0 .. k + 1 -> Nat] /\ k + 1 \in Nat
  BY <1>13 DEF Laid
<1>16. WrittenTo(k + 1, f)'
  <2>1. f[k + 1] = Len(buf')
    BY <1>10, <1>11
  <2>2. Len(buf') <= Len(buf')
    BY <1>6
  <2> HIDE DEF f
  <2> QED
    BY <1>1, <1>5, <1>13, <1>14, <2>1, <2>2 DEF WrittenTo
<1>17. WellFormed(sent') /\ ~refused'
  BY <1>1, <1>2
<1> HIDE DEF f
<1> QED
  BY <1>15, <1>16, <1>17 DEF Composed

LEMMA NameComposed == ASSUME CodecInv, Composed, PutName PROVE Composed'
<1>1. /\ stage = "writing" /\ naming = Nothing /\ script # <<>>
      /\ Head(script).kind = "name" /\ hole' = hole
      /\ script' = Tail(script) /\ sent' = sent /\ refused' = refused
      /\ naming' = Head(script).labels /\ naming' \in Seq(Label) /\ stops' = stops
      /\ names' = Append(names, [labels |-> Head(script).labels, start |-> Len(buf)])
      /\ buf' = buf /\ stage' = stage
  BY DEF PutName, parseVars, Composing, BeginName
<1>2. /\ WellFormed(sent) /\ ~refused /\ Len(sent) \in Nat
  BY <1>1, ListedParts DEF Composed, WellFormed
<1>3a. PICK k \in Nat : \E p \in [0 .. k -> Nat] : WrittenTo(k, p)
  BY <1>1 DEF Composed
<1>3. PICK p \in [0 .. k -> Nat] : WrittenTo(k, p)
  BY <1>3a
<1>4. /\ Laid(k, p) /\ HoleAt(sent, k, p, hole) /\ p[k] = Len(buf) /\ Left(script, sent, k)
  BY <1>1, <1>3 DEF WrittenTo
<1>5. Head(script) = sent[k + 1] /\ k + 1 \in 1 .. Len(sent) /\ Left(Tail(script), sent, k + 1)
  BY <1>1, <1>2, <1>4, LeftHead
<1> DEFINE name == [labels |-> Head(script).labels, start |-> Len(buf)]
           T == [labels : Seq(Label), start : Nat]
<1>6. name \in T /\ name.labels = sent[k + 1].labels /\ name.start = p[k]
  BY <1>1, <1>4, <1>5, WriterTypes
<1>7. names \in Seq(T) /\ names' = Append(names, name) /\ Len(names) \in Nat
      /\ Len(stops) \in Nat
  BY <1>1, WriterTypes
<1> HIDE DEF name, T
<1>8. /\ Len(names') = Len(names) + 1 /\ \A x \in 1 .. Len(names) : names'[x] = names[x]
      /\ names'[Len(names')] = name
  BY <1>6, <1>7, AppendProperties
<1>9. Laid(k, p)'
  <2>1. /\ Len(names') \in Nat /\ Len(names) <= Len(names')
        /\ Len(stops') \in Nat /\ Len(stops) <= Len(stops')
        /\ \A x \in 1 .. Len(stops) : stops'[x] = stops[x]
        /\ Len(buf) \in Nat /\ p[k] <= Len(buf) /\ \A x \in 1 .. Len(buf) : buf'[x] = buf[x]
    BY <1>1, <1>4, <1>7, <1>8, WriterTypes
  <2> QED
    BY <1>1, <1>4, <1>7, <1>8, <2>1, LaidKept
<1>10. naming' # Nothing
  BY <1>1, NameCodecConstants
<1>11. p[k] <= Len(buf')
  BY <1>1, <1>4, WriterTypes
<1>12. WrittenTo(k, p)'
  BY <1>1, <1>4, <1>5, <1>6, <1>8, <1>9, <1>10, <1>11 DEF WrittenTo
<1>13. WellFormed(sent') /\ ~refused'
  BY <1>1, <1>2
<1> QED
  BY <1>12, <1>13 DEF Composed

LEMMA WriteNameComposed ==
  ASSUME CodecInv, Composed, WriteName, UNCHANGED <<scriptVars, parseVars>>
  PROVE  Composed'
<1>1. /\ stage = "writing" /\ naming # Nothing /\ script' = script /\ sent' = sent
      /\ refused' = refused /\ hole' = hole /\ names' = names
  BY DEF WriteName, PointBack, WriteLabel, Refuse, WriteRoot, Naming, EndName, scriptVars,
         parseVars
<1>2. /\ WellFormed(sent) /\ ~refused
  BY <1>1 DEF Composed
<1>3a. PICK k \in Nat : \E p \in [0 .. k -> Nat] : WrittenTo(k, p)
  BY <1>1 DEF Composed
<1>3. PICK p \in [0 .. k -> Nat] : WrittenTo(k, p)
  BY <1>3a
<1>4. /\ Laid(k, p) /\ HoleAt(sent, k, p, hole) /\ p[k] <= Len(buf)
      /\ k + 1 \in 1 .. Len(sent) /\ sent[k + 1].kind = "name"
      /\ Left(script, sent, k + 1)
      /\ names[Len(names)].labels = sent[k + 1].labels
      /\ names[Len(names)].start = p[k]
  BY <1>1, <1>3 DEF WrittenTo
<1>5. PICK bytes \in Seq(Byte) : buf' = buf \o bytes
  BY NameIsAppended DEF CodecInv
<1>6. /\ Len(buf) \in Nat /\ Len(buf') \in Nat /\ Len(buf) <= Len(buf')
      /\ \A x \in 1 .. Len(buf) : buf'[x] = buf[x]
  <2>1. buf \in Seq(Byte) /\ Len(buf) \in Nat /\ Len(bytes) \in Nat
    BY <1>5, WriterTypes, LenProperties
  <2>2. Len(buf') = Len(buf) + Len(bytes)
        /\ \A i \in 1 .. Len(buf) + Len(bytes) :
              buf'[i] = IF i <= Len(buf) THEN buf[i] ELSE bytes[i - Len(buf)]
    BY <1>5, <2>1, ConcatProperties
  <2> QED
    BY <2>1, <2>2
<1>7. /\ names \in Seq([labels : Seq(Label), start : Nat]) /\ stops \in Seq(Nat)
      /\ Len(names) \in Nat /\ Len(stops) \in Nat /\ Len(names) = Len(stops) + 1
  BY <1>1, WriterTypes
<1>8. CASE WriteLabel
  <2>1. naming' # Nothing /\ stops' = stops
    <3>1. naming' = Tail(naming) /\ naming \in Seq(Label) /\ naming # <<>>
      BY <1>1, <1>8, WriterTypes DEF WriteLabel, Naming
    <3>2. naming' \in Seq(Label)
      BY <3>1, HeadTailProperties
    <3>3. naming' # Nothing
      BY <3>2, NameCodecConstants
    <3>4. stops' = stops
      BY <1>8 DEF WriteLabel
    <3> QED
      BY <3>3, <3>4
  <2>2. Laid(k, p)'
    <3>1. /\ Len(names') \in Nat /\ Len(names) <= Len(names')
          /\ Len(stops') \in Nat /\ Len(stops) <= Len(stops')
          /\ \A x \in 1 .. Len(names) : names'[x] = names[x]
          /\ \A x \in 1 .. Len(stops) : stops'[x] = stops[x]
      BY <1>1, <1>7, <2>1
    <3> QED
      BY <1>1, <1>4, <1>6, <1>7, <3>1, LaidKept
  <2>3. p[k] <= Len(buf')
    BY <1>4, <1>6
  <2>4. WrittenTo(k, p)'
    BY <1>1, <1>4, <2>1, <2>2, <2>3 DEF WrittenTo
  <2> QED
    BY <1>1, <1>2, <2>4 DEF Composed
<1>9. CASE PointBack \/ WriteRoot
  <2>1. naming' = Nothing /\ stops' = Append(stops, Len(buf'))
    BY <1>9 DEF PointBack, WriteRoot, EndName
  <2>2. /\ Len(stops') = Len(stops) + 1 /\ stops'[Len(stops')] = Len(buf')
        /\ \A x \in 1 .. Len(stops) : stops'[x] = stops[x]
    BY <1>6, <1>7, <2>1, AppendProperties
  <2>3. Laid(k, p)'
    <3>1. /\ Len(names') \in Nat /\ Len(names) <= Len(names')
          /\ Len(stops') \in Nat /\ Len(stops) <= Len(stops')
          /\ \A x \in 1 .. Len(names) : names'[x] = names[x]
      BY <1>1, <1>7, <2>2
    <3> QED
      BY <1>1, <1>4, <1>6, <1>7, <2>2, <3>1, LaidKept
  <2>3a. PICK x \in Nat : x = Len(buf')
    BY <1>6
  <2> DEFINE f == Further(p, k, x)
  <2>4. x \in Nat /\ p[k] <= x
    BY <1>4, <1>6, <2>3a
  <2>5. f[k + 1] = x /\ f[k + 1 - 1] = p[k]
    BY DEF Further
  <2>6. Placed(k + 1, f)'
    <3>1. sent'[k + 1].kind = "name" /\ ~IsField(sent'[k + 1])
      BY <1>1, <1>4 DEF IsField
    <3>2. \E n \in 1 .. Len(stops') :
            /\ n \in 1 .. Len(names') /\ names'[n].labels = sent'[k + 1].labels
            /\ names'[n].start = f[k + 1 - 1] /\ stops'[n] = f[k + 1]
      <4>1. Len(names') \in 1 .. Len(stops') /\ Len(names') \in 1 .. Len(names')
            /\ Len(names') = Len(stops')
        BY <1>1, <1>7, <2>2
      <4>2. /\ names'[Len(names')].labels = sent'[k + 1].labels
            /\ names'[Len(names')].start = p[k]
        BY <1>1, <1>4
      <4> HIDE DEF f
      <4> QED
        BY <2>2, <2>3a, <2>5, <4>1, <4>2
    <3> HIDE DEF f
    <3> QED
      BY <3>1, <3>2 DEF Placed
  <2>7. Laid(k + 1, f)'
    <3>1. \A l \in 1 .. k : ~Mates(sent', l, k + 1)
      BY <1>1, <1>4 DEF Mates
    <3> QED
      BY <2>3, <2>4, <2>6, <3>1, LaidFurther
  <2>8. HoleAt(sent, k + 1, f, hole)
    BY <1>4, HoleFurther
  <2>9. f \in [0 .. k + 1 -> Nat] /\ k + 1 \in Nat
    BY <2>7 DEF Laid
  <2> HIDE DEF f
  <2>10. WrittenTo(k + 1, f)'
    <3>1. f[k + 1] = Len(buf') /\ f[k + 1] <= Len(buf')
      BY <2>3a, <2>4, <2>5
    <3> QED
      BY <1>1, <1>4, <2>1, <2>7, <2>8, <3>1 DEF WrittenTo
  <2> QED
    BY <1>1, <1>2, <2>9, <2>10 DEF Composed
<1>10. CASE Refuse
  BY <1>10 DEF Refuse, Composed
<1> QED
  BY <1>8, <1>9, <1>10 DEF WriteName

LEMMA MatesUnique ==
  ASSUME NEW items, NEW l \in Nat, NEW q \in Nat, NEW r \in Nat, Mates(items, l, q)
  PROVE  /\ Mates(items, l, r) => r = q
         /\ Mates(items, r, q) => r = l
<1>1. Mates(items, l, r) /\ q < r => q \in l + 1 .. r - 1 /\ Marks(items, q)
  BY DEF Mates, Marks
<1>2. Mates(items, l, r) /\ r < q => r \in l + 1 .. q - 1 /\ Marks(items, r)
  BY DEF Mates, Marks
<1>3. Mates(items, r, q) /\ r < l => l \in r + 1 .. q - 1 /\ Marks(items, l)
  BY DEF Mates, Marks
<1>4. Mates(items, r, q) /\ l < r => r \in l + 1 .. q - 1 /\ Marks(items, r)
  BY DEF Mates, Marks
<1>5. q < r \/ r < q \/ r = q
  OBVIOUS
<1>6. r < l \/ l < r \/ r = l
  OBVIOUS
<1>7. Mates(items, l, r) => r = q
  BY <1>1, <1>2, <1>5 DEF Mates
<1>8. Mates(items, r, q) => r = l
  BY <1>3, <1>4, <1>6 DEF Mates
<1> QED
  BY <1>7, <1>8

LEMMA PatchComposed == ASSUME CodecInv, Composed, PatchLength PROVE Composed'
<1> DEFINE bytes == Packed(2, Len(buf) - (hole + 2))
<1>1. /\ stage = "writing" /\ naming = Nothing /\ script # <<>> /\ stage' = stage
      /\ Head(script).kind = "patch" /\ Overwrite(hole, bytes) /\ hole' = hole
      /\ script' = Tail(script) /\ sent' = sent /\ refused' = refused
      /\ naming' = naming /\ names' = names /\ stops' = stops
  BY DEF PatchLength, Composing, Overwrite, parseVars
<1>2. /\ WellFormed(sent) /\ ~refused /\ Len(sent) \in Nat
  BY <1>1, ListedParts DEF Composed, WellFormed
<1>3. PICK k \in Nat : \E p \in [0 .. k -> Nat] : WrittenTo(k, p)
  BY <1>1 DEF Composed
<1>4. PICK p \in [0 .. k -> Nat] : WrittenTo(k, p)
  BY <1>3
<1>5. /\ Laid(k, p) /\ HoleAt(sent, k, p, hole) /\ p[k] = Len(buf) /\ Left(script, sent, k)
  BY <1>1, <1>4 DEF WrittenTo
<1>6. Head(script) = sent[k + 1] /\ k + 1 \in 1 .. Len(sent) /\ Left(Tail(script), sent, k + 1)
  BY <1>1, <1>2, <1>5, LeftHead
<1>7. PICK l \in 1 .. Len(sent) : Mates(sent, l, k + 1)
  BY <1>1, <1>2, <1>6 DEF WellFormed, Paired
<1>8. l \in 1 .. k /\ sent[l].kind = "length"
  BY <1>2, <1>7 DEF Mates
<1>9. hole = p[l - 1] /\ p[l] = hole + 2 /\ p[l - 1] \in Nat
  <2>1. \A j \in l + 1 .. k : sent[j].kind # "length"
    BY <1>7, <1>8 DEF Mates, Marks
  <2>2. hole = p[l - 1]
    BY <1>5, <1>8, <2>1 DEF HoleAt
  <2>3. Placed(l, p) /\ l - 1 \in 0 .. k
    BY <1>5, <1>8 DEF Laid
  <2> QED
    BY <1>8, <2>2, <2>3 DEF Placed
<1>10. bytes = Packed(2, p[k] - p[l])
  BY <1>5, <1>9
<1> HIDE DEF bytes
<1>11. /\ buf \in Seq(Byte) /\ Len(buf) \in Nat /\ DOMAIN buf = 1 .. Len(buf)
  BY LenProperties DEF CodecInv, IInv, TypeOK
<1>12. /\ bytes = <<buf'[hole + 1], buf'[hole + 2]>> /\ Len(buf') = Len(buf)
  <2>1. Refill(hole, bytes)
    BY PatchIsRefill DEF bytes
  <2> QED
    BY <2>1, OverwrittenBytes DEF CodecInv
<1>13. Spells(buf', p[l - 1], Packed(2, p[k] - p[l]))
  <2>1. Len(bytes) = 2 /\ bytes[1] = buf'[hole + 1] /\ bytes[2] = buf'[hole + 2]
    BY <1>12
  <2>2. \A j \in 1 .. 2 : j = 1 \/ j = 2
    OBVIOUS
  <2> QED
    BY <1>9, <1>10, <2>1, <2>2 DEF Spells
<1>14. \A x \in 1 .. Len(buf) : x = p[l - 1] + 1 \/ x = p[l - 1] + 2 \/ buf'[x] = buf[x]
  <2>1. buf' = [buf EXCEPT ![hole + 1] = bytes[1], ![hole + 2] = bytes[2]]
    BY <1>1 DEF Overwrite
  <2> QED
    BY <1>9, <1>11, <2>1
<1>15. p[k] \in Nat /\ p[k] <= Len(buf)
  BY <1>5, <1>11
<1> DEFINE f == Further(p, k, p[k])
<1>16. Laid(k + 1, f)'
  BY <1>1, <1>5, <1>7, <1>8, <1>11, <1>13, <1>14, <1>15, LaidPatched
<1>17. HoleAt(sent, k + 1, f, hole)
  <2>1. hole = IF sent[k + 1].kind = "length" THEN p[k] ELSE hole
    BY <1>1, <1>6
  <2> QED
    BY <1>5, <2>1, HoleFurther
<1>18. f \in [0 .. k + 1 -> Nat] /\ k + 1 \in Nat
  BY <1>16 DEF Laid
<1>19. f[k + 1] = Len(buf') /\ Len(buf') <= Len(buf')
  BY <1>5, <1>11, <1>12 DEF Further
<1> HIDE DEF f
<1>20. WrittenTo(k + 1, f)'
  BY <1>1, <1>6, <1>16, <1>17, <1>19 DEF WrittenTo
<1> QED
  BY <1>1, <1>2, <1>18, <1>20 DEF Composed

(* The message is complete when nothing is left to be written.             *)
LEMMA AllLaidOut ==
  ASSUME CodecInv, Composed, stage = "writing", naming = Nothing, script = <<>>
  PROVE  /\ WellFormed(sent) /\ ~refused
         /\ \E p \in [0 .. Len(sent) -> Nat] : LaidOut(p)
<1>1. WellFormed(sent) /\ ~refused /\ Len(sent) \in Nat
  BY ListedParts DEF Composed, WellFormed
<1>2. PICK k \in Nat : \E p \in [0 .. k -> Nat] : WrittenTo(k, p)
  BY DEF Composed
<1>3. PICK p \in [0 .. k -> Nat] : WrittenTo(k, p)
  BY <1>2
<1>4. Laid(k, p) /\ p[k] = Len(buf) /\ Left(script, sent, k)
  BY <1>3 DEF WrittenTo
<1>5. k = Len(sent)
  <2>1. Len(script) = 0 /\ Len(script) + k = Len(sent)
    BY <1>4 DEF Left
  <2> QED
    BY <1>1, <2>1
<1>6. LaidOut(p) /\ p \in [0 .. Len(sent) -> Nat]
  BY <1>1, <1>3, <1>4, <1>5, WriterTypes DEF LaidOut
<1> QED
  BY <1>1, <1>6

LEMMA ComposedFromScratch ==
  ASSUME stage' = "writing", WellFormed(sent'), ~refused', script' = sent', naming' = Nothing,
         buf' = <<>>
  PROVE  Composed'
<1> DEFINE p == [i \in 0 .. 0 |-> 0]
<1>1. p \in [0 .. 0 -> Nat] /\ p[0] = 0 /\ Len(buf') = 0
  OBVIOUS
<1>2. 1 .. 0 = {}
  OBVIOUS
<1>3. \A i, j \in 0 .. 0 : p[i] <= p[j]
  OBVIOUS
<1> HIDE DEF p
<1>4. Laid(0, p)'
  BY <1>1, <1>2, <1>3 DEF Laid
<1>5. HoleAt(sent', 0, p, hole')
  BY <1>2 DEF HoleAt
<1>6. Left(script', sent', 0)
  <2>1. Listed(sent') /\ Len(sent') \in Nat
    BY ListedParts DEF WellFormed
  <2>2. \A j \in 1 .. Len(sent') : 0 + j = j
    BY <2>1
  <2> QED
    BY <2>1, <2>2 DEF Left
<1>7. WrittenTo(0, p)'
  BY <1>1, <1>4, <1>5, <1>6 DEF WrittenTo
<1> QED
  BY <1>1, <1>7 DEF Composed

-----------------------------------------------------------------------------
(* While the message is read at the other end: k items of it are.          *)

(* The chunks of a body have all been read, its end has not.               *)
ClosingBody(D, k) ==
    /\ D[k] # <<>> /\ Head(D[k]).kind = "chunks"
    /\ expect = Tail(D[k]) /\ expect # <<>> /\ Head(expect).kind = "end"

(* The body that is being read ends where its length is patched.           *)
LimitAt(items, k, p, at) ==
    \A l, q \in 1 .. Len(items) : Mates(items, l, q) /\ l <= k /\ k < q => at = p[q - 1]

ReadTo(k, p) ==
    /\ k \in 0 .. Len(sent) /\ Listed(got) /\ Len(got) = k
    /\ \A j \in 1 .. k : got[j] = Normal(sent[j])
    /\ cursor = p[k] /\ LimitAt(sent, k, p, limit)

Along(D, A, p, k) ==
    /\ LaidOut(p) /\ Run(sent, D, A, Len(sent)) /\ D[Len(sent)] = <<>>
    /\ k \in A /\ ReadTo(k, p)
    /\ \/ expect = D[k]
       \/ ClosingBody(D, k) /\ sent[k + 1] = PatchItem

ReadingAlong ==
    stage = "reading" /\ Len(buf) < 65536 =>
        /\ ~refused /\ Paired(sent)
        /\ op = "busy" => from = cursor
        /\ \E D, A, p, k : Along(D, A, p, k)

LEMMA WhichRule ==
  ASSUME NEW items, NEW D, NEW i, NEW j, Parses(items, D, i, j)
  PROVE  /\ Head(D[i]).kind = "header" => HeaderRule(items, D, i, j)
         /\ Head(D[i]).kind = "name" => NameRule(items, D, i, j)
         /\ Head(D[i]).kind = "number" => NumberRule(items, D, i, j)
         /\ Head(D[i]).kind = "bytes" => BytesRule(items, D, i, j)
         /\ Head(D[i]).kind = "record" => RecordRule(items, D, i, j)
         /\ Head(D[i]).kind = "chunks" => ChunkRule(items, D, i, j) \/ LastChunkRule(items, D, i, j)
         /\ Head(D[i]).kind = "end" => EndRule(items, D, i, j)
<1>1. HeaderRule(items, D, i, j) => Head(D[i]).kind = "header"
  BY DEF HeaderRule
<1>2. NameRule(items, D, i, j) => Head(D[i]).kind = "name"
  BY DEF NameRule
<1>3. NumberRule(items, D, i, j) => Head(D[i]).kind = "number"
  BY DEF NumberRule
<1>4. BytesRule(items, D, i, j) => Head(D[i]).kind = "bytes"
  BY DEF BytesRule
<1>5. RecordRule(items, D, i, j) => Head(D[i]).kind = "record"
  BY DEF RecordRule
<1>6. ChunkRule(items, D, i, j) \/ LastChunkRule(items, D, i, j) => Head(D[i]).kind = "chunks"
  BY DEF ChunkRule, LastChunkRule
<1>7. EndRule(items, D, i, j) => Head(D[i]).kind = "end"
  BY DEF EndRule
<1> QED
  BY <1>1, <1>2, <1>3, <1>4, <1>5, <1>6, <1>7 DEF Parses

(* As long as something is expected, the message goes on.                  *)
LEMMA GoesOn ==
  ASSUME NEW D, NEW A, NEW p, NEW k, Along(D, A, p, k), D[k] # <<>>
  PROVE  /\ k \in Nat /\ k < Len(sent) /\ Len(sent) \in Nat /\ k + 1 \in 1 .. Len(sent)
         /\ \E j \in A : j \in 1 .. Len(sent) /\ k < j /\ Parses(sent, D, k, j)
<1>1. /\ Run(sent, D, A, Len(sent)) /\ D[Len(sent)] = <<>> /\ k \in A /\ LaidOut(p)
  BY DEF Along
<1>2. /\ A \subseteq 0 .. Len(sent) /\ Len(sent) \in Nat
      /\ \A i \in A : i < Len(sent) => \E j \in A : i < j /\ Parses(sent, D, i, j)
  BY <1>1 DEF Run, LaidOut
<1>3. k \in 0 .. Len(sent) /\ k # Len(sent)
  BY <1>1, <1>2
<1>4. k \in Nat /\ k < Len(sent) /\ k + 1 \in 1 .. Len(sent)
  BY <1>2, <1>3
<1>5. PICK j \in A : k < j /\ Parses(sent, D, k, j)
  BY <1>1, <1>2, <1>4
<1>6. j \in 1 .. Len(sent)
  BY <1>2, <1>4, <1>5
<1> QED
  BY <1>2, <1>4, <1>5, <1>6

(* Items other than lengths do not move the end of the body.               *)
LEMMA LimitKept ==
  ASSUME NEW items, Len(items) \in Nat, NEW k \in Nat, NEW j \in Nat, k <= j, NEW p, NEW at,
         LimitAt(items, k, p, at), \A i \in k + 1 .. j : items[i].kind # "length"
  PROVE  LimitAt(items, j, p, at)
<1> SUFFICES ASSUME NEW l \in 1 .. Len(items), NEW q \in 1 .. Len(items),
                    Mates(items, l, q), l <= j, j < q
             PROVE  at = p[q - 1]
  BY DEF LimitAt
<1>1. items[l].kind = "length"
  BY DEF Mates
<1>2. l <= k
  <2>1. ~(l <= k) => l \in k + 1 .. j
    OBVIOUS
  <2> QED
    BY <1>1, <2>1
<1>3. k < q
  OBVIOUS
<1> QED
  BY <1>2, <1>3 DEF LimitAt

(* What is read next agrees with what was written next.                    *)
LEMMA Advance ==
  ASSUME NEW D, NEW A, NEW p, NEW k, Along(D, A, p, k), NEW j \in A, k < j, NEW t,
         UNCHANGED <<buf, sent, names, stops>>,
         Listed(t), Len(t) = j - k, \A x \in 1 .. j - k : t[x] = Normal(sent[k + x]),
         got' = got \o t, cursor' = p[j], expect' = D[j], LimitAt(sent, j, p, limit')
  PROVE  Along(D, A, p, j)'
<1>1. /\ LaidOut(p) /\ Run(sent, D, A, Len(sent)) /\ D[Len(sent)] = <<>> /\ k \in A
      /\ ReadTo(k, p)
  BY DEF Along
<1>2. Len(sent) \in Nat /\ A \subseteq 0 .. Len(sent)
  BY <1>1 DEF LaidOut, Run
<1>3. /\ k \in 0 .. Len(sent) /\ Listed(got) /\ Len(got) = k
      /\ \A x \in 1 .. k : got[x] = Normal(sent[x])
  BY <1>1 DEF ReadTo
<1>4. j \in 0 .. Len(sent) /\ k \in Nat /\ j \in Nat
  BY <1>2, <1>3
<1>5. /\ Listed(got') /\ Len(got') = k + (j - k)
      /\ \A i \in 1 .. k + (j - k) : got'[i] = IF i <= k THEN got[i] ELSE t[i - k]
  <2>1. /\ Listed(got \o t) /\ Len(got \o t) = Len(got) + Len(t)
        /\ \A i \in 1 .. Len(got) + Len(t) :
               (got \o t)[i] = IF i <= Len(got) THEN got[i] ELSE t[i - Len(got)]
    BY <1>3, ListedConcat
  <2> QED
    BY <1>3, <2>1
<1>6. Len(got') = j
  BY <1>4, <1>5
<1>7. ASSUME NEW i \in 1 .. j PROVE got'[i] = Normal(sent[i])
  <2>1. i \in 1 .. k + (j - k)
    BY <1>4
  <2>2. CASE i <= k
    <3>1. i \in 1 .. k
      BY <1>4, <2>2
    <3> QED
      BY <1>3, <1>5, <2>1, <2>2, <3>1
  <2>3. CASE ~(i <= k)
    <3>1. i - k \in 1 .. j - k /\ k + (i - k) = i
      BY <1>4, <2>3
    <3> QED
      BY <1>5, <2>1, <2>3, <3>1
  <2> QED
    BY <2>2, <2>3
<1>8. ReadTo(j, p)'
  BY <1>4, <1>5, <1>6, <1>7 DEF ReadTo
<1>9. LaidOut(p)'
  BY <1>1 DEF LaidOut, Laid, Placed, Patched
<1>10. Run(sent', D, A, Len(sent')) /\ D[Len(sent')] = <<>>
  BY <1>1
<1> QED
  BY <1>8, <1>9, <1>10 DEF Along

LEMMA Singleton ==
  ASSUME NEW e
  PROVE  Listed(<<e>>) /\ Len(<<e>>) = 1 /\ <<e>>[1] = e
<1>1. <<e>> \in Seq({e}) /\ Len(<<e>>) = 1 /\ <<e>>[1] = e
  OBVIOUS
<1> QED
  BY <1>1, ListedIn

(* The same with a single item.                                            *)
LEMMA AdvanceByOne ==
  ASSUME NEW D, NEW A, NEW p, NEW k, Along(D, A, p, k), k + 1 \in A, NEW e,
         UNCHANGED <<buf, sent, names, stops, limit>>,
         e = Normal(sent[k + 1]), sent[k + 1].kind # "length",
         got' = got \o <<e>>, cursor' = p[k + 1], expect' = D[k + 1]
  PROVE  Along(D, A, p, k + 1)'
<1>1. k \in Nat /\ k + 1 \in Nat /\ k <= k + 1 /\ Len(sent) \in Nat /\ LimitAt(sent, k, p, limit)
  <2>1. Len(sent) \in Nat /\ k \in 0 .. Len(sent)
    BY DEF Along, LaidOut, ReadTo
  <2> QED
    BY <2>1 DEF Along, ReadTo
<1>2. PICK t : t = <<e>>
  OBVIOUS
<1>3. Listed(t) /\ Len(t) = 1 /\ t[1] = e
  BY <1>2, Singleton
<1>4. LimitAt(sent, k + 1, p, limit')
  <2>1. \A i \in k + 1 .. k + 1 : i = k + 1
    BY <1>1
  <2>2. \A i \in k + 1 .. k + 1 : sent[i].kind # "length"
    BY <2>1
  <2> QED
    BY <1>1, <2>2, LimitKept
<1> DEFINE j == k + 1
<1>5. k < j /\ j \in A
  BY <1>1
<1>6. Listed(t) /\ Len(t) = j - k /\ \A x \in 1 .. j - k : t[x] = Normal(sent[k + x])
  <2>1. j - k = 1
    BY <1>1
  <2>2. \A x \in 1 .. 1 : x = 1
    OBVIOUS
  <2> HIDE DEF j
  <2> QED
    BY <1>3, <2>1, <2>2
<1>7. got' = got \o t /\ cursor' = p[j] /\ expect' = D[j] /\ LimitAt(sent, j, p, limit')
  BY <1>2, <1>4
<1>8. UNCHANGED <<buf, sent, names, stops>>
  OBVIOUS
<1> HIDE DEF j
<1>9. Along(D, A, p, j)'
  BY <1>5, <1>6, <1>7, <1>8, Advance
<1> QED
  BY <1>9 DEF j

LEMMA NormalItem ==
  ASSUME NEW item, item.kind # "name"
  PROVE  Normal(item) = item
BY DEF Normal

(* A step of the parser, taken while the message is read.                  *)
ReadingStep ==
    /\ stage = "reading" /\ Len(buf) < 65536 /\ ~refused /\ Paired(sent)
    /\ UNCHANGED <<buf, sent, names, stops>> /\ stage' = stage /\ ~refused'

LEMMA FieldRead ==
  ASSUME CodecInv, NEW D, NEW A, NEW p, NEW k, Along(D, A, p, k), ReadingStep, op' # "busy",
         NEW e, NEW to, Take(<<e>>, to), UNCHANGED limit, expect' = D[k + 1],
         k + 1 \in A, e = sent[k + 1], IsField(e), to = p[k + 1]
  PROVE  ReadingAlong'
<1>1. /\ got' = got \o <<e>> /\ cursor' = p[k + 1] /\ expect' = D[k + 1]
      /\ UNCHANGED <<buf, sent, names, stops, limit>>
  BY DEF Take, ReadingStep
<1>2. e = Normal(sent[k + 1]) /\ sent[k + 1].kind # "length"
  BY NormalItem DEF IsField
<1>3. Along(D, A, p, k + 1)'
  BY <1>1, <1>2, AdvanceByOne
<1>4. ~refused' /\ Paired(sent') /\ op' # "busy"
  BY DEF ReadingStep
<1> QED
  BY <1>3, <1>4 DEF ReadingAlong

LEMMA TakenReads ==
  ASSUME Parsing, stage = "reading", Len(buf) < 65536, ReadingAlong, NEW items, NEW to,
         Take(items, to)
  PROVE  ReadingStep /\ op' # "busy"
BY DEF Parsing, ReadingAlong, Take, ReadingStep, nameVars, scriptVars

LEMMA StillReading ==
  ASSUME ReadingAlong, stage' = "reading" => stage = "reading" /\ Len(buf') = Len(buf),
         stage = "reading" /\ Len(buf) < 65536 => ReadingAlong'
  PROVE  ReadingAlong'
BY DEF ReadingAlong

LEMMA ExpectsHere ==
  ASSUME NEW D, NEW A, NEW p, NEW k, Along(D, A, p, k), NEW kind, Expects(kind), kind # "end"
  PROVE  /\ expect = D[k] /\ D[k] # <<>> /\ Head(D[k]).kind = kind
         /\ k \in Nat /\ k + 1 \in 1 .. Len(sent) /\ k + 1 - 1 = k
         /\ \E j \in A : j \in 1 .. Len(sent) /\ k < j /\ Parses(sent, D, k, j)
<1>1. expect # <<>> /\ Head(expect).kind = kind
  BY DEF Expects, Parsing
<1>2. expect = D[k]
  BY <1>1 DEF Along, ClosingBody
<1>3. /\ k \in Nat /\ k + 1 \in 1 .. Len(sent)
      /\ \E j \in A : j \in 1 .. Len(sent) /\ k < j /\ Parses(sent, D, k, j)
  BY <1>1, <1>2, GoesOn
<1> QED
  BY <1>1, <1>2, <1>3

LEMMA NumberRead ==
  ASSUME CodecInv, ReadingAlong, ParseNumber, stage = "reading", Len(buf) < 65536
  PROVE  ReadingAlong'
<1> DEFINE w == Head(expect).width
           e == Number(w, Unpacked(cursor, w))
           to == cursor + w
<1>1. /\ Expects("number") /\ Parsing /\ Take(<<e>>, to) /\ expect' = Tail(expect)
      /\ UNCHANGED limit
  BY DEF ParseNumber, Expects
<1>2. PICK D, A, p, k : Along(D, A, p, k)
  BY DEF ReadingAlong
<1>3. /\ k \in Nat /\ expect = D[k] /\ Head(D[k]).kind = "number" /\ k + 1 \in 1 .. Len(sent) /\ k + 1 - 1 = k
      /\ \E j \in A : j \in 1 .. Len(sent) /\ k < j /\ Parses(sent, D, k, j)
  BY <1>1, <1>2, ExpectsHere
<1>4. PICK j \in A : Parses(sent, D, k, j)
  BY <1>3
<1>5. NumberRule(sent, D, k, j)
  BY <1>3, <1>4, WhichRule
<1>6. /\ j = k + 1 /\ D[k + 1] = Tail(D[k]) /\ w \in {2, 4}
      /\ \E v : Fits(w, v) /\ sent[k + 1] = Number(w, v)
  BY <1>3, <1>5 DEF NumberRule
<1> HIDE DEF w
<1>7. PICK v : Fits(w, v) /\ sent[k + 1] = Number(w, v)
  BY <1>6
<1>8. LaidOut(p) /\ cursor = p[k]
  BY <1>2 DEF Along, ReadTo
<1>9. p[k + 1] = p[k] + w /\ Unpacked(p[k], w) = v
  <2>1. PICK i \in 1 .. Len(sent) : i = k + 1 /\ i - 1 = k
    BY <1>3
  <2>2. w \in {2, 4} /\ Fits(w, v)
    BY <1>6, <1>7
  <2>3. sent[i] = Number(w, v)
    BY <1>7, <2>1
  <2>4. p[i] = p[i - 1] + w /\ Unpacked(p[i - 1], w) = v
    BY <1>8, <2>2, <2>3, NumberHere
  <2> QED
    BY <2>1, <2>4
<1>10. e = sent[k + 1] /\ to = p[k + 1] /\ IsField(e)
  <2>1. e = sent[k + 1] /\ to = p[k + 1]
    BY <1>3, <1>7, <1>8, <1>9
  <2> QED
    BY <2>1 DEF IsField, Number
<1>11. ReadingStep /\ op' # "busy"
  BY <1>1, TakenReads
<1>12. k + 1 \in A
  BY <1>4, <1>6
<1> HIDE DEF e, to
<1>13. expect' = D[k + 1]
  BY <1>1, <1>3, <1>6
<1> QED
  BY <1>1, <1>2, <1>10, <1>11, <1>12, <1>13, FieldRead

LEMMA BytesRead ==
  ASSUME CodecInv, ReadingAlong, ParseBytes, stage = "reading", Len(buf) < 65536
  PROVE  ReadingAlong'
<1> DEFINE w == Head(expect).width
           u == SubSeq(buf, cursor + 1, cursor + w)
           e == Bytes(u)
           to == cursor + w
<1>1. /\ Expects("bytes") /\ Parsing /\ Take(<<e>>, to) /\ expect' = Tail(expect)
      /\ UNCHANGED limit
  BY DEF ParseBytes, Expects
<1>2. PICK D, A, p, k : Along(D, A, p, k)
  BY DEF ReadingAlong
<1>3. /\ k \in Nat /\ expect = D[k] /\ Head(D[k]).kind = "bytes" /\ k + 1 \in 1 .. Len(sent) /\ k + 1 - 1 = k
      /\ \E j \in A : j \in 1 .. Len(sent) /\ k < j /\ Parses(sent, D, k, j)
  BY <1>1, <1>2, ExpectsHere
<1>4. PICK j \in A : Parses(sent, D, k, j)
  BY <1>3
<1>5. BytesRule(sent, D, k, j)
  BY <1>3, <1>4, WhichRule
<1>6. /\ j = k + 1 /\ D[k + 1] = Tail(D[k])
      /\ \E s \in Seq(Byte) : Len(s) = w /\ sent[k + 1] = Bytes(s)
  BY <1>3, <1>5 DEF BytesRule
<1> HIDE DEF w
<1>7. PICK s \in Seq(Byte) : Len(s) = w /\ sent[k + 1] = Bytes(s)
  BY <1>6
<1>8. LaidOut(p) /\ cursor = p[k]
  BY <1>2 DEF Along, ReadTo
<1>9. /\ p[k + 1] = p[k] + Len(s)
      /\ SubSeq(buf, p[k] + 1, p[k] + Len(s)) = s
  <2>1. PICK i \in 1 .. Len(sent) : i = k + 1 /\ i - 1 = k
    BY <1>3
  <2>3. sent[i] = Bytes(s)
    BY <1>7, <2>1
  <2>4. p[i] = p[i - 1] + Len(s) /\ SubSeq(buf, p[i - 1] + 1, p[i - 1] + Len(s)) = s
    BY <1>8, <2>3, BytesHere
  <2> QED
    BY <2>1, <2>4
<1>10. e = sent[k + 1] /\ to = p[k + 1] /\ IsField(e)
  <2>1. to = p[k + 1]
    BY <1>7, <1>8, <1>9
  <2>2. u = s
    BY <1>7, <1>8, <1>9
  <2> HIDE DEF u
  <2>3. e = sent[k + 1]
    BY <1>7, <2>2
  <2> QED
    BY <2>1, <2>3 DEF IsField, Bytes
<1>11. ReadingStep /\ op' # "busy"
  BY <1>1, TakenReads
<1>12. k + 1 \in A
  BY <1>4, <1>6
<1> HIDE DEF e, to, u
<1>13. expect' = D[k + 1]
  BY <1>1, <1>3, <1>6
<1> QED
  BY <1>1, <1>2, <1>10, <1>11, <1>12, <1>13, FieldRead

LEMMA HeaderRead ==
  ASSUME CodecInv, ReadingAlong, ParseHeader, stage = "reading", Len(buf) < 65536
  PROVE  ReadingAlong'
<1> DEFINE c == [i \in 1 .. 4 |-> Unpacked(cursor + 2 + 2 * i, 2)]
           e == [kind |-> "header", header |-> HeaderAt(cursor), counts |-> c]
           to == cursor + 12
<1>1. /\ Expects("header") /\ Parsing /\ Take(<<e>>, to) /\ UNCHANGED limit
      /\ got' = got \o <<e>>
  BY DEF ParseHeader, Expects, Take
<1>2. PICK D, A, p, k : Along(D, A, p, k)
  BY DEF ReadingAlong
<1>3. /\ k \in Nat /\ expect = D[k] /\ Head(D[k]).kind = "header" /\ k + 1 \in 1 .. Len(sent)
      /\ \E j \in A : j \in 1 .. Len(sent) /\ k < j /\ Parses(sent, D, k, j)
  BY <1>1, <1>2, ExpectsHere
<1>4. PICK j \in A : Parses(sent, D, k, j)
  BY <1>3
<1>5. HeaderRule(sent, D, k, j)
  BY <1>3, <1>4, WhichRule
<1>6. k = 0 /\ j = 1 /\ sent[1] \in HeaderItem /\ D[1] = AfterHeader(sent[1].counts)
  BY <1>5 DEF HeaderRule
<1>7. LaidOut(p) /\ cursor = p[0] /\ Listed(got) /\ Len(got) = 0 /\ 1 \in 1 .. Len(sent)
  BY <1>2, <1>3, <1>6 DEF Along, ReadTo
<1>8. /\ p[1] = p[0] + 12 /\ HeaderAt(p[0]) = sent[1].header
      /\ [x \in 1 .. 4 |-> Unpacked(p[0] + 2 + 2 * x, 2)] = sent[1].counts
  <2>1. PICK i \in 1 .. Len(sent) : i = 1 /\ i - 1 = 0
    BY <1>7
  <2>2. sent[i] \in HeaderItem
    BY <1>6, <2>1
  <2>3. /\ p[i] = p[i - 1] + 12 /\ HeaderAt(p[i - 1]) = sent[i].header
        /\ [x \in 1 .. 4 |-> Unpacked(p[i - 1] + 2 + 2 * x, 2)] = sent[i].counts
    BY <1>7, <2>2, HeaderHere
  <2> QED
    BY <2>1, <2>3
<1>9. c = sent[1].counts
  BY <1>7, <1>8
<1> HIDE DEF c
<1>10. e = sent[1] /\ to = p[1] /\ IsField(e)
  <2>1. sent[1] = [kind |-> "header", header |-> sent[1].header, counts |-> sent[1].counts]
    BY <1>6 DEF HeaderItem
  <2>2. e = [kind |-> "header", header |-> sent[1].header, counts |-> sent[1].counts]
    BY <1>7, <1>8, <1>9
  <2> QED
    BY <1>7, <1>8, <2>1, <2>2 DEF IsField
<1>11. ReadingStep /\ op' # "busy"
  BY <1>1, TakenReads
<1> HIDE DEF e, to
<1>12. expect' = D[1]
  <2>1. got' = <<e>>
    BY <1>1, <1>7, ListedParts, Singleton, ConcatEmptySeq DEF Listed
  <2>2. got'[1] = e
    BY <2>1, Singleton
  <2>3. expect' = AfterHeader(got'[1].counts)
    BY DEF ParseHeader, AfterHeader
  <2> QED
    BY <1>6, <1>10, <2>2, <2>3
<1>13. /\ k + 1 = 1 /\ k + 1 \in A
  BY <1>4, <1>6
<1> QED
  BY SMTT(40), <1>1, <1>2, <1>10, <1>11, <1>12, <1>13, FieldRead

(* A name of the message has been written where it is, and not to no end.  *)
LEMMA NameHere ==
  ASSUME IInv, stage = "reading", NEW p, LaidOut(p), NEW i \in 1 .. Len(sent),
         sent[i].kind = "name"
  PROVE  /\ p[i - 1] \in Nat /\ p[i - 1] < Len(buf)
         /\ \E n \in 1 .. Len(names) :
                names[n].labels = sent[i].labels /\ names[n].start = p[i - 1] /\ stops[n] = p[i]
<1>1. Placed(i, p) /\ p[i - 1] \in Nat
  BY Places
<1>2. PICK n \in 1 .. Len(stops) :
          /\ n \in 1 .. Len(names) /\ names[n].labels = sent[i].labels
          /\ names[n].start = p[i - 1] /\ stops[n] = p[i]
  BY <1>1 DEF Placed
<1>3. naming = Nothing /\ names \in Seq([labels : Seq(Label), start : Nat])
  BY DEF IInv, Bookkeeping, TypeOK
<1>4. naming # names[n].labels
  <2>1. names[n] \in [labels : Seq(Label), start : Nat]
    BY <1>2, <1>3, ElementOfSeq
  <2>2. names[n].labels \in Seq(Label)
    BY <2>1
  <2> QED
    BY SMTT(40), <1>3, <2>2, NameCodecConstants
<1>5. names[n].start \in DOMAIN rest
  BY <1>2, <1>4 DEF IInv, AllBegun, Begun
<1>6. names[n].start < Len(buf)
  BY <1>5 DEF IInv, PartsOK, PartOK
<1> QED
  BY <1>1, <1>2, <1>6

LEMMA NameRead ==
  ASSUME CodecInv, CodecInv', ReadingAlong, NameParsed, stage = "reading", Len(buf) < 65536
  PROVE  ReadingAlong'
<1> DEFINE e == NameItem(Name)
<1>1. /\ op = "busy" /\ op' = "done" /\ from' = from /\ UNCHANGED <<buf, stage, sent, names, stops>>
      /\ refused' = refused /\ UNCHANGED limit /\ cursor' = after' /\ labels' = labels
      /\ got' = Append(got, e) /\ expect' = Tail(expect)
  BY DEF NameParsed, Return, Iterate, writerVars, scriptVars
<1>2. PICK D, A, p, k : Along(D, A, p, k)
  BY DEF ReadingAlong
<1>3. from = cursor /\ ~refused /\ Paired(sent) /\ expect # <<>> /\ Head(expect).kind = "name"
  BY <1>1 DEF ReadingAlong, CodecInv, AskedName
<1>4. expect = D[k]
  BY <1>2, <1>3 DEF Along, ClosingBody
<1>5. /\ k \in Nat /\ k + 1 \in 1 .. Len(sent)
      /\ \E j \in A : j \in 1 .. Len(sent) /\ k < j /\ Parses(sent, D, k, j)
  BY <1>2, <1>3, <1>4, GoesOn
<1>6. PICK j \in A : Parses(sent, D, k, j)
  BY <1>5
<1>7. NameRule(sent, D, k, j)
  BY <1>3, <1>4, <1>6, WhichRule
<1>8. j = k + 1 /\ sent[k + 1].kind = "name" /\ D[k + 1] = Tail(D[k]) /\ k + 1 \in A
  BY <1>6, <1>7 DEF NameRule
<1>9. LaidOut(p) /\ cursor = p[k] /\ Listed(got)
  BY <1>2 DEF Along, ReadTo
<1>10. PICK n \in 1 .. Len(names) :
          names[n].labels = sent[k + 1].labels /\ names[n].start = p[k] /\ stops[n] = p[k + 1]
  <2>1. PICK i \in 1 .. Len(sent) : i = k + 1 /\ i - 1 = k
    BY <1>5
  <2>2. sent[i].kind = "name" /\ IInv
    BY <1>8, <2>1 DEF CodecInv
  <2>3. \E n \in 1 .. Len(names) :
            names[n].labels = sent[i].labels /\ names[n].start = p[i - 1] /\ stops[n] = p[i]
    BY SMTT(40), <1>9, <2>2, NameHere
  <2> QED
    BY <2>1, <2>3
<1>11. Name' = Key(names[n].labels) /\ after' = stops[n]
  <2>1. stage' = "reading" /\ n \in 1 .. Len(names') /\ names'[n].start = from'
    BY <1>1, <1>3, <1>9, <1>10
  <2>2. ReaderOK'
    BY DEF CodecInv, IInv
  <2>3. OnTheWay(n)'
    BY <2>1, <2>2 DEF ReaderOK
  <2> QED
    BY <1>1, <2>3 DEF OnTheWay
<1>12. Name' = Name
  BY <1>1 DEF Name
<1>13. e = Normal(sent[k + 1]) /\ sent[k + 1].kind # "length"
  BY <1>8, <1>10, <1>11, <1>12 DEF Normal
<1> HIDE DEF e
<1>14. got' = got \o <<e>> /\ cursor' = p[k + 1] /\ expect' = D[k + 1]
  BY <1>1, <1>4, <1>8, <1>9, <1>10, <1>11, AppendListed
<1>15. UNCHANGED <<buf, sent, names, stops, limit>>
  BY <1>1
<1>16. Along(D, A, p, k + 1)'
  BY <1>2, <1>8, <1>13, <1>14, <1>15, AdvanceByOne
<1> QED
  BY <1>1, <1>3, <1>16 DEF ReadingAlong

LEMMA Doubleton ==
  ASSUME NEW a, NEW b
  PROVE  Listed(<<a, b>>) /\ Len(<<a, b>>) = 2 /\ <<a, b>>[1] = a /\ <<a, b>>[2] = b
<1>1. <<a, b>> \in Seq({a, b}) /\ Len(<<a, b>>) = 2 /\ <<a, b>>[1] = a /\ <<a, b>>[2] = b
  OBVIOUS
<1>2. Listed(<<a, b>>)
  BY <1>1, ListedIn
<1> QED
  BY <1>1, <1>2

(* Where a body ends the parser has nothing left of it.                    *)
LEMMA PatchHere ==
  ASSUME NEW D, NEW A, NEW p, NEW k, Along(D, A, p, k), Paired(sent), k \in Nat,
         k + 1 \in 1 .. Len(sent), sent[k + 1] = PatchItem
  PROVE  limit = cursor /\ cursor = p[k + 1]
<1>1. /\ LaidOut(p) /\ cursor = p[k] /\ LimitAt(sent, k, p, limit) /\ Len(sent) \in Nat
  BY DEF Along, ReadTo, LaidOut
<1>2. PICK i \in 1 .. Len(sent) : i = k + 1 /\ i - 1 = k
  OBVIOUS
<1>3. sent[i].kind = "patch"
  BY <1>2 DEF PatchItem
<1>4. PICK l \in 1 .. Len(sent) : Mates(sent, l, i)
  BY <1>3 DEF Paired
<1>5. l <= k /\ k < i
  BY <1>2, <1>4 DEF Mates
<1>6. limit = p[i - 1]
  BY <1>1, <1>4, <1>5 DEF LimitAt
<1>7. p[i] = p[i - 1]
  BY <1>1, <1>3, Places DEF Placed
<1> QED
  BY <1>1, <1>2, <1>6, <1>7

LEMMA LastChunkHere ==
  ASSUME NEW D, NEW A, NEW p, NEW k, Along(D, A, p, k), D[k] # <<>>,
         Head(D[k]).kind = "chunks", sent[k + 1] = PatchItem
  PROVE  k + 1 \in A /\ LastChunkRule(sent, D, k, k + 1)
<1>1. PICK j \in A : Parses(sent, D, k, j)
  BY GoesOn
<1>2. ~ChunkRule(sent, D, k, j)
  <2>1. \A n : Number(1, n).kind = "number" /\ PatchItem.kind = "patch"
    BY DEF Number, PatchItem
  <2> QED
    BY <2>1 DEF ChunkRule
<1>3. LastChunkRule(sent, D, k, j)
  BY <1>1, <1>2, WhichRule
<1>4. j = k + 1
  BY <1>3 DEF LastChunkRule
<1> QED
  BY <1>3, <1>4

LEMMA EndRead ==
  ASSUME CodecInv, ReadingAlong, ParseEnd, stage = "reading", Len(buf) < 65536
  PROVE  ReadingAlong'
<1>1. /\ expect # <<>> /\ Head(expect).kind = "end" /\ op # "busy" /\ op' = op
      /\ cursor' = limit /\ limit' = limit /\ got' = Append(got, PatchItem)
      /\ expect' = Tail(expect) /\ refused' = refused
      /\ UNCHANGED <<buf, sent, names, stops>>
  BY DEF ParseEnd, Expects, Parsing, nameVars, scriptVars
<1>2. PICK D, A, p, k : Along(D, A, p, k)
  BY DEF ReadingAlong
<1>3. D[k] # <<>>
  BY <1>1, <1>2 DEF Along, ClosingBody
<1>4. k \in Nat /\ k + 1 \in 1 .. Len(sent) /\ \E j \in A : Parses(sent, D, k, j)
  BY <1>2, <1>3, GoesOn
<1>5. k + 1 \in A /\ sent[k + 1] = PatchItem /\ D[k + 1] = Tail(expect)
  <2>1. CASE expect = D[k]
    <3>1. PICK j \in A : Parses(sent, D, k, j)
      BY <1>4
    <3>2. EndRule(sent, D, k, j)
      BY <1>1, <2>1, <3>1, WhichRule
    <3> QED
      BY <2>1, <3>1, <3>2 DEF EndRule
  <2>2. CASE ClosingBody(D, k) /\ sent[k + 1] = PatchItem
    <3>1. Head(D[k]).kind = "chunks" /\ expect = Tail(D[k])
      BY <2>2 DEF ClosingBody
    <3>2. k + 1 \in A /\ LastChunkRule(sent, D, k, k + 1)
      BY <1>2, <1>3, <2>2, <3>1, LastChunkHere
    <3> QED
      BY <2>2, <3>1, <3>2 DEF LastChunkRule
  <2> QED
    BY <1>2, <2>1, <2>2 DEF Along
<1>6. ~refused /\ Paired(sent)
  BY DEF ReadingAlong
<1>7. limit = p[k + 1]
  BY <1>2, <1>4, <1>5, <1>6, PatchHere
<1>8. got' = got \o <<PatchItem>>
  BY <1>1, <1>2, AppendListed DEF Along, ReadTo
<1>9. PatchItem = Normal(sent[k + 1]) /\ sent[k + 1].kind # "length"
  BY <1>5, NormalItem DEF PatchItem
<1>10. cursor' = p[k + 1] /\ expect' = D[k + 1] /\ UNCHANGED <<buf, sent, names, stops, limit>>
  BY <1>1, <1>5, <1>7
<1>11. Along(D, A, p, k + 1)'
  BY <1>2, <1>5, <1>8, <1>9, <1>10, AdvanceByOne
<1> QED
  BY <1>1, <1>6, <1>11 DEF ReadingAlong

(* Where a chunk comes the parser is not at the end of the body.           *)
ChunkAt(D, p, k, s) ==
    /\ Len(s) \in Byte /\ sent[k + 1] = Number(1, Len(s)) /\ sent[k + 2] = Bytes(s)
    /\ D[k + 2] = D[k]
    /\ At(cursor) = Len(s) /\ SubSeq(buf, cursor + 2, cursor + 1 + Len(s)) = s
    /\ p[k + 2] = cursor + 1 + Len(s) /\ p[k + 2] <= Len(buf)
    /\ cursor < limit /\ cursor < Len(buf)

LEMMA ChunkHere ==
  ASSUME NEW D, NEW A, NEW p, NEW k, Along(D, A, p, k), Paired(sent), k \in Nat, NEW j \in A,
         ChunkRule(sent, D, k, j)
  PROVE  j = k + 2 /\ \E s \in Seq(Byte) : ChunkAt(D, p, k, s)
<1>1. j = k + 2 /\ D[j] = D[k] /\ Open(sent, k)
  BY DEF ChunkRule
<1>2. PICK s \in Seq(Byte) :
          Len(s) \in Byte /\ sent[k + 1] = Number(1, Len(s)) /\ sent[k + 2] = Bytes(s)
  BY DEF ChunkRule
<1>3. /\ LaidOut(p) /\ cursor = p[k] /\ LimitAt(sent, k, p, limit) /\ Len(sent) \in Nat
      /\ A \subseteq 0 .. Len(sent)
  BY DEF Along, ReadTo, LaidOut, Run
<1>4. PICK i \in 1 .. Len(sent) : i = k + 1 /\ i - 1 = k
  BY <1>1, <1>3
<1>5. PICK h \in 1 .. Len(sent) : h = k + 2 /\ h - 1 = i
  BY <1>1, <1>3, <1>4
<1>6. p[i] = p[i - 1] + 1 /\ At(p[i - 1]) = Len(s)
  <2>1. sent[i] = Number(1, Len(s))
    BY <1>2, <1>4
  <2> QED
    BY <1>2, <1>3, <2>1, OctetHere
<1>7. p[h] = p[h - 1] + Len(s) /\ SubSeq(buf, p[h - 1] + 1, p[h - 1] + Len(s)) = s
  <2>1. sent[h] = Bytes(s)
    BY <1>2, <1>5
  <2> QED
    BY <1>3, <2>1, BytesHere
<1>8. p[i - 1] \in Nat /\ p[i] \in Nat /\ p[h] <= Len(buf) /\ Len(buf) \in Nat
  BY <1>3, Places
<1>9. Len(s) \in Nat
  BY LenProperties
<1>10. /\ p[h] = cursor + 1 + Len(s) /\ cursor \in Nat /\ p[i] = cursor + 1 /\ cursor < Len(buf)
       /\ cursor + 1 + 1 = cursor + 2
  <2>1. p[h] = p[i] + Len(s) /\ cursor = p[i - 1]
    BY <1>3, <1>4, <1>5, <1>7
  <2>2. cursor \in Nat /\ p[i] = cursor + 1 /\ p[h] = cursor + 1 + Len(s)
    BY <1>6, <1>8, <2>1
  <2> QED
    BY <1>8, <1>9, <2>2
<1>11. SubSeq(buf, cursor + 2, cursor + 1 + Len(s)) = s
  BY <1>5, <1>7, <1>10
<1>12. cursor < limit
  <2>1. PICK l \in 1 .. k : sent[l].kind = "length" /\ \A x \in l + 1 .. k : ~Marks(sent, x)
    BY <1>1 DEF Open
  <2>2. l \in 1 .. Len(sent)
    BY <1>3, <1>4
  <2>3. PICK q \in 1 .. Len(sent) : Mates(sent, l, q)
    BY <2>1, <2>2 DEF Paired
  <2>4. q # k + 1 /\ q # k + 2
    <3>1. sent[k + 1].kind = "number" /\ sent[k + 2].kind = "bytes"
      BY <1>2 DEF Number, Bytes
    <3> QED
      BY <2>3, <3>1 DEF Mates
  <2>5. ~(q <= k)
    <3>1. q <= k => q \in l + 1 .. k /\ Marks(sent, q)
      BY <2>3 DEF Mates, Marks
    <3> QED
      BY <2>1, <3>1
  <2>6. l <= k /\ k < q /\ q - 1 \in 0 .. Len(sent) /\ h \in 0 .. Len(sent) /\ h <= q - 1
    BY <1>3, <1>5, <2>4, <2>5
  <2>7. limit = p[q - 1]
    BY <1>3, <2>3, <2>6 DEF LimitAt
  <2>8. p[h] <= p[q - 1] /\ p[q - 1] \in Nat
    BY <1>3, <2>6 DEF LaidOut, Laid
  <2> QED
    BY <1>9, <1>10, <2>7, <2>8
<1>13. ChunkAt(D, p, k, s)
  <2>1. p[k + 2] = cursor + 1 + Len(s) /\ p[k + 2] <= Len(buf)
    BY <1>5, <1>8, <1>10
  <2>2. At(cursor) = Len(s)
    BY <1>3, <1>4, <1>6
  <2> QED
    BY <1>1, <1>2, <1>10, <1>11, <1>12, <2>1, <2>2 DEF ChunkAt
<1> QED
  BY <1>1, <1>13

LEMMA NoMoreChunksRead ==
  ASSUME CodecInv, ReadingAlong, NoMoreChunks, stage = "reading", Len(buf) < 65536
  PROVE  ReadingAlong'
<1>1. /\ Expects("chunks") /\ cursor >= limit /\ op # "busy" /\ op' = op
      /\ cursor' = cursor /\ limit' = limit /\ got' = got
      /\ expect' = Tail(expect) /\ refused' = refused
      /\ UNCHANGED <<buf, sent, names, stops>>
  BY DEF NoMoreChunks, Expects, Parsing, nameVars, scriptVars
<1>2. PICK D, A, p, k : Along(D, A, p, k)
  BY DEF ReadingAlong
<1>3. /\ k \in Nat /\ expect = D[k] /\ Head(D[k]).kind = "chunks" /\ k + 1 \in 1 .. Len(sent)
      /\ D[k] # <<>> /\ \E j \in A : j \in 1 .. Len(sent) /\ k < j /\ Parses(sent, D, k, j)
  BY <1>1, <1>2, ExpectsHere
<1>4. PICK j \in A : Parses(sent, D, k, j)
  BY <1>3
<1>5. ~refused /\ Paired(sent)
  BY DEF ReadingAlong
<1>6. ~ChunkRule(sent, D, k, j)
  <2> SUFFICES ASSUME ChunkRule(sent, D, k, j) PROVE FALSE
    OBVIOUS
  <2>1. PICK s \in Seq(Byte) : ChunkAt(D, p, k, s)
    BY <1>2, <1>3, <1>5, ChunkHere
  <2>2. cursor < limit /\ cursor \in Nat /\ limit \in Nat
    BY <2>1 DEF ChunkAt, CodecInv
  <2> QED
    BY <1>1, <2>2
<1>7. LastChunkRule(sent, D, k, j)
  BY <1>3, <1>4, <1>6, WhichRule
<1>8. /\ sent[k + 1] = PatchItem /\ Tail(D[k]) # <<>> /\ Head(Tail(D[k])).kind = "end"
  BY <1>7 DEF LastChunkRule
<1>9. ClosingBody(D, k)'
  BY <1>1, <1>3, <1>8 DEF ClosingBody
<1>10. ReadTo(k, p)'
  BY <1>1, <1>2 DEF Along, ReadTo
<1>11. LaidOut(p)'
  BY <1>1, <1>2 DEF Along, LaidOut, Laid, Placed, Patched
<1>12. /\ Run(sent', D, A, Len(sent')) /\ D[Len(sent')] = <<>> /\ k \in A
       /\ sent'[k + 1] = PatchItem
  BY <1>1, <1>2, <1>8 DEF Along
<1>13. Along(D, A, p, k)'
  BY <1>9, <1>10, <1>11, <1>12 DEF Along
<1> QED
  BY <1>1, <1>5, <1>13 DEF ReadingAlong

LEMMA ChunkRead ==
  ASSUME CodecInv, ReadingAlong, ParseChunk, stage = "reading", Len(buf) < 65536
  PROVE  ReadingAlong'
<1> DEFINE a == Number(1, At(cursor))
           u == SubSeq(buf, cursor + 2, cursor + 1 + At(cursor))
           b == Bytes(u)
<1>1. /\ Expects("chunks") /\ cursor < limit /\ op # "busy" /\ op' = op
      /\ cursor' = cursor + 1 + At(cursor) /\ limit' = limit /\ got' = got \o <<a, b>>
      /\ expect' = expect /\ refused' = refused
      /\ UNCHANGED <<buf, sent, names, stops>>
  BY DEF ParseChunk, Take, Expects, Parsing, nameVars, scriptVars
<1>2. PICK D, A, p, k : Along(D, A, p, k)
  BY DEF ReadingAlong
<1>3. /\ k \in Nat /\ expect = D[k] /\ Head(D[k]).kind = "chunks" /\ k + 1 \in 1 .. Len(sent)
      /\ D[k] # <<>> /\ \E j \in A : j \in 1 .. Len(sent) /\ k < j /\ Parses(sent, D, k, j)
  BY <1>1, <1>2, ExpectsHere
<1>4. PICK j \in A : Parses(sent, D, k, j) /\ k < j
  BY <1>3
<1>5. ~refused /\ Paired(sent)
  BY DEF ReadingAlong
<1>6. ~LastChunkRule(sent, D, k, j)
  <2> SUFFICES ASSUME LastChunkRule(sent, D, k, j) PROVE FALSE
    OBVIOUS
  <2>1. sent[k + 1] = PatchItem
    BY DEF LastChunkRule
  <2>2. limit = cursor
    BY <1>2, <1>3, <1>5, <2>1, PatchHere
  <2>3. cursor \in Nat
    BY DEF CodecInv
  <2> QED
    BY <1>1, <2>2, <2>3
<1>7. ChunkRule(sent, D, k, j)
  BY <1>3, <1>4, <1>6, WhichRule
<1>8. j = k + 2 /\ \E s \in Seq(Byte) : ChunkAt(D, p, k, s)
  BY <1>2, <1>3, <1>5, <1>7, ChunkHere
<1>9. PICK s \in Seq(Byte) : ChunkAt(D, p, k, s)
  BY <1>8
<1>10. u = s
  BY <1>9 DEF ChunkAt
<1>11. a = sent[k + 1] /\ b = sent[k + 2] /\ cursor' = p[j] /\ expect' = D[j]
  <2> HIDE DEF u
  <2> QED
    BY <1>1, <1>3, <1>8, <1>9, <1>10 DEF ChunkAt
<1>12. a.kind = "number" /\ b.kind = "bytes"
  BY DEF Number, Bytes
<1> HIDE DEF a, b, u
<1> DEFINE t == <<a, b>>
<1>13. got' = got \o t
  BY <1>1
<1>14. Listed(t) /\ Len(t) = 2 /\ t[1] = a /\ t[2] = b
  BY Doubleton
<1> HIDE DEF t
<1>15. \A x \in 1 .. j - k : t[x] = Normal(sent[k + x])
  <2>1. \A x \in 1 .. j - k : x = 1 \/ x = 2
    BY <1>3, <1>8
  <2>2. a = Normal(sent[k + 1]) /\ b = Normal(sent[k + 2])
    BY <1>11, <1>12, NormalItem
  <2> QED
    BY <1>14, <2>1, <2>2
<1>16. LimitAt(sent, j, p, limit')
  <2>1. /\ Len(sent) \in Nat /\ LimitAt(sent, k, p, limit)
    BY <1>2 DEF Along, ReadTo, LaidOut
  <2>2. j \in Nat /\ k <= j /\ \A x \in k + 1 .. j : x = k + 1 \/ x = k + 2
    BY <1>3, <1>8
  <2>3. \A x \in k + 1 .. j : sent[x].kind # "length"
    BY <1>11, <1>12, <2>2
  <2> QED
    BY SMTT(40), <1>1, <1>3, <2>1, <2>2, <2>3, LimitKept
<1>17. Len(t) = j - k
  BY <1>3, <1>8, <1>14
<1>18. got' = got \o t /\ UNCHANGED <<buf, sent, names, stops>>
  BY <1>1, <1>13
<1>19. Along(D, A, p, j)'
  BY SMTT(40), <1>2, <1>4, <1>11, <1>14, <1>15, <1>16, <1>17, <1>18, Advance
<1> QED
  BY <1>1, <1>5, <1>19 DEF ReadingAlong

LEMMA WordFits ==
  ASSUME NEW v \in Word
  PROVE  Fits(2, v) /\ v \in Nat
<1>1. 256 ^ 2 = 65536
  BY SMT
<1> QED
  BY ONLY SMT, <1>1, v \in Word DEF Fits, Word

(* Only a body of an unknown type depends on its length.                   *)
KnownType(v) ==
    \/ v = RecordType.A \/ v = RecordType.AAAA
    \/ v \in {RecordType.NS, RecordType.CNAME, RecordType.PTR}
    \/ v = RecordType.MX \/ v = RecordType.SOA \/ v = RecordType.TXT

LEMMA ShapeOfKnown ==
  ASSUME NEW v, NEW m, NEW n
  PROVE  /\ KnownType(v) => Shape(v, m) = Shape(v, n)
         /\ ~KnownType(v) => Shape(v, n) = <<ExpectWide("bytes", n)>>
<1>1. KnownType(v) => Shape(v, m) = Shape(v, n)
  BY DEF Shape, KnownType
<1>2. ~KnownType(v) => Shape(v, n) = <<ExpectWide("bytes", n)>>
  BY DEF Shape, KnownType
<1> QED
  BY <1>1, <1>2

LEMMA TwoAhead ==
  ASSUME NEW T, NEW x \in T, NEW y \in T, NEW w \in Seq(T)
  PROVE  LET u == <<x>> \o <<y>> \o w
         IN  /\ u # <<>> /\ Head(u) = x /\ Tail(u) # <<>> /\ Head(Tail(u)) = y
             /\ u \in Seq(T) /\ Tail(Tail(u)) = w
<1> DEFINE u == <<x>> \o <<y>> \o w
<1>1. <<x>> \in Seq(T) /\ <<y>> \in Seq(T) /\ Len(<<x>>) = 1 /\ Len(<<y>>) = 1
  OBVIOUS
<1>2. <<x>> \o <<y>> = <<x, y>> /\ <<x, y>> \in Seq(T) /\ Len(<<x, y>>) = 2
  <2>1. <<x, y>> \in Seq(T) /\ Len(<<x, y>>) = 2
    OBVIOUS
  <2>2. <<x>> \o <<y>> = <<x, y>>
    <3> DEFINE a == <<x>>
               b == <<y>>
               c == <<x, y>>
    <3>1. a[1] = x /\ b[1] = y /\ c[1] = x /\ c[2] = y /\ c \in Seq(T) /\ Len(c) = 2
      OBVIOUS
    <3>2. a \in Seq(T) /\ b \in Seq(T) /\ Len(a) = 1 /\ Len(b) = 1
      BY <1>1
    <3> HIDE DEF a, b, c
    <3>3. /\ a \o b \in Seq(T) /\ Len(a \o b) = 2
          /\ \A i \in 1 .. 2 : (a \o b)[i] = IF i <= 1 THEN a[i] ELSE b[i - 1]
      BY SMTT(40), <3>2, ConcatProperties
    <3>4. \A i \in 1 .. 2 : i = 1 \/ i = 2
      OBVIOUS
    <3>5. (a \o b)[1] = c[1] /\ (a \o b)[2] = c[2]
      BY <3>1, <3>3
    <3>6. a \o b = c
      BY <3>1, <3>3, <3>4, <3>5, SeqEqual
    <3> QED
      BY <3>6 DEF a, b, c
  <2> QED
    BY <2>1, <2>2
<1>3. /\ u \in Seq(T) /\ Len(u) = 2 + Len(w) /\ Len(w) \in Nat
      /\ \A i \in 1 .. 2 + Len(w) : u[i] = IF i <= 2 THEN <<x, y>>[i] ELSE w[i - 2]
  BY <1>2, ConcatProperties, LenProperties
<1> HIDE DEF u
<1>4. /\ u # <<>> /\ Head(u) = u[1] /\ Tail(u) \in Seq(T) /\ Len(Tail(u)) = Len(u) - 1
      /\ \A i \in 1 .. Len(Tail(u)) : Tail(u)[i] = u[i + 1]
  <2>1. Len(u) # 0
    BY <1>3
  <2>2. u # <<>>
    BY <2>1
  <2> QED
    BY <1>3, <2>2, HeadTailProperties
<1> DEFINE v == Tail(u)
<1>5. v \in Seq(T) /\ Len(v) = 1 + Len(w) /\ \A i \in 1 .. 1 + Len(w) : v[i] = u[i + 1]
  BY <1>3, <1>4
<1> HIDE DEF v
<1>6. /\ v # <<>> /\ Head(v) = v[1] /\ Tail(v) \in Seq(T) /\ Len(Tail(v)) = Len(v) - 1
      /\ \A i \in 1 .. Len(Tail(v)) : Tail(v)[i] = v[i + 1]
  <2>1. Len(v) # 0
    BY <1>3, <1>5
  <2>2. v # <<>>
    BY <2>1
  <2> QED
    BY <1>5, <2>2, HeadTailProperties
<1>7. Tail(v) = w
  <2>1. Len(Tail(v)) = Len(w)
    BY <1>3, <1>5, <1>6
  <2>2. ASSUME NEW i \in 1 .. Len(w) PROVE Tail(v)[i] = w[i]
    <3>1. /\ i + 1 \in 1 .. 1 + Len(w) /\ i + 1 + 1 \in 1 .. 2 + Len(w)
          /\ ~(i + 1 + 1 <= 2) /\ i + 1 + 1 - 2 = i /\ i \in 1 .. Len(Tail(v))
      BY <1>3, <2>1
    <3>2. Tail(v)[i] = v[i + 1]
      BY <1>6, <3>1
    <3>3. v[i + 1] = u[i + 1 + 1]
      BY <1>5, <3>1
    <3>4. u[i + 1 + 1] = w[i + 1 + 1 - 2]
      BY <1>3, <3>1
    <3> QED
      BY <3>1, <3>2, <3>3, <3>4
  <2> QED
    BY <1>6, <2>1, <2>2, SeqEqual
<1>8. u[1] = x /\ v[1] = y
  <2>1. 1 \in 1 .. 2 + Len(w) /\ 2 \in 1 .. 2 + Len(w) /\ 1 \in 1 .. 1 + Len(w) /\ 1 + 1 = 2
    BY <1>3
  <2>2. <<x, y>>[1] = x /\ <<x, y>>[2] = y
    OBVIOUS
  <2> QED
    BY <1>3, <1>5, <2>1, <2>2
<1> QED
  BY <1>3, <1>4, <1>6, <1>7, <1>8 DEF u, v

LEMMA RunOn ==
  ASSUME NEW items, NEW D, NEW A, NEW n \in Nat, Run(items, D, A, n), D[n] = <<>>, NEW i \in A,
         D[i] # <<>>
  PROVE  /\ i \in Nat /\ i < n
         /\ \E j \in A : j \in Nat /\ j <= n /\ i < j /\ Parses(items, D, i, j)
<1>1. i \in 0 .. n /\ i # n /\ A \subseteq 0 .. n
  BY DEF Run
<1>2. i < n /\ i \in Nat
  BY <1>1
<1>3. PICK j \in A : i < j /\ Parses(items, D, i, j)
  BY <1>2 DEF Run
<1> QED
  BY <1>1, <1>2, <1>3

(* The bytes of an unknown body are what lies between its length and its   *)
(* patch.                                                                  *)
RawThen(n, then) == <<ExpectWide("bytes", n)>> \o <<Expect("end")>> \o then

RawAt(items, i, n) == \E s \in Seq(Byte) : Len(s) = n /\ items[i] = Bytes(s)

LEMMA UnknownBody ==
  ASSUME NEW items, Len(items) \in Nat, NEW D, NEW A, Run(items, D, A, Len(items)),
         D[Len(items)] = <<>>, NEW i \in A, items[i].kind = "length",
         NEW m \in Nat, NEW w \in Seq(Expectation), D[i] = RawThen(m, w)
  PROVE  /\ i \in Nat /\ i + 2 <= Len(items) /\ Mates(items, i, i + 2)
         /\ RawAt(items, i + 1, m)
<1>0. PICK n \in Nat : n = Len(items) /\ Run(items, D, A, n) /\ D[n] = <<>>
  OBVIOUS
<1> DEFINE x == ExpectWide("bytes", m)
           y == Expect("end")
           T == Expectation
<1>1. x \in T /\ y \in T /\ x.kind = "bytes" /\ x.width = m /\ y.kind = "end"
  BY ExpectationType DEF ExpectWide, Expect
<1>2. w \in Seq(T) /\ D[i] = <<x>> \o <<y>> \o w
  BY DEF RawThen
<1> HIDE DEF x, y, T
<1>3. /\ D[i] # <<>> /\ Head(D[i]) = x /\ Tail(D[i]) # <<>> /\ Head(Tail(D[i])) = y
  BY <1>1, <1>2, TwoAhead
<1>4. PICK j \in A : i \in Nat /\ Parses(items, D, i, j)
  BY <1>0, <1>3, RunOn
<1>5. BytesRule(items, D, i, j)
  BY <1>1, <1>3, <1>4, WhichRule
<1>6. /\ j = i + 1 /\ D[j] = Tail(D[i])
      /\ RawAt(items, i + 1, m)
  BY <1>1, <1>3, <1>5 DEF BytesRule, RawAt
<1>7. PICK h \in A : h \in Nat /\ h <= n /\ Parses(items, D, j, h)
  BY <1>0, <1>3, <1>6, RunOn
<1>8. EndRule(items, D, j, h)
  BY <1>1, <1>3, <1>6, <1>7, WhichRule
<1>9. h = i + 2 /\ items[i + 2].kind = "patch"
  BY <1>4, <1>6, <1>8 DEF EndRule, PatchItem
<1>10. Mates(items, i, i + 2)
  <2>1. PICK q \in Nat : q = i + 2
    BY <1>4
  <2>2. i < q /\ \A z \in i + 1 .. q - 1 : z = i + 1
    BY <1>4, <2>1
  <2>3. ~Marks(items, i + 1)
    BY <1>6 DEF Bytes, Marks, RawAt
  <2>4. \A z \in i + 1 .. q - 1 : ~Marks(items, z)
    BY <2>2, <2>3
  <2>5. Mates(items, i, q)
    BY <1>9, <2>1, <2>2, <2>4 DEF Mates
  <2> QED
    BY <2>1, <2>5
<1> QED
  BY <1>0, <1>4, <1>6, <1>7, <1>9, <1>10

(* Where the fixed part of a record comes, with the end of its body.       *)
RecordAt(D, p, k) ==
    /\ sent[k + 1] = Number(2, Unpacked(cursor, 2))
    /\ sent[k + 2] = Number(2, Unpacked(cursor + 2, 2))
    /\ sent[k + 3] = Number(4, Unpacked(cursor + 4, 4))
    /\ sent[k + 4] = LengthItem
    /\ p[k + 4] = cursor + 10 /\ p[k + 4] <= Len(buf)
    /\ D[k + 4] = BodyThen(Unpacked(cursor, 2), Unpacked(cursor + 8, 2), Tail(D[k]))
    /\ LimitAt(sent, k + 4, p, cursor + 10 + Unpacked(cursor + 8, 2))

LEMMA RecordHere ==
  ASSUME NEW D, NEW A, NEW p, NEW k, Along(D, A, p, k), Paired(sent), Len(buf) < 65536,
         NEW j \in A, RecordRule(sent, D, k, j)
  PROVE  j = k + 4 /\ RecordAt(D, p, k)
<1>1. /\ j = k + 4 /\ Head(D[k]).kind = "record"
      /\ (\E v \in Word : sent[k + 1] = Number(2, v))
      /\ (\E v \in Word : sent[k + 2] = Number(2, v))
      /\ (\E v : Fits(4, v) /\ sent[k + 3] = Number(4, v))
      /\ sent[k + 4] = LengthItem
      /\ \E n \in Nat : D[k + 4] = BodyThen(sent[k + 1].value, n, Tail(D[k]))
  <2>1. j = k + 4 /\ Head(D[k]).kind = "record"
    BY DEF RecordRule
  <2>5. \E n \in Nat : D[k + 4] = BodyThen(sent[k + 1].value, n, Tail(D[k]))
    BY <2>1 DEF RecordRule
  <2>2. /\ (\E v \in Word : sent[k + 1] = Number(2, v))
        /\ (\E v \in Word : sent[k + 2] = Number(2, v))
    BY DEF RecordRule
  <2>3. \E v : Fits(4, v) /\ sent[k + 3] = Number(4, v)
    BY DEF RecordRule
  <2>4. sent[k + 4] = LengthItem
    BY DEF RecordRule
  <2> QED
    BY <2>1, <2>2, <2>3, <2>4, <2>5
<1>2. /\ LaidOut(p) /\ cursor = p[k] /\ Len(sent) \in Nat /\ k \in 0 .. Len(sent)
      /\ k \in A /\ A \subseteq 0 .. Len(sent) /\ Run(sent, D, A, Len(sent)) /\ D[Len(sent)] = <<>>
  BY DEF Along, ReadTo, LaidOut, Run
<1>3. k \in Nat /\ k + 4 \in 1 .. Len(sent)
  BY <1>1, <1>2
<1>4. PICK i \in 1 .. Len(sent) : i = k + 1 /\ i - 1 = k
  BY <1>2, <1>3
<1>5. PICK g \in 1 .. Len(sent) : g = k + 2 /\ g - 1 = i
  BY <1>2, <1>3, <1>4
<1>6. PICK h \in 1 .. Len(sent) : h = k + 3 /\ h - 1 = g
  BY SMTT(40), <1>2, <1>3, <1>5
<1>7. PICK l \in 1 .. Len(sent) : l = k + 4 /\ l - 1 = h
  BY <1>2, <1>3, <1>6
<1>8. p[i] = p[k] + 2 /\ sent[k + 1] = Number(2, Unpacked(p[k], 2))
  <2>1. PICK v \in Word : sent[i] = Number(2, v)
    BY SMTT(40), <1>1, <1>4
  <2>2. 2 \in {2, 4} /\ Fits(2, v)
    BY WordFits
  <2>3. p[i] = p[i - 1] + 2 /\ Unpacked(p[i - 1], 2) = v
    BY <1>2, <2>1, <2>2, NumberHere
  <2> QED
    BY <1>4, <2>1, <2>3
<1>9. p[g] = p[i] + 2 /\ sent[k + 2] = Number(2, Unpacked(p[i], 2))
  <2>1. PICK v \in Word : sent[g] = Number(2, v)
    BY <1>1, <1>5
  <2>2. 2 \in {2, 4} /\ Fits(2, v)
    BY WordFits
  <2>3. p[g] = p[g - 1] + 2 /\ Unpacked(p[g - 1], 2) = v
    BY <1>2, <2>1, <2>2, NumberHere
  <2> QED
    BY <1>5, <2>1, <2>3
<1>10. p[h] = p[g] + 4 /\ sent[k + 3] = Number(4, Unpacked(p[g], 4))
  <2>1. PICK v : Fits(4, v) /\ sent[h] = Number(4, v)
    BY <1>1, <1>6
  <2>2. 4 \in {2, 4}
    OBVIOUS
  <2>3. p[h] = p[h - 1] + 4 /\ Unpacked(p[h - 1], 4) = v
    BY <1>2, <2>1, <2>2, NumberHere
  <2> QED
    BY <1>6, <2>1, <2>3
<1>11. sent[l].kind = "length"
  BY <1>1, <1>7 DEF LengthItem
<1>12. PICK q \in 1 .. Len(sent) : Mates(sent, l, q)
  BY SMTT(40), <1>11 DEF Paired
<1>21. \A y \in 1 .. Len(sent) : Mates(sent, l, y) => y = q
  <2> SUFFICES ASSUME NEW y \in 1 .. Len(sent), Mates(sent, l, y) PROVE y = q
    OBVIOUS
  <2>1. l \in Nat /\ q \in Nat /\ y \in Nat
    OBVIOUS
  <2> QED
    BY <1>12, <2>1, MatesUnique
<1>13. p[l] = p[h] + 2 /\ p[l] + Unpacked(p[h], 2) = p[q - 1]
  BY <1>2, <1>7, <1>12, LengthHere
<1>14. p[i - 1] \in Nat /\ p[l] \in Nat /\ p[l] <= Len(buf) /\ Len(buf) \in Nat
  BY <1>2, Places
<1>15. /\ p[i] = cursor + 2 /\ p[g] = cursor + 4 /\ p[h] = cursor + 8 /\ p[l] = cursor + 10
       /\ cursor \in Nat
  <2>1. p[i - 1] = cursor /\ p[i] = cursor + 2
    BY <1>2, <1>4, <1>8
  <2>2. cursor \in Nat
    BY <1>14, <2>1
  <2>3. p[g] = cursor + 2 + 2
    BY <1>9, <2>1
  <2>4. p[h] = cursor + 2 + 2 + 4
    BY <1>10, <2>3
  <2>5. p[l] = cursor + 2 + 2 + 4 + 2
    BY <1>13, <2>4
  <2> QED
    BY ONLY SMT, <2>1, <2>2, <2>3, <2>4, <2>5
<1>16. p[q - 1] = cursor + 10 + Unpacked(cursor + 8, 2)
  BY <1>13, <1>15
<1> DEFINE at == cursor + 10 + Unpacked(cursor + 8, 2)
<1>17. LimitAt(sent, k + 4, p, at)
  <2> SUFFICES ASSUME NEW x \in 1 .. Len(sent), NEW y \in 1 .. Len(sent), Mates(sent, x, y),
                      x <= k + 4, k + 4 < y
               PROVE  at = p[y - 1]
    BY DEF LimitAt
  <2>1. x = l
    <3>1. x # l => l \in x + 1 .. y - 1 /\ Marks(sent, l)
      BY <1>3, <1>7, <1>11 DEF Marks
    <3> QED
      BY <3>1 DEF Mates
  <2>2. y = q
    BY <1>12, <1>21, <2>1
  <2> QED
    BY <1>16, <2>2
<1>18. D[k + 4] = BodyThen(Unpacked(cursor, 2), Unpacked(cursor + 8, 2), Tail(D[k]))
  <2> DEFINE w == Tail(D[k])
  <2>0. PICK v, r : v = Unpacked(cursor, 2) /\ r = Unpacked(cursor + 8, 2)
    OBVIOUS
  <2>1. sent[k + 1].value = v
    BY <1>2, <1>8, <2>0 DEF Number
  <2> HIDE DEF w
  <2>2. PICK n \in Nat : D[k + 4] = BodyThen(v, n, w)
    BY <1>1, <2>1 DEF w
  <2> SUFFICES D[k + 4] = BodyThen(v, r, w)
    BY <2>0 DEF w
  <2>3. CASE KnownType(v)
    <3>1. Shape(v, n) = Shape(v, r)
      BY <2>3, ShapeOfKnown
    <3> QED
      BY <2>2, <3>1 DEF BodyThen
  <2>4. CASE ~KnownType(v)
    <3>1. Shape(v, n) = <<ExpectWide("bytes", n)>>
      BY <2>4, ShapeOfKnown
    <3>2. w \in Seq(Expectation)
      <4>1. k # 0
        BY <1>1, <1>2 DEF Run, Expected
      <4>2. D[k] \in Seq(Expectation)
        BY <1>2, <4>1 DEF Run
      <4>3. D[k] # <<>>
        <5>1. k # Len(sent)
          BY <1>2, <1>3
        <5>2. PICK z \in A : Parses(sent, D, k, z)
          BY <1>2, <1>3, <5>1 DEF Run
        <5> QED
          BY <5>2 DEF Parses
      <4> QED
        BY <4>2, <4>3, HeadTailProperties DEF w
    <3>3. D[l] = RawThen(n, w)
      BY <1>7, <2>2, <3>1 DEF BodyThen, RawThen
    <3>4. l \in A
      BY <1>1, <1>7
    <3>5. /\ Mates(sent, l, l + 2) /\ l \in Nat /\ l + 2 <= Len(sent)
          /\ RawAt(sent, l + 1, n)
      <4>1. Len(sent) \in Nat /\ Run(sent, D, A, Len(sent)) /\ D[Len(sent)] = <<>>
        BY <1>2
      <4>2. n \in Nat /\ w \in Seq(Expectation) /\ D[l] = RawThen(n, w)
        BY <2>2, <3>2, <3>3
      <4> HIDE DEF w
      <4> QED
        BY SMTT(40), <1>11, <3>4, <4>1, <4>2, UnknownBody
    <3>6. l + 2 \in 1 .. Len(sent)
      BY <1>2, <3>5
    <3>7. q = l + 2
      BY <1>21, <3>5, <3>6
    <3>8. PICK s \in Seq(Byte) : Len(s) = n /\ sent[l + 1] = Bytes(s)
      BY <3>5 DEF RawAt
    <3>9. PICK m \in 1 .. Len(sent) : m = l + 1 /\ m - 1 = l /\ m = q - 1
      BY <1>2, <3>6, <3>7
    <3>10. p[m] = p[l] + n
      <4>1. sent[m] = Bytes(s)
        BY <3>8, <3>9
      <4>2. p[m] = p[m - 1] + Len(s)
        BY <1>2, <4>1, BytesHere
      <4> QED
        BY <3>8, <3>9, <4>2
    <3>11. r = n
      <4>1. p[l] + Unpacked(p[h], 2) = p[l] + n
        BY <1>13, <3>9, <3>10
      <4>2. r \in Nat
        <5>1. buf \in Seq(Byte)
          BY <1>2 DEF LaidOut
        <5>2. cursor + 8 \in Nat /\ cursor + 8 + 2 <= Len(buf)
          BY ONLY SMT, <1>14, <1>15
        <5> QED
          BY <2>0, <5>1, <5>2, UnpackedTwo, WordType
      <4>3. r = Unpacked(p[h], 2)
        BY <1>15, <2>0
      <4> QED
        BY ONLY SMT, <1>14, <2>2, <4>1, <4>2, <4>3
    <3> QED
      BY <2>2, <3>11
  <2> QED
    BY <2>3, <2>4
<1>19. sent[k + 2] = Number(2, Unpacked(cursor + 2, 2)) /\ sent[k + 3] = Number(4, Unpacked(cursor + 4, 4))
       /\ sent[k + 1] = Number(2, Unpacked(cursor, 2))
  BY <1>2, <1>8, <1>9, <1>10, <1>15
<1> HIDE DEF at
<1>20. p[k + 4] = cursor + 10 /\ p[k + 4] <= Len(buf)
  BY <1>7, <1>14, <1>15
<1> QED
  <2>1. LimitAt(sent, k + 4, p, cursor + 10 + Unpacked(cursor + 8, 2))
    BY <1>17 DEF at
  <2> QED
    BY <1>1, <1>18, <1>19, <1>20, <2>1 DEF RecordAt

LEMMA Quadruple ==
  ASSUME NEW a, NEW b, NEW c, NEW d
  PROVE  /\ Listed(<<a, b, c, d>>) /\ Len(<<a, b, c, d>>) = 4
         /\ <<a, b, c, d>>[1] = a /\ <<a, b, c, d>>[2] = b
         /\ <<a, b, c, d>>[3] = c /\ <<a, b, c, d>>[4] = d
<1>1. /\ <<a, b, c, d>> \in Seq({a, b, c, d}) /\ Len(<<a, b, c, d>>) = 4
      /\ <<a, b, c, d>>[1] = a /\ <<a, b, c, d>>[2] = b
      /\ <<a, b, c, d>>[3] = c /\ <<a, b, c, d>>[4] = d
  OBVIOUS
<1>2. Listed(<<a, b, c, d>>)
  BY <1>1, ListedIn
<1> QED
  BY <1>1, <1>2

LEMMA RecordRead ==
  ASSUME CodecInv, ReadingAlong, ParseRecord, stage = "reading", Len(buf) < 65536
  PROVE  ReadingAlong'
<1> DEFINE a == Number(2, Unpacked(cursor, 2))
           b == Number(2, Unpacked(cursor + 2, 2))
           c == Number(4, Unpacked(cursor + 4, 4))
           d == LengthItem
<1>1. /\ Expects("record") /\ op # "busy" /\ op' = op
      /\ cursor' = cursor + 10 /\ got' = got \o <<a, b, c, d>> /\ refused' = refused
      /\ limit' = cursor + 10 + Unpacked(cursor + 8, 2)
      /\ expect' = BodyThen(Unpacked(cursor, 2), Unpacked(cursor + 8, 2), Tail(expect))
      /\ UNCHANGED <<buf, sent, names, stops>>
  BY DEF BodyThen, ParseRecord, Take, Expects, Parsing, nameVars, scriptVars
<1>2. PICK D, A, p, k : Along(D, A, p, k)
  BY DEF ReadingAlong
<1>3. /\ k \in Nat /\ expect = D[k] /\ Head(D[k]).kind = "record" /\ k + 1 \in 1 .. Len(sent)
      /\ D[k] # <<>> /\ \E j \in A : j \in 1 .. Len(sent) /\ k < j /\ Parses(sent, D, k, j)
  BY <1>1, <1>2, ExpectsHere
<1>4. PICK j \in A : Parses(sent, D, k, j) /\ k < j
  BY <1>3
<1>5. ~refused /\ Paired(sent)
  BY DEF ReadingAlong
<1>6. RecordRule(sent, D, k, j)
  BY <1>3, <1>4, WhichRule
<1>7. j = k + 4 /\ RecordAt(D, p, k)
  BY <1>2, <1>5, <1>6, RecordHere
<1>8. a = sent[k + 1] /\ b = sent[k + 2] /\ c = sent[k + 3] /\ d = sent[k + 4]
  BY <1>7 DEF RecordAt
<1>16. cursor' = p[j] /\ expect' = D[j] /\ LimitAt(sent, j, p, limit')
  BY <1>1, <1>3, <1>7 DEF RecordAt
<1>9. a.kind = "number" /\ b.kind = "number" /\ c.kind = "number" /\ d.kind = "length"
  BY DEF Number, LengthItem
<1> HIDE DEF a, b, c, d
<1> DEFINE t == <<a, b, c, d>>
<1>10. got' = got \o t
  BY <1>1
<1>11. Listed(t) /\ Len(t) = 4 /\ t[1] = a /\ t[2] = b /\ t[3] = c /\ t[4] = d
  BY Quadruple
<1> HIDE DEF t
<1>12. \A x \in 1 .. j - k : t[x] = Normal(sent[k + x])
  <2>1. \A x \in 1 .. j - k : x = 1 \/ x = 2 \/ x = 3 \/ x = 4
    BY <1>3, <1>7
  <2>2. /\ a = Normal(sent[k + 1]) /\ b = Normal(sent[k + 2]) /\ c = Normal(sent[k + 3])
        /\ d = Normal(sent[k + 4])
    BY <1>8, <1>9, NormalItem
  <2> QED
    BY <1>11, <2>1, <2>2
<1>13. Len(t) = j - k
  BY <1>3, <1>7, <1>11
<1>14. UNCHANGED <<buf, sent, names, stops>> /\ got' = got \o t /\ Listed(t)
  BY SMTT(40), <1>1, <1>10, <1>11
<1>15. Along(D, A, p, j)'
  BY SMTT(40), <1>2, <1>4, <1>12, <1>13, <1>14, <1>16, Advance
<1> QED
  BY <1>1, <1>5, <1>15 DEF ReadingAlong

(* The bytes that the parser needs for what comes next.                    *)
LEMMA Enough ==
  ASSUME cursor \in Nat, Len(buf) \in Nat, NEW kind, Head(expect).kind = kind
  PROVE  /\ kind = "header" /\ cursor + 12 <= Len(buf) => ~Truncated
         /\ kind = "record" /\ cursor + 10 <= Len(buf) => ~Truncated
         /\ kind = "name" /\ cursor + 1 <= Len(buf) => ~Truncated
         /\ kind \in {"number", "bytes"} /\ cursor + Head(expect).width <= Len(buf)
                /\ Head(expect).width \in Nat
              => ~Truncated
         /\ kind = "chunks" /\ cursor < limit /\ cursor < Len(buf) /\ At(cursor) \in Nat
                /\ cursor + 1 + At(cursor) <= Len(buf)
              => ~Truncated
         /\ kind = "chunks" /\ ~(cursor < limit) /\ cursor <= Len(buf) => ~Truncated
<1>1. kind = "header" /\ cursor + 12 <= Len(buf) => ~Truncated
  BY DEF Truncated
<1>2. kind = "record" /\ cursor + 10 <= Len(buf) => ~Truncated
  BY DEF Truncated
<1>3. kind = "name" /\ cursor + 1 <= Len(buf) => ~Truncated
  BY DEF Truncated
<1>4. kind \in {"number", "bytes"} /\ cursor + Head(expect).width <= Len(buf)
                /\ Head(expect).width \in Nat
              => ~Truncated
  BY DEF Truncated
<1>5. kind = "chunks" /\ cursor < limit /\ cursor < Len(buf) /\ At(cursor) \in Nat
                /\ cursor + 1 + At(cursor) <= Len(buf)
              => ~Truncated
  BY DEF Truncated
<1>6. kind = "chunks" /\ ~(cursor < limit) /\ cursor <= Len(buf) => ~Truncated
  BY DEF Truncated
<1> QED
  BY <1>1, <1>2, <1>3, <1>4, <1>5, <1>6

(* Of what was written the parser refuses nothing.                         *)
LEMMA NothingRefused ==
  ASSUME CodecInv, ReadingAlong, ParseFails, stage = "reading", Len(buf) < 65536
  PROVE  FALSE
<1>1. /\ expect # <<>> /\ Head(expect).kind # "end"
      /\ Truncated \/ Unsupported
  BY DEF ParseFails, Expects, Parsing
<1>2. PICK D, A, p, k : Along(D, A, p, k)
  BY DEF ReadingAlong
<1>3. expect = D[k]
  BY <1>1, <1>2 DEF Along, ClosingBody
<1>4. /\ k \in Nat /\ k + 1 \in 1 .. Len(sent)
      /\ \E j \in A : j \in 1 .. Len(sent) /\ k < j /\ Parses(sent, D, k, j)
  BY <1>1, <1>2, <1>3, GoesOn
<1>5. PICK j \in A : Parses(sent, D, k, j)
  BY <1>4
<1>6. LaidOut(p) /\ cursor = p[k] /\ cursor \in Nat /\ Len(buf) \in Nat /\ Paired(sent)
  <2>1. LaidOut(p) /\ cursor = p[k]
    BY <1>2 DEF Along, ReadTo
  <2> QED
    BY <2>1, WriterTypes DEF ReadingAlong, CodecInv
<1>7. PICK i \in 1 .. Len(sent) : i = k + 1 /\ i - 1 = k
  BY <1>4
<1>8. p[i] \in Nat /\ cursor <= p[i] /\ p[i] <= Len(buf)
  BY <1>6, <1>7, Places
<1>9. Head(expect).kind # "header" => ~Unsupported
  BY DEF Unsupported
<1>10. CASE HeaderRule(sent, D, k, j)
  <2>1. k = 0 /\ sent[i] \in HeaderItem /\ Head(expect).kind = "header"
    BY <1>3, <1>7, <1>10 DEF HeaderRule
  <2>2. /\ p[i] = p[i - 1] + 12 /\ HeaderAt(p[i - 1]) = sent[i].header
        /\ [x \in 1 .. 4 |-> Unpacked(p[i - 1] + 2 + 2 * x, 2)] = sent[i].counts
    BY <1>6, <2>1, HeaderHere
  <2>3. cursor + 12 <= Len(buf) /\ HeaderAt(cursor) = sent[i].header
    BY <1>6, <1>7, <1>8, <2>2
  <2>4. ~Truncated
    BY <1>6, <2>1, <2>3, Enough
  <2>5. sent[i].header \in Header
    BY <2>1 DEF HeaderItem
  <2>6. sent[i].header.opcode \in OpCode /\ sent[i].header.rcode \in ResponseCode
    BY <2>5 DEF Header
  <2>7. ~Unsupported
    BY <2>3, <2>6 DEF Unsupported
  <2> QED
    BY <1>1, <2>4, <2>7
<1>11. CASE NameRule(sent, D, k, j)
  <2>1. sent[i].kind = "name" /\ Head(expect).kind = "name"
    BY <1>3, <1>7, <1>11 DEF NameRule
  <2>2. p[i - 1] < Len(buf)
    BY <1>6, <2>1, NameHere DEF CodecInv
  <2>3. cursor + 1 <= Len(buf)
    BY <1>6, <1>7, <2>2
  <2>4. ~Truncated
    BY <1>6, <2>1, <2>3, Enough
  <2> QED
    BY <1>1, <1>9, <2>1, <2>4
<1>12. CASE NumberRule(sent, D, k, j)
  <2> DEFINE w == Head(expect).width
  <2>1. /\ Head(expect).kind = "number" /\ w \in {2, 4}
        /\ \E v : Fits(w, v) /\ sent[k + 1] = Number(w, v)
    BY <1>3, <1>12 DEF NumberRule
  <2> HIDE DEF w
  <2>2. PICK v : Fits(w, v) /\ sent[k + 1] = Number(w, v)
    BY <2>1
  <2>3. w \in {2, 4} /\ Fits(w, v) /\ sent[i] = Number(w, v)
    BY <1>7, <2>1, <2>2
  <2>4. p[i] = p[i - 1] + w
    BY <1>6, <2>3, NumberHere
  <2>5. cursor + w <= Len(buf) /\ w \in Nat
    BY <1>6, <1>7, <1>8, <2>1, <2>4
  <2>6. ~Truncated
    BY <1>6, <2>1, <2>5, Enough DEF w
  <2> QED
    BY <1>1, <1>9, <2>1, <2>6
<1>13. CASE BytesRule(sent, D, k, j)
  <2> DEFINE w == Head(expect).width
  <2>1. /\ Head(expect).kind = "bytes"
        /\ \E s \in Seq(Byte) : Len(s) = w /\ sent[k + 1] = Bytes(s)
    BY <1>3, <1>13 DEF BytesRule
  <2> HIDE DEF w
  <2>2. PICK s \in Seq(Byte) : Len(s) = w /\ sent[k + 1] = Bytes(s)
    BY <2>1
  <2>3. sent[i] = Bytes(s) /\ w \in Nat
    BY <1>7, <2>2, LenProperties
  <2>4. p[i] = p[i - 1] + Len(s)
    BY <1>6, <2>3, BytesHere
  <2>5. cursor + w <= Len(buf)
    BY <1>6, <1>7, <1>8, <2>2, <2>4
  <2>6. ~Truncated
    BY <1>6, <2>1, <2>3, <2>5, Enough DEF w
  <2> QED
    BY <1>1, <1>9, <2>1, <2>6
<1>14. CASE RecordRule(sent, D, k, j)
  <2>1. Head(expect).kind = "record"
    BY <1>3, <1>14 DEF RecordRule
  <2>2. RecordAt(D, p, k)
    BY <1>2, <1>6, <1>14, RecordHere
  <2>3. cursor + 10 <= Len(buf)
    BY <2>2 DEF RecordAt
  <2>4. ~Truncated
    BY <1>6, <2>1, <2>3, Enough
  <2> QED
    BY <1>1, <1>9, <2>1, <2>4
<1>15. CASE ChunkRule(sent, D, k, j)
  <2>1. Head(expect).kind = "chunks"
    BY <1>3, <1>15 DEF ChunkRule
  <2>2. PICK s \in Seq(Byte) : ChunkAt(D, p, k, s)
    BY <1>2, <1>4, <1>6, <1>15, ChunkHere
  <2>3. /\ cursor < limit /\ cursor < Len(buf) /\ At(cursor) = Len(s) /\ Len(s) \in Nat
        /\ cursor + 1 + Len(s) <= Len(buf)
    BY <2>2, LenProperties DEF ChunkAt
  <2>4. ~Truncated
    BY <1>6, <2>1, <2>3, Enough
  <2> QED
    BY <1>1, <1>9, <2>1, <2>4
<1>16. CASE LastChunkRule(sent, D, k, j)
  <2>1. Head(expect).kind = "chunks" /\ sent[k + 1] = PatchItem
    BY <1>3, <1>16 DEF LastChunkRule
  <2>2. limit = cursor
    BY <1>2, <1>4, <1>6, <2>1, PatchHere
  <2>3. ~(cursor < limit) /\ cursor <= Len(buf)
    BY <1>6, <1>8, <2>2
  <2>4. ~Truncated
    BY <1>6, <2>1, <2>3, Enough
  <2> QED
    BY <1>1, <1>9, <2>1, <2>4
<1>17. ~EndRule(sent, D, k, j)
  BY <1>1, <1>3 DEF EndRule
<1> QED
  BY <1>5, <1>10, <1>11, <1>12, <1>13, <1>14, <1>15, <1>16, <1>17 DEF Parses

(* The message is sealed and on its way.                                   *)
LEMMA DeliveredAlong == ASSUME CodecInv, Composed, Deliver PROVE ReadingAlong'
<1>1. /\ stage = "writing" /\ naming = Nothing /\ script = <<>>
      /\ expect' = Expected /\ cursor' = 0 /\ limit' = 0 /\ got' = <<>>
      /\ UNCHANGED <<buf, sent, names, stops, refused, op>>
  BY DEF Deliver, Seal, scriptVars, readerVars
<1>2. WellFormed(sent) /\ ~refused /\ \E p \in [0 .. Len(sent) -> Nat] : LaidOut(p)
  BY <1>1, AllLaidOut
<1>3. PICK p \in [0 .. Len(sent) -> Nat] : LaidOut(p)
  BY <1>2
<1>4. PICK D, A : Run(sent, D, A, Len(sent)) /\ D[Len(sent)] = <<>>
  BY <1>2 DEF WellFormed, Parsable
<1>5. 0 \in A /\ D[0] = Expected
  BY <1>4 DEF Run
<1>6. Len(sent) \in Nat /\ p[0] = 0
  BY <1>3 DEF LaidOut, Laid
<1>7. Listed(<<>>) /\ Len(<<>>) = 0
  <2>1. <<>> \in Seq({})
    OBVIOUS
  <2> QED
    BY <2>1, ListedIn
<1>8. ReadTo(0, p)'
  <2>1. 1 .. 0 = {} /\ 0 \in 0 .. Len(sent)
    BY <1>6
  <2>2. LimitAt(sent, 0, p, limit')
    BY DEF LimitAt
  <2> QED
    BY <1>1, <1>6, <1>7, <2>1, <2>2 DEF ReadTo
<1>9. LaidOut(p)'
  BY <1>1, <1>3 DEF LaidOut, Laid, Placed, Patched
<1>10. Along(D, A, p, 0)'
  BY <1>1, <1>4, <1>5, <1>8, <1>9 DEF Along
<1>11. op # "busy"
  BY <1>1, BusyReads DEF CodecInv
<1> QED
  BY <1>1, <1>2, <1>10, <1>11 DEF ReadingAlong, WellFormed

(* The steps of read_name leave what is parsed alone.                      *)
LEMMA AskedAlong ==
  ASSUME ReadingAlong, UNCHANGED <<scriptVars, parseVars>>,
         UNCHANGED <<buf, stage, names, stops>>,
         op' = "busy" => from' = cursor \/ (op = "busy" /\ from' = from)
  PROVE  ReadingAlong'
<1>1. UNCHANGED <<sent, expect, cursor, limit, got, refused>>
  BY DEF scriptVars, parseVars
<1>2. ASSUME NEW D, NEW A, NEW p, NEW k, Along(D, A, p, k) PROVE Along(D, A, p, k)'
  <2>1. ReadTo(k, p)'
    BY <1>1, <1>2 DEF Along, ReadTo
  <2>2. LaidOut(p)'
    BY <1>1, <1>2 DEF Along, LaidOut, Laid, Placed, Patched
  <2> QED
    BY <1>1, <1>2, <2>1, <2>2 DEF Along, ClosingBody
<1> QED
  BY <1>1, <1>2 DEF ReadingAlong

-----------------------------------------------------------------------------
(* While the program parses what it has been sent, it goes by the rules    *)
(* that make a message well formed.                                        *)

(* Every patch has its length, every length its patch or the body that is  *)
(* being read.                                                             *)
PairedSoFar(items) ==
    /\ \A q \in 1 .. Len(items) :
          items[q].kind = "patch" => \E l \in 1 .. Len(items) : Mates(items, l, q)
    /\ \A l \in 1 .. Len(items) :
          items[l].kind = "length" =>
              \/ \E q \in 1 .. Len(items) : Mates(items, l, q)
              \/ \A j \in l + 1 .. Len(items) : ~Marks(items, j)

(* A record is only begun when the one before it has ended.                *)
Orderly(e) ==
    /\ \A i, j \in 1 .. Len(e) :
          i < j /\ e[j].kind = "end" => e[i].kind \notin {"record", "end"}
    /\ \A i \in 1 .. Len(e) : e[i].kind = "chunks" => i < Len(e) /\ e[i + 1].kind = "end"
    /\ \A i \in 1 .. Len(e) : e[i].kind = "number" => e[i].width \in {2, 4}

Underway(D, A) ==
    /\ Run(got, D, A, Len(got))
    /\ expect = D[Len(got)] \/ ClosingBody(D, Len(got))

GivenAlong ==
    stage = "given" =>
        /\ refused => expect # <<>> /\ op # "busy"
        /\ Listed(got) /\ PairedSoFar(got) /\ Orderly(expect)
        /\ EndsAsked <=> Open(got, Len(got))
        /\ \E D, A : Underway(D, A)

(* More is parsed.                                                         *)
LEMMA GotFurther ==
  ASSUME Listed(got), NEW t, Listed(t), got' = got \o t
  PROVE  /\ Listed(got') /\ Len(got) \in Nat /\ Len(t) \in Nat /\ Len(got') = Len(got) + Len(t)
         /\ \A i \in 1 .. Len(got) : got'[i] = got[i]
         /\ \A i \in 1 .. Len(t) : got'[Len(got) + i] = t[i]
<1>1. Len(got) \in Nat /\ Len(t) \in Nat
  BY ListedParts
<1>2. /\ Listed(got') /\ Len(got') = Len(got) + Len(t)
      /\ \A i \in 1 .. Len(got) + Len(t) :
                got'[i] = IF i <= Len(got) THEN got[i] ELSE t[i - Len(got)]
  BY ListedConcat
<1>3. ASSUME NEW i \in 1 .. Len(got) PROVE got'[i] = got[i]
  <2>1. i \in 1 .. Len(got) + Len(t) /\ i <= Len(got)
    BY <1>1
  <2> QED
    BY <1>2, <2>1
<1>4. ASSUME NEW i \in 1 .. Len(t) PROVE got'[Len(got) + i] = t[i]
  <2>1. /\ Len(got) + i \in 1 .. Len(got) + Len(t) /\ ~(Len(got) + i <= Len(got))
        /\ Len(got) + i - Len(got) = i
    BY <1>1
  <2> QED
    BY <1>2, <2>1
<1> QED
  BY <1>1, <1>2, <1>3, <1>4

LEMMA MatesKept ==
  ASSUME Len(got) \in Nat, \A i \in 1 .. Len(got) : got'[i] = got[i],
         NEW l \in 1 .. Len(got), NEW q \in 1 .. Len(got)
  PROVE  Mates(got, l, q) <=> Mates(got', l, q)
<1>1. \A j \in l + 1 .. q - 1 : j \in 1 .. Len(got)
  OBVIOUS
<1>2. \A j \in l + 1 .. q - 1 : Marks(got, j) <=> Marks(got', j)
  BY <1>1 DEF Marks
<1> QED
  BY <1>2 DEF Mates

LEMMA OpenKept ==
  ASSUME Len(got) \in Nat, \A i \in 1 .. Len(got) : got'[i] = got[i],
         NEW k \in 0 .. Len(got)
  PROVE  Open(got, k) <=> Open(got', k)
<1>1. \A l \in 1 .. k : l \in 1 .. Len(got) /\ \A j \in l + 1 .. k : j \in 1 .. Len(got)
  OBVIOUS
<1>2. \A l \in 1 .. k : \A j \in l + 1 .. k : Marks(got, j) <=> Marks(got', j)
  BY <1>1 DEF Marks
<1> QED
  BY <1>1, <1>2 DEF Open

(* What is parsed next decides whether the body goes on.                   *)
LEMMA PlainParsed ==
  ASSUME Listed(got), PairedSoFar(got), NEW t, Listed(t), got' = got \o t,
         \A i \in 1 .. Len(t) : t[i].kind \notin {"length", "patch"}
  PROVE  PairedSoFar(got') /\ (Open(got', Len(got')) <=> Open(got, Len(got)))
<1> DEFINE n == Len(got)
           m == Len(got')
<1>1. /\ n \in Nat /\ Len(t) \in Nat /\ m = n + Len(t)
      /\ \A i \in 1 .. n : got'[i] = got[i]
      /\ \A i \in 1 .. Len(t) : got'[n + i] = t[i]
  BY GotFurther
<1>2. n \in Nat /\ m \in Nat /\ n <= m
  BY <1>1
<1>3. \A j \in n + 1 .. m : ~Marks(got', j)
  <2> TAKE j \in n + 1 .. m
  <2>1. j - n \in 1 .. Len(t) /\ n + (j - n) = j
    BY <1>1
  <2>2. got'[j] = t[j - n]
    BY <1>1, <2>1
  <2> QED
    BY <2>1, <2>2 DEF Marks
<1>4. \A l, q \in 1 .. n : Mates(got, l, q) <=> Mates(got', l, q)
  BY <1>1, MatesKept
<1>5. /\ \A q \in 1 .. n : got[q].kind = "patch" => \E l \in 1 .. n : Mates(got, l, q)
      /\ \A l \in 1 .. n :
            got[l].kind = "length" =>
                \/ \E q \in 1 .. n : Mates(got, l, q)
                \/ \A j \in l + 1 .. n : ~Marks(got, j)
  BY DEF PairedSoFar
<1>6. \A j \in 1 .. n : got'[j] = got[j] /\ (Marks(got', j) <=> Marks(got, j))
  BY <1>1 DEF Marks
<1>7. \A j \in 1 .. m : Marks(got', j) => j \in 1 .. n
  <2>1. \A j \in 1 .. m : j \in 1 .. n \/ j \in n + 1 .. m
    BY <1>2
  <2> QED
    BY <1>3, <2>1
<1>8. \A j \in 1 .. n : j \in 1 .. m
  BY <1>2
<1> HIDE DEF n, m
<1>9. ASSUME NEW q \in 1 .. m, got'[q].kind = "patch"
      PROVE  \E l \in 1 .. m : Mates(got', l, q)
  <2>1. q \in 1 .. n
    BY <1>7, <1>9 DEF Marks
  <2>2. PICK l \in 1 .. n : Mates(got, l, q)
    BY <1>5, <1>6, <1>9, <2>1
  <2> QED
    BY <1>4, <1>8, <2>1, <2>2
<1>10. ASSUME NEW l \in 1 .. n, \A j \in l + 1 .. n : ~Marks(got, j)
       PROVE  \A j \in l + 1 .. m : ~Marks(got', j)
  <2> TAKE j \in l + 1 .. m
  <2>1. j \in l + 1 .. n \/ j \in n + 1 .. m
    BY <1>2
  <2>2. j \in l + 1 .. n => j \in 1 .. n
    OBVIOUS
  <2> QED
    BY <1>3, <1>6, <1>10, <2>1, <2>2
<1>11. ASSUME NEW l \in 1 .. m, got'[l].kind = "length"
       PROVE  \/ \E q \in 1 .. m : Mates(got', l, q)
              \/ \A j \in l + 1 .. m : ~Marks(got', j)
  <2>1. l \in 1 .. n
    BY <1>7, <1>11 DEF Marks
  <2>2. got[l].kind = "length"
    BY <1>6, <1>11, <2>1
  <2> QED
    BY <1>4, <1>5, <1>8, <1>10, <2>1, <2>2
<1>12. PairedSoFar(got')
  BY <1>9, <1>11 DEF PairedSoFar, m
<1>13. Open(got, n) => Open(got', m)
  BY <1>6, <1>8, <1>10 DEF Open
<1>14. Open(got', m) => Open(got, n)
  <2> SUFFICES ASSUME NEW l \in 1 .. m, got'[l].kind = "length",
                      \A j \in l + 1 .. m : ~Marks(got', j)
               PROVE  Open(got, n)
    BY DEF Open
  <2>1. l \in 1 .. n
    BY <1>7 DEF Marks
  <2>2. got[l].kind = "length"
    BY <1>6, <2>1
  <2>3. \A j \in l + 1 .. n : j \in l + 1 .. m /\ j \in 1 .. n
    BY <1>2, <2>1
  <2>4. \A j \in l + 1 .. n : ~Marks(got, j)
    BY <1>6, <2>3
  <2> QED
    BY <2>1, <2>2, <2>4 DEF Open
<1> QED
  BY <1>12, <1>13, <1>14 DEF n, m

LEMMA PatchParsed ==
  ASSUME Listed(got), PairedSoFar(got), Open(got, Len(got)), got' = got \o <<PatchItem>>
  PROVE  PairedSoFar(got') /\ ~Open(got', Len(got'))
<1> DEFINE n == Len(got)
<1>1. /\ n \in Nat /\ Len(got') = n + 1
      /\ \A i \in 1 .. n : got'[i] = got[i]
      /\ got'[n + 1] = PatchItem
  <2>1. PICK t : t = <<PatchItem>>
    OBVIOUS
  <2>2. Listed(t) /\ Len(t) = 1 /\ t[1] = PatchItem /\ 1 \in 1 .. 1
    BY <2>1, Singleton
  <2> QED
    BY <2>1, <2>2, GotFurther
<1>2. \A l, q \in 1 .. n : Mates(got, l, q) <=> Mates(got', l, q)
  BY <1>1, MatesKept
<1>3. /\ \A q \in 1 .. n : got[q].kind = "patch" => \E l \in 1 .. n : Mates(got, l, q)
      /\ \A l \in 1 .. n :
            got[l].kind = "length" =>
                \/ \E q \in 1 .. n : Mates(got, l, q)
                \/ \A j \in l + 1 .. n : ~Marks(got, j)
  BY DEF PairedSoFar
<1>4. \A j \in 1 .. n : got'[j] = got[j] /\ (Marks(got', j) <=> Marks(got, j))
  BY <1>1 DEF Marks
<1>5. /\ got'[n + 1].kind = "patch" /\ Marks(got', n + 1)
      /\ \A j \in 1 .. n + 1 : j \in 1 .. n \/ j = n + 1
      /\ \A j \in 1 .. n : j \in 1 .. n + 1
      /\ n + 1 \in 1 .. n + 1
  BY <1>1 DEF PatchItem, Marks
<1>6. PICK l \in 1 .. n : got[l].kind = "length" /\ \A j \in l + 1 .. n : ~Marks(got, j)
  BY DEF Open
<1> HIDE DEF n
<1>7. ASSUME NEW x \in 1 .. n, got[x].kind = "length", \A j \in x + 1 .. n : ~Marks(got, j)
      PROVE  Mates(got', x, n + 1)
  <2>1. PICK q \in 1 .. n + 1 : q = n + 1
    BY <1>5
  <2>2. x < q /\ \A j \in x + 1 .. q - 1 : j \in x + 1 .. n /\ j \in 1 .. n
    BY <1>1, <2>1
  <2>3. \A j \in x + 1 .. q - 1 : ~Marks(got', j)
    BY <1>4, <1>7, <2>2
  <2>4. got'[x].kind = "length" /\ got'[q].kind = "patch"
    BY <1>4, <1>5, <1>7, <2>1
  <2>5. Mates(got', x, q)
    BY <2>2, <2>3, <2>4 DEF Mates
  <2> QED
    BY <2>1, <2>5
<1>8. ASSUME NEW q \in 1 .. n + 1, got'[q].kind = "patch"
      PROVE  \E x \in 1 .. n + 1 : Mates(got', x, q)
  <2>1. CASE q = n + 1
    BY <1>5, <1>6, <1>7, <2>1
  <2>2. CASE q \in 1 .. n
    <3>1. PICK x \in 1 .. n : Mates(got, x, q)
      BY <1>3, <1>4, <1>8, <2>2
    <3> QED
      BY <1>2, <1>5, <2>2, <3>1
  <2> QED
    BY <1>5, <2>1, <2>2
<1>9. ASSUME NEW x \in 1 .. n + 1, got'[x].kind = "length"
      PROVE  \E q \in 1 .. n + 1 : Mates(got', x, q)
  <2>1. x \in 1 .. n
    BY <1>5, <1>9
  <2>2. got[x].kind = "length"
    BY <1>4, <1>9, <2>1
  <2>3. CASE \E q \in 1 .. n : Mates(got, x, q)
    BY <1>2, <1>5, <2>1, <2>3
  <2>4. CASE \A j \in x + 1 .. n : ~Marks(got, j)
    <3>1. Mates(got', x, n + 1)
      BY <1>7, <2>1, <2>2, <2>4
    <3> QED
      BY <1>5, <3>1
  <2> QED
    BY <1>3, <2>1, <2>2, <2>3, <2>4
<1>10. PairedSoFar(got')
  BY <1>1, <1>8, <1>9 DEF PairedSoFar
<1>11. ~Open(got', n + 1)
  <2> SUFFICES ASSUME NEW x \in 1 .. n + 1, got'[x].kind = "length",
                      \A j \in x + 1 .. n + 1 : ~Marks(got', j)
               PROVE  FALSE
    BY DEF Open
  <2>1. x \in 1 .. n
    BY <1>5
  <2>2. n + 1 \in x + 1 .. n + 1
    BY <1>1, <2>1
  <2> QED
    BY <1>5, <2>2
<1> QED
  BY <1>1, <1>10, <1>11

LEMMA LengthParsed ==
  ASSUME Listed(got), PairedSoFar(got), ~Open(got, Len(got)), NEW t, Listed(t), got' = got \o t,
         Len(t) = 4, t[4].kind = "length",
         \A i \in 1 .. 3 : t[i].kind \notin {"length", "patch"}
  PROVE  PairedSoFar(got') /\ Open(got', Len(got'))
<1> DEFINE n == Len(got)
<1>1. /\ n \in Nat /\ Len(got') = n + 4
      /\ \A i \in 1 .. n : got'[i] = got[i]
      /\ \A i \in 1 .. 4 : got'[n + i] = t[i]
  BY GotFurther
<1>2. \A l, q \in 1 .. n : Mates(got, l, q) <=> Mates(got', l, q)
  BY <1>1, MatesKept
<1>3. /\ \A q \in 1 .. n : got[q].kind = "patch" => \E l \in 1 .. n : Mates(got, l, q)
      /\ \A l \in 1 .. n :
            got[l].kind = "length" =>
                \/ \E q \in 1 .. n : Mates(got, l, q)
                \/ \A j \in l + 1 .. n : ~Marks(got, j)
  BY DEF PairedSoFar
<1>4. \A j \in 1 .. n : got'[j] = got[j]
  BY <1>1
<1>5. PICK m \in Nat : m = n + 4
  BY <1>1
<1>6. m \in 1 .. m /\ n <= m /\ \A j \in 1 .. n : j \in 1 .. m
  BY <1>1, <1>5
<1>7. got'[m].kind = "length"
  <2>1. 4 \in 1 .. 4
    OBVIOUS
  <2> QED
    BY <1>1, <1>5, <2>1
<1>8. \A j \in 1 .. m : j \in 1 .. n \/ j = m \/ got'[j].kind \notin {"length", "patch"}
  <2> TAKE j \in 1 .. m
  <2>1. j \in 1 .. n \/ j = m \/ (j - n \in 1 .. 3 /\ j - n \in 1 .. 4 /\ n + (j - n) = j)
    BY <1>1, <1>5
  <2> QED
    BY <1>1, <2>1
<1> HIDE DEF n
<1>9. ASSUME NEW q \in 1 .. m, got'[q].kind = "patch"
      PROVE  \E x \in 1 .. m : Mates(got', x, q)
  <2>1. q \in 1 .. n
    BY <1>7, <1>8, <1>9
  <2>2. PICK x \in 1 .. n : Mates(got, x, q)
    BY <1>3, <1>4, <1>9, <2>1
  <2> QED
    BY <1>2, <1>6, <2>1, <2>2
<1>10. ASSUME NEW x \in 1 .. m, got'[x].kind = "length"
       PROVE  \/ \E q \in 1 .. m : Mates(got', x, q)
              \/ \A j \in x + 1 .. m : ~Marks(got', j)
  <2>1. CASE x \in 1 .. n
    <3>1. got[x].kind = "length"
      BY <1>4, <1>10, <2>1
    <3>2. ~(\A j \in x + 1 .. n : ~Marks(got, j))
      BY <2>1, <3>1 DEF Open, n
    <3>3. PICK q \in 1 .. n : Mates(got, x, q)
      BY <1>3, <2>1, <3>1, <3>2
    <3> QED
      BY <1>2, <1>6, <2>1, <3>3
  <2>2. CASE x = m
    <3>1. \A j \in x + 1 .. m : FALSE
      BY <2>2
    <3> QED
      BY <3>1
  <2> QED
    BY <1>8, <1>10, <2>1, <2>2
<1>11. PairedSoFar(got')
  BY <1>1, <1>5, <1>9, <1>10 DEF PairedSoFar
<1>12. Open(got', m)
  <2>1. \A j \in m + 1 .. m : FALSE
    OBVIOUS
  <2> QED
    BY <1>6, <1>7, <2>1 DEF Open
<1> QED
  BY <1>1, <1>5, <1>11, <1>12

(* A run that goes on as it did.                                           *)
LEMMA ParsesKept ==
  ASSUME Len(got) \in Nat, \A x \in 1 .. Len(got) : got'[x] = got[x],
         NEW D, NEW E, NEW i \in Nat, NEW j \in Nat, i < j, j <= Len(got), E[i] = D[i],
         E[j] = D[j], Parses(got, D, i, j)
  PROVE  Parses(got', E, i, j)
<1>1. \A x \in Nat : i < x /\ x <= j => got'[x] = got[x]
  BY DEF Parses
<1>2. got'[j] = got[j] /\ D[i] # <<>>
  BY <1>1 DEF Parses
<1>3. CASE HeaderRule(got, D, i, j)
  BY <1>2, <1>3 DEF HeaderRule, Parses
<1>4. CASE NameRule(got, D, i, j)
  BY <1>2, <1>4 DEF NameRule, Parses
<1>5. CASE NumberRule(got, D, i, j)
  BY <1>2, <1>5 DEF NumberRule, Parses
<1>6. CASE BytesRule(got, D, i, j)
  BY <1>2, <1>6 DEF BytesRule, Parses
<1>7. CASE RecordRule(got, D, i, j)
  <2>1. j = i + 4
    BY <1>7 DEF RecordRule
  <2>2. /\ got'[i + 1] = got[i + 1] /\ got'[i + 2] = got[i + 2]
        /\ got'[i + 3] = got[i + 3] /\ got'[i + 4] = got[i + 4]
    BY <1>1, <2>1
  <2> QED
    BY <1>2, <1>7, <2>2 DEF RecordRule, Parses
<1>8. CASE ChunkRule(got, D, i, j)
  <2>1. j = i + 2 /\ Open(got, i)
    BY <1>8 DEF ChunkRule
  <2>2. got'[i + 1] = got[i + 1] /\ got'[i + 2] = got[i + 2]
    BY <1>1, <2>1
  <2>3. i \in 0 .. Len(got)
    OBVIOUS
  <2>4. Open(got', i)
    BY <2>1, <2>3, OpenKept
  <2> QED
    BY <1>2, <1>8, <2>2, <2>4 DEF ChunkRule, Parses
<1>9. CASE LastChunkRule(got, D, i, j)
  BY <1>2, <1>9 DEF LastChunkRule, Parses
<1>10. CASE EndRule(got, D, i, j)
  BY <1>2, <1>10 DEF EndRule, Parses
<1> QED
  BY <1>3, <1>4, <1>5, <1>6, <1>7, <1>8, <1>9, <1>10 DEF Parses

Then(D, j, d) == [i \in 0 .. j |-> IF i = j THEN d ELSE D[i]]

LEMMA RunFurther ==
  ASSUME NEW D, NEW A, Run(got, D, A, Len(got)), Listed(got), NEW t, Listed(t), Len(t) # 0,
         got' = got \o t, expect' \in Seq(Expectation),
         Parses(got', Then(D, Len(got'), expect'), Len(got), Len(got'))
  PROVE  \E E, B : Run(got', E, B, Len(got')) /\ expect' = E[Len(got')]
<1> DEFINE n == Len(got)
           m == Len(got')
           E == Then(D, m, expect')
           B == A \cup {m}
<1>1. n \in Nat /\ m \in Nat /\ n < m /\ \A i \in 1 .. n : got'[i] = got[i]
  BY GotFurther
<1>2. /\ 0 \in A /\ n \in A /\ A \subseteq 0 .. n
      /\ D[0] = Expected /\ \A i \in A : i # 0 => D[i] \in Seq(Expectation)
      /\ \A i \in A : i < n => \E j \in A : i < j /\ Parses(got, D, i, j)
  BY DEF Run
<1>3. (\A i \in 0 .. n : E[i] = D[i]) /\ E[m] = expect'
  BY <1>1 DEF Then
<1>4. Parses(got', E, n, m)
  OBVIOUS
<1> HIDE DEF E, n, m
<1>5. 0 \in B /\ m \in B /\ B \subseteq 0 .. m
  BY <1>1, <1>2
<1>6. E[0] = Expected /\ \A i \in B : i # 0 => E[i] \in Seq(Expectation)
  <2>1. 0 \in 0 .. n
    BY <1>1
  <2> QED
    BY <1>2, <1>3, <2>1
<1>7. ASSUME NEW i \in B, i < m PROVE \E j \in B : i < j /\ Parses(got', E, i, j)
  <2>1. i \in A /\ i \in 0 .. n
    BY <1>1, <1>2, <1>7
  <2>2. CASE i = n
    BY <1>1, <1>4, <2>2
  <2>3. CASE i # n
    <3>1. i < n
      BY <1>1, <2>1, <2>3
    <3>2. PICK j \in A : i < j /\ Parses(got, D, i, j)
      BY <1>2, <2>1, <3>1
    <3>3. i \in Nat /\ j \in Nat /\ j <= n /\ j \in 0 .. n
      BY <1>1, <1>2, <2>1
    <3>4. E[i] = D[i] /\ E[j] = D[j]
      BY <1>3, <2>1, <3>3
    <3>5. Parses(got', E, i, j)
      BY <1>1, <3>2, <3>3, <3>4, ParsesKept DEF n
    <3> QED
      BY <3>2, <3>5
  <2> QED
    BY <2>2, <2>3
<1>8. Run(got', E, B, m)
  BY <1>5, <1>6, <1>7 DEF Run
<1> QED
  BY <1>3, <1>8 DEF m

Ends(e) == \E i \in 1 .. Len(e) : e[i].kind = "end"

LEMMA OrderlyTail ==
  ASSUME NEW e \in Seq(Expectation), e # <<>>, Orderly(e)
  PROVE  /\ Orderly(Tail(e))
         /\ Head(e).kind \in {"record", "end"} => ~Ends(Tail(e))
         /\ Head(e).kind = "chunks" =>
                Tail(e) # <<>> /\ Head(Tail(e)).kind = "end" /\ Ends(e)
         /\ Head(e).kind # "end" => (Ends(Tail(e)) <=> Ends(e))
         /\ Head(e).kind = "end" => Ends(e)
         /\ Head(e).kind = "number" => Head(e).width \in {2, 4}
<1> DEFINE w == Tail(e)
           n == Len(e)
<1>1. /\ n \in Nat /\ n >= 1 /\ Head(e) = e[1] /\ w \in Seq(Expectation) /\ Len(w) = n - 1
      /\ \A i \in 1 .. n - 1 : w[i] = e[i + 1]
  <2>1. n \in Nat /\ n # 0
    BY LenProperties, EmptySeq
  <2>2. /\ Head(e) = e[1] /\ w \in Seq(Expectation) /\ Len(w) = n - 1
        /\ \A i \in 1 .. Len(w) : w[i] = e[i + 1]
    BY HeadTailProperties
  <2> HIDE DEF w, n
  <2> QED
    BY <2>1, <2>2
<1>2. /\ \A i, j \in 1 .. n : i < j /\ e[j].kind = "end" => e[i].kind \notin {"record", "end"}
      /\ \A i \in 1 .. n : e[i].kind = "chunks" => i < n /\ e[i + 1].kind = "end"
      /\ \A i \in 1 .. n : e[i].kind = "number" => e[i].width \in {2, 4}
  BY DEF Orderly
<1> HIDE DEF w, n
<1>3. \A i \in 1 .. n - 1 : i + 1 \in 1 .. n
  BY <1>1
<1>4. 1 \in 1 .. n
  BY <1>1
<1>5. Orderly(w)
  <2>1. ASSUME NEW i \in 1 .. n - 1, NEW j \in 1 .. n - 1, i < j, w[j].kind = "end"
        PROVE  w[i].kind \notin {"record", "end"}
    <3>1. i + 1 < j + 1 /\ e[j + 1].kind = "end" /\ i + 1 \in 1 .. n /\ j + 1 \in 1 .. n
      BY <1>1, <1>3, <2>1
    <3>2. e[i + 1].kind \notin {"record", "end"}
      BY <1>2, <3>1
    <3> QED
      BY <1>1, <3>2
  <2>2. ASSUME NEW i \in 1 .. n - 1, w[i].kind = "chunks"
        PROVE  i < n - 1 /\ w[i + 1].kind = "end"
    <3>1. e[i + 1].kind = "chunks" /\ i + 1 \in 1 .. n
      BY <1>1, <1>3, <2>2
    <3>2. i + 1 < n /\ e[i + 1 + 1].kind = "end"
      BY <1>2, <3>1
    <3>3. i < n - 1 /\ i + 1 \in 1 .. n - 1
      BY <1>1, <3>2
    <3> QED
      BY <1>1, <3>2, <3>3
  <2>3. ASSUME NEW i \in 1 .. n - 1, w[i].kind = "number"
        PROVE  w[i].width \in {2, 4}
    BY <1>1, <1>2, <1>3, <2>3
  <2> QED
    BY <1>1, <2>1, <2>2, <2>3 DEF Orderly
<1>6. Head(e).kind \in {"record", "end"} => ~Ends(w)
  <2> SUFFICES ASSUME Head(e).kind \in {"record", "end"}, NEW i \in 1 .. n - 1, w[i].kind = "end"
               PROVE  FALSE
    BY <1>1 DEF Ends
  <2>1. 1 < i + 1 /\ i + 1 \in 1 .. n /\ e[i + 1].kind = "end"
    BY <1>1, <1>3
  <2> QED
    BY <1>1, <1>2, <1>4, <2>1
<1>7. Head(e).kind = "chunks" => w # <<>> /\ Head(w).kind = "end" /\ Ends(e)
  <2> SUFFICES ASSUME Head(e).kind = "chunks"
               PROVE  w # <<>> /\ Head(w).kind = "end" /\ Ends(e)
    OBVIOUS
  <2>1. 1 < n /\ e[1 + 1].kind = "end"
    BY <1>1, <1>2, <1>4
  <2>2. 1 \in 1 .. n - 1 /\ 1 + 1 \in 1 .. n /\ Len(w) # 0
    BY <1>1, <2>1
  <2>3. w # <<>>
    BY <2>2
  <2>4. Head(w) = w[1]
    BY <1>1, <2>3, HeadTailProperties
  <2>5. Ends(e)
    BY <2>1, <2>2 DEF Ends, n
  <2> QED
    BY <1>1, <2>1, <2>2, <2>3, <2>4, <2>5
<1>8. Head(e).kind # "end" => (Ends(w) <=> Ends(e))
  <2>1. Ends(w) => Ends(e)
    BY <1>1, <1>3 DEF Ends, n
  <2>2. ASSUME Head(e).kind # "end", NEW i \in 1 .. n, e[i].kind = "end"
        PROVE  Ends(w)
    <3>1. i # 1
      BY <1>1, <2>2
    <3>2. i - 1 \in 1 .. n - 1 /\ i - 1 + 1 = i
      BY <1>1, <3>1
    <3> QED
      BY <1>1, <2>2, <3>2 DEF Ends
  <2> QED
    BY <2>1, <2>2 DEF Ends, n
<1>9. Head(e).kind = "end" => Ends(e)
  BY <1>1, <1>4 DEF Ends, n
<1>10. Head(e).kind = "number" => Head(e).width \in {2, 4}
  BY <1>1, <1>2, <1>4
<1> QED
  BY <1>5, <1>6, <1>7, <1>8, <1>9, <1>10 DEF w

(* A body has no record in it, and its chunks come last.                   *)
Body(s) ==
    /\ s \in Seq(Expectation)
    /\ \A i \in 1 .. Len(s) :
          /\ s[i].kind \notin {"record", "end"}
          /\ s[i].kind = "chunks" => i = Len(s)
          /\ s[i].kind = "number" => s[i].width \in {2, 4}

LEMMA SingleBody ==
  ASSUME NEW x \in Expectation, x.kind \in {"name", "bytes", "chunks"}
  PROVE  Body(<<x>>)
<1>1. <<x>> \in Seq(Expectation) /\ Len(<<x>>) = 1 /\ <<x>>[1] = x
  OBVIOUS
<1>2. \A i \in 1 .. 1 : i = 1
  OBVIOUS
<1> QED
  BY <1>1, <1>2 DEF Body

LEMMA JoinedBody ==
  ASSUME NEW s, Body(s), NEW t, Body(t), \A i \in 1 .. Len(s) : s[i].kind # "chunks"
  PROVE  Body(s \o t)
<1>1. s \in Seq(Expectation) /\ t \in Seq(Expectation)
  BY DEF Body
<1>2. Len(s) \in Nat /\ Len(t) \in Nat
  BY <1>1, LenProperties
<1>3. /\ s \o t \in Seq(Expectation) /\ Len(s \o t) = Len(s) + Len(t)
      /\ \A i \in 1 .. Len(s) + Len(t) :
             (s \o t)[i] = IF i <= Len(s) THEN s[i] ELSE t[i - Len(s)]
  BY <1>1, ConcatProperties
<1>4. ASSUME NEW i \in 1 .. Len(s) + Len(t)
      PROVE  /\ (s \o t)[i].kind \notin {"record", "end"}
             /\ (s \o t)[i].kind = "chunks" => i = Len(s) + Len(t)
             /\ (s \o t)[i].kind = "number" => (s \o t)[i].width \in {2, 4}
  <2>1. CASE i <= Len(s)
    <3>1. i \in 1 .. Len(s) /\ (s \o t)[i] = s[i]
      BY <1>2, <1>3, <2>1
    <3> QED
      BY <3>1 DEF Body
  <2>2. CASE ~(i <= Len(s))
    <3>1. i - Len(s) \in 1 .. Len(t) /\ (s \o t)[i] = t[i - Len(s)]
          /\ (i - Len(s) = Len(t) => i = Len(s) + Len(t))
      BY <1>2, <1>3, <2>2
    <3> QED
      BY <3>1 DEF Body
  <2> QED
    BY <2>1, <2>2
<1> QED
  BY <1>3, <1>4 DEF Body

LEMMA NumbersBody ==
  ASSUME NEW n \in Nat, NEW w \in {2, 4}
  PROVE  /\ Body([i \in 1 .. n |-> ExpectWide("number", w)])
         /\ \A i \in 1 .. Len([j \in 1 .. n |-> ExpectWide("number", w)]) :
               [j \in 1 .. n |-> ExpectWide("number", w)][i].kind # "chunks"
<1> DEFINE s == [i \in 1 .. n |-> ExpectWide("number", w)]
<1>1. ExpectWide("number", w) \in Expectation
  BY ExpectationType
<1>2. s \in [1 .. n -> Expectation] /\ \A i \in 1 .. n : s[i] = ExpectWide("number", w)
  BY <1>1
<1> HIDE DEF s
<1>3. s \in Seq(Expectation)
  BY <1>2, SeqDef
<1>4. Len(s) = n
  <2>1. DOMAIN s = 1 .. n /\ DOMAIN s = 1 .. Len(s) /\ Len(s) \in Nat
    BY <1>2, <1>3, LenProperties
  <2> QED
    BY <2>1
<1>5. ExpectWide("number", w).kind = "number" /\ ExpectWide("number", w).width = w
  BY DEF ExpectWide
<1>6. Body(s)
  BY <1>2, <1>3, <1>4, <1>5 DEF Body
<1>7. \A i \in 1 .. Len(s) : s[i].kind # "chunks"
  BY <1>2, <1>4, <1>5
<1> QED
  BY <1>6, <1>7 DEF s

LEMMA ShapeBody ==
  ASSUME NEW rtype \in Nat, NEW rdlength \in Nat
  PROVE  Body(Shape(rtype, rdlength))
<1>1. /\ Expect("name") \in Expectation /\ Expect("chunks") \in Expectation
      /\ \A width \in Nat : ExpectWide("bytes", width) \in Expectation
  BY ExpectationType
<1>2. /\ Expect("name").kind = "name" /\ Expect("chunks").kind = "chunks"
      /\ \A width \in Nat : ExpectWide("bytes", width).kind = "bytes"
  BY DEF Expect, ExpectWide
<1>3. /\ Body(<<Expect("name")>>) /\ Body(<<Expect("chunks")>>)
      /\ \A width \in Nat : Body(<<ExpectWide("bytes", width)>>)
  BY <1>1, <1>2, SingleBody
<1> DEFINE x == Expect("name")
           two == <<x, x>>
           five == [i \in 1 .. 5 |-> ExpectWide("number", 4)]
           y == ExpectWide("number", 2)
           mx == <<y, x>>
<1>4. Body(five)
  BY NumbersBody
<1>5. y \in Expectation /\ y.kind = "number" /\ y.width = 2 /\ x \in Expectation /\ x.kind = "name"
  BY <1>1, <1>2, ExpectationType DEF ExpectWide
<1> HIDE DEF x, y
<1>6. /\ two \in Seq(Expectation) /\ Len(two) = 2 /\ two[1] = x /\ two[2] = x
      /\ mx \in Seq(Expectation) /\ Len(mx) = 2 /\ mx[1] = y /\ mx[2] = x
  BY <1>5
<1> HIDE DEF two, mx, five
<1>7. \A i \in 1 .. 2 : i = 1 \/ i = 2
  OBVIOUS
<1>8. Body(two) /\ Body(mx) /\ \A i \in 1 .. Len(two) : two[i].kind # "chunks"
  BY <1>5, <1>6, <1>7 DEF Body
<1>9. Body(two \o five)
  BY <1>4, <1>8, JoinedBody
<1>10. /\ Body(<<Expect("name"), Expect("name")>> \o [i \in 1 .. 5 |-> ExpectWide("number", 4)])
       /\ Body(<<ExpectWide("number", 2), Expect("name")>>)
  BY <1>8, <1>9 DEF two, five, mx, x, y
<1> QED
  BY <1>3, <1>10 DEF Shape

LEMMA BodyOrderly ==
  ASSUME NEW s, Body(s), NEW e \in Expectation, e.kind = "end", NEW w \in Seq(Expectation),
         Orderly(w), ~Ends(w)
  PROVE  Orderly(s \o <<e>> \o w) /\ Ends(s \o <<e>> \o w)
<1> DEFINE one == <<e>>
           u == s \o one \o w
           m == Len(s)
           n == Len(w)
<1>1. s \in Seq(Expectation) /\ one \in Seq(Expectation) /\ Len(one) = 1 /\ one[1] = e
      /\ m \in Nat /\ n \in Nat
  <2>1. one \in Seq(Expectation) /\ Len(one) = 1 /\ one[1] = e
    OBVIOUS
  <2>2. s \in Seq(Expectation)
    BY DEF Body
  <2> HIDE DEF one
  <2> QED
    BY <2>1, <2>2, LenProperties
<1> HIDE DEF one
<1>2. /\ s \o one \in Seq(Expectation) /\ Len(s \o one) = m + 1
      /\ \A i \in 1 .. m + 1 : (s \o one)[i] = IF i <= m THEN s[i] ELSE one[i - m]
  <2>1. s \in Seq(Expectation) /\ one \in Seq(Expectation)
    BY <1>1
  <2>2. /\ s \o one \in Seq(Expectation) /\ Len(s \o one) = Len(s) + Len(one)
        /\ \A i \in 1 .. Len(s) + Len(one) :
                  (s \o one)[i] = IF i <= Len(s) THEN s[i] ELSE one[i - Len(s)]
    BY <2>1, ConcatProperties
  <2> QED
    BY <1>1, <2>2
<1>3. /\ Len(u) = m + 1 + n
      /\ \A i \in 1 .. m + 1 + n : u[i] = IF i <= m + 1 THEN (s \o one)[i] ELSE w[i - (m + 1)]
  <2> DEFINE v == s \o one
  <2>1. v \in Seq(Expectation) /\ Len(v) = m + 1 /\ u = v \o w
    BY <1>2
  <2> HIDE DEF v, u
  <2>2. /\ Len(u) = Len(v) + Len(w)
        /\ \A i \in 1 .. Len(v) + Len(w) : u[i] = IF i <= Len(v) THEN v[i] ELSE w[i - Len(v)]
    BY <2>1, ConcatProperties
  <2> QED
    BY <2>1, <2>2 DEF v
<1>4. \A i \in 1 .. m + 1 + n : i \in 1 .. m \/ i = m + 1 \/ i - (m + 1) \in 1 .. n
  BY <1>1
<1>5. \A i \in 1 .. m : u[i] = s[i]
  <2> TAKE i \in 1 .. m
  <2>1. i \in 1 .. m + 1 + n /\ i \in 1 .. m + 1 /\ i <= m + 1 /\ i <= m
    BY <1>1
  <2> QED
    BY <1>2, <1>3, <2>1
<1>6. u[m + 1] = e
  <2>1. m + 1 \in 1 .. m + 1 + n /\ m + 1 \in 1 .. m + 1 /\ ~(m + 1 <= m) /\ m + 1 - m = 1 /\ m + 1 <= m + 1
    BY <1>1
  <2> QED
    BY <1>1, <1>2, <1>3, <2>1
<1>7. \A i \in 1 .. m + 1 + n : i - (m + 1) \in 1 .. n => u[i] = w[i - (m + 1)]
  <2> SUFFICES ASSUME NEW i \in 1 .. m + 1 + n, i - (m + 1) \in 1 .. n
               PROVE  u[i] = w[i - (m + 1)]
    OBVIOUS
  <2>1. ~(i <= m + 1)
    BY <1>1
  <2> QED
    BY <1>3, <2>1
<1>8. /\ \A i, j \in 1 .. n : i < j /\ w[j].kind = "end" => w[i].kind \notin {"record", "end"}
      /\ \A i \in 1 .. n : w[i].kind = "chunks" => i < n /\ w[i + 1].kind = "end"
      /\ \A i \in 1 .. n : w[i].kind = "number" => w[i].width \in {2, 4}
      /\ \A i \in 1 .. n : w[i].kind # "end"
  BY DEF Orderly, Ends
<1>9. \A i \in 1 .. m :
          /\ s[i].kind \notin {"record", "end"}
          /\ s[i].kind = "chunks" => i = m
          /\ s[i].kind = "number" => s[i].width \in {2, 4}
  BY DEF Body
<1> HIDE DEF u, m, n
<1>10. ASSUME NEW i \in 1 .. m + 1 + n, NEW j \in 1 .. m + 1 + n, i < j, u[j].kind = "end"
       PROVE  u[i].kind \notin {"record", "end"}
  <2>1. j = m + 1
    BY <1>4, <1>5, <1>7, <1>8, <1>9, <1>10
  <2>2. i \in 1 .. m
    BY <1>1, <1>10, <2>1
  <2> QED
    BY <1>5, <1>9, <2>2
<1>11. ASSUME NEW i \in 1 .. m + 1 + n, u[i].kind = "chunks"
       PROVE  i < m + 1 + n /\ u[i + 1].kind = "end"
  <2>1. i # m + 1 /\ \A x \in 1 .. n : w[x].kind # "chunks"
    <3>1. \A x \in 1 .. n : w[x].kind = "chunks" => x + 1 \in 1 .. n
      BY <1>1, <1>8
    <3> QED
      BY <1>6, <1>8, <1>11, <3>1
  <2>2. i \in 1 .. m
    BY <1>4, <1>7, <1>11, <2>1
  <2>3. i = m
    BY <1>5, <1>9, <1>11, <2>2
  <2> QED
    BY <1>1, <1>6, <2>3
<1>12. ASSUME NEW i \in 1 .. m + 1 + n, u[i].kind = "number"
       PROVE  u[i].width \in {2, 4}
  <2>1. CASE i \in 1 .. m
    BY <1>5, <1>9, <1>12, <2>1
  <2>2. CASE i = m + 1
    BY <1>6, <1>12, <2>2
  <2>3. CASE i - (m + 1) \in 1 .. n
    BY <1>7, <1>8, <1>12, <2>3
  <2> QED
    BY <1>4, <2>1, <2>2, <2>3
<1>13. Orderly(u)
  BY <1>3, <1>10, <1>11, <1>12 DEF Orderly
<1>14. Ends(u)
  <2>1. m + 1 \in 1 .. m + 1 + n
    BY <1>1
  <2> QED
    BY <1>3, <1>6, <2>1 DEF Ends
<1> QED
  BY <1>13, <1>14 DEF u, one

LEMMA HeaderOrderly ==
  ASSUME NEW counts \in [1 .. 4 -> Nat]
  PROVE  Orderly(AfterHeader(counts)) /\ ~Ends(AfterHeader(counts))
<1> DEFINE T == {e \in Expectation :
                    e.kind \in {"name", "record"} \/ (e.kind = "number" /\ e.width = 2)}
           x == Expect("name")
           y == ExpectWide("number", 2)
           z == Expect("record")
           a == <<x, y, y>>
           b == <<x, z>>
           n == counts[1]
           m == counts[2] + counts[3] + counts[4]
           u == AfterHeader(counts)
<1>1. x \in T /\ y \in T /\ z \in T
  <2>1. x \in Expectation /\ y \in Expectation /\ z \in Expectation
    BY ExpectationType
  <2>2. x.kind = "name" /\ y.kind = "number" /\ y.width = 2 /\ z.kind = "record"
    BY DEF Expect, ExpectWide
  <2> HIDE DEF x, y, z
  <2> QED
    BY <2>1, <2>2
<1>2. n \in Nat /\ m \in Nat
  OBVIOUS
<1>3. \A e \in T : e.kind \notin {"end", "chunks"} /\ (e.kind = "number" => e.width \in {2, 4})
  OBVIOUS
<1>4. u = Repeat(n, a) \o Repeat(m, b)
  BY DEF AfterHeader
<1> HIDE DEF T, x, y, z, n, m, u
<1>5. a \in Seq(T) /\ b \in Seq(T)
  BY <1>1
<1> HIDE DEF a, b
<1>6. Repeat(n, a) \in Seq(T) /\ Repeat(m, b) \in Seq(T)
  BY <1>2, <1>5, RepeatType
<1>7. u \in Seq(T)
  BY <1>4, <1>6, ConcatProperties
<1>8. \A i \in 1 .. Len(u) : u[i] \in T
  BY <1>7, ElementOfSeq
<1>9. Orderly(u) /\ ~Ends(u)
  BY <1>3, <1>8 DEF Orderly, Ends
<1> QED
  BY <1>9 DEF u

-----------------------------------------------------------------------------
LEMMA GivenGrows ==
  ASSUME CodecInv', stage' = "given", ~refused', NEW D, NEW A, Run(got, D, A, Len(got)),
         Listed(got), NEW t, Listed(t), Len(t) # 0, got' = got \o t,
         Parses(got', Then(D, Len(got'), expect'), Len(got), Len(got')),
         PairedSoFar(got'), Orderly(expect'), Ends(expect') <=> Open(got', Len(got'))
  PROVE  GivenAlong'
<1>1. Listed(got') /\ Len(got') # 0
  BY GotFurther
<1>2. expect' \in Seq(Expectation)
  <2>1. got' # <<>>
    BY <1>1, ListedParts
  <2> QED
    BY <2>1 DEF CodecInv, Asked
<1>3. PICK E, B : Run(got', E, B, Len(got')) /\ expect' = E[Len(got')]
  BY <1>2, RunFurther
<1>4. Underway(E, B)'
  BY <1>3 DEF Underway
<1>5. EndsAsked' <=> Ends(expect')
  BY DEF EndsAsked, Ends
<1> QED
  BY <1>1, <1>4, <1>5 DEF GivenAlong

(* What is expected while no body is about to close.                       *)
LEMMA GivenExpects ==
  ASSUME GivenAlong, stage = "given", expect # <<>>
  PROVE  /\ Listed(got) /\ Len(got) \in Nat /\ PairedSoFar(got) /\ Orderly(expect)
         /\ Ends(expect) <=> Open(got, Len(got))
         /\ \E D, A : Underway(D, A)
         /\ Head(expect).kind # "end" =>
                \E D, A : Run(got, D, A, Len(got)) /\ expect = D[Len(got)]
<1>1. /\ Listed(got) /\ PairedSoFar(got) /\ Orderly(expect)
      /\ Ends(expect) <=> Open(got, Len(got))
      /\ \E D, A : Underway(D, A)
  BY DEF GivenAlong, EndsAsked, Ends
<1>2. Head(expect).kind # "end" =>
                \E D, A : Run(got, D, A, Len(got)) /\ expect = D[Len(got)]
  BY <1>1 DEF Underway, ClosingBody
<1> QED
  BY <1>1, <1>2, ListedParts

LEMMA OneItem ==
  ASSUME Listed(got), NEW e, got' = got \o <<e>>, NEW D, NEW d
  PROVE  /\ Len(got) \in Nat /\ Len(got') = Len(got) + 1 /\ got'[Len(got) + 1] = e
         /\ Then(D, Len(got'), d)[Len(got)] = D[Len(got)]
         /\ Then(D, Len(got'), d)[Len(got')] = d
<1>1. PICK t : t = <<e>>
  OBVIOUS
<1>2. Listed(t) /\ Len(t) = 1 /\ t[1] = e /\ 1 \in 1 .. 1
  BY <1>1, Singleton
<1>3. Len(got) \in Nat /\ Len(got') = Len(got) + 1 /\ got'[Len(got) + 1] = e
  BY <1>1, <1>2, GotFurther
<1> QED
  BY <1>3 DEF Then

(* A field or a name.                                                      *)
LEMMA FieldGiven ==
  ASSUME CodecInv, CodecInv', GivenAlong, stage = "given", stage' = "given", ~refused',
         expect # <<>>, Head(expect).kind \in {"name", "number", "bytes"},
         expect' = Tail(expect), NEW e, got' = got \o <<e>>,
         \/ Head(expect).kind = "name" /\ e.kind = "name"
         \/ /\ Head(expect).kind = "number"
            /\ \E v : Fits(Head(expect).width, v) /\ e = Number(Head(expect).width, v)
         \/ /\ Head(expect).kind = "bytes"
            /\ \E s \in Seq(Byte) : Len(s) = Head(expect).width /\ e = Bytes(s)
  PROVE  GivenAlong'
<1>1. /\ Listed(got) /\ Len(got) \in Nat /\ PairedSoFar(got) /\ Orderly(expect)
      /\ Ends(expect) <=> Open(got, Len(got))
      /\ \E D, A : Run(got, D, A, Len(got)) /\ expect = D[Len(got)]
  BY GivenExpects
<1>2. PICK D, A : Run(got, D, A, Len(got)) /\ expect = D[Len(got)]
  BY <1>1
<1>3. expect \in Seq(Expectation)
  BY DEF CodecInv, Asked, Expected
<1>4. /\ Orderly(expect') /\ (Ends(expect') <=> Ends(expect))
      /\ Head(expect).kind = "number" => Head(expect).width \in {2, 4}
  BY <1>1, <1>3, OrderlyTail
<1> DEFINE n == Len(got)
           m == Len(got')
           E == Then(D, m, expect')
<1>5. n \in Nat /\ m = n + 1 /\ got'[m] = e /\ E[n] = expect /\ E[m] = Tail(expect)
  BY <1>1, <1>2, OneItem
<1>6. PICK t : t = <<e>>
  OBVIOUS
<1>7. Listed(t) /\ Len(t) = 1 /\ t[1] = e
  BY <1>6, Singleton
<1>8. e.kind \notin {"length", "patch"}
  BY DEF Number, Bytes
<1>9. PairedSoFar(got') /\ (Open(got', m) <=> Open(got, n))
  <2>1. \A i \in 1 .. Len(t) : i = 1
    BY <1>7
  <2>2. \A i \in 1 .. Len(t) : t[i].kind \notin {"length", "patch"}
    BY <1>7, <1>8, <2>1
  <2> QED
    BY <1>1, <1>6, <1>7, <2>2, PlainParsed
<1>10. Parses(got', E, n, m)
  <2> HIDE DEF E, n, m
  <2>1. CASE Head(expect).kind = "name" /\ e.kind = "name"
    BY <1>5, <2>1 DEF Parses, NameRule
  <2>2. CASE /\ Head(expect).kind = "number"
             /\ \E v : Fits(Head(expect).width, v) /\ e = Number(Head(expect).width, v)
    BY <1>4, <1>5, <2>2 DEF Parses, NumberRule
  <2>3. CASE /\ Head(expect).kind = "bytes"
             /\ \E s \in Seq(Byte) : Len(s) = Head(expect).width /\ e = Bytes(s)
    BY <1>5, <2>3 DEF Parses, BytesRule
  <2> QED
    BY <2>1, <2>2, <2>3
<1>11. Len(t) # 0 /\ got' = got \o t
  BY <1>6, <1>7
<1>12. Ends(expect') <=> Open(got', Len(got'))
  BY <1>1, <1>4, <1>9
<1> QED
  BY <1>1, <1>2, <1>4, <1>7, <1>9, <1>10, <1>11, <1>12, GivenGrows

LEMMA PartOfBytes ==
  ASSUME buf \in Seq(Byte), NEW at \in Nat, NEW n \in Nat, at + n <= Len(buf)
  PROVE  /\ SubSeq(buf, at + 1, at + n) \in Seq(Byte)
         /\ Len(SubSeq(buf, at + 1, at + n)) = n
<1> DEFINE a == at + 1
           b == at + n
<1>1. a \in Int /\ b \in Int /\ b - a + 1 = n /\ Len(buf) \in Nat
      /\ (\A i \in a .. b : i \in 1 .. Len(buf)) /\ (a <= b <=> n # 0)
  BY LenProperties
<1>2. \A i \in a .. b : buf[i] \in Byte
  BY <1>1, ElementOfSeq
<1> HIDE DEF a, b
<1>3. /\ SubSeq(buf, a, b) \in Seq(Byte)
      /\ Len(SubSeq(buf, a, b)) = IF a <= b THEN b - a + 1 ELSE 0
  BY <1>1, <1>2, SubSeqProperties
<1>4. Len(SubSeq(buf, a, b)) = n
  BY <1>1, <1>3
<1> QED
  BY <1>3, <1>4 DEF a, b

LEMMA NumberFits ==
  ASSUME buf \in Seq(Byte), NEW at \in Nat, NEW w \in {2, 4}, at + w <= Len(buf)
  PROVE  Fits(w, Unpacked(at, w))
<1>1. CASE w = 2
  <2>1. Unpacked(at, 2) \in Nat /\ Unpacked(at, 2) < 65536
    BY <1>1, UnpackedTwo
  <2>2. 256 ^ 2 = 65536
    BY SMT
  <2> QED
    BY ONLY SMT, <1>1, <2>1, <2>2 DEF Fits
<1>2. CASE w = 4
  <2>1. Unpacked(at, 4) \in Nat /\ Unpacked(at, 4) < 4294967296
    BY SMT, <1>2, UnpackedFour
  <2>2. 256 ^ 4 = 4294967296
    BY SMT
  <2> QED
    BY ONLY SMT, <1>2, <2>1, <2>2 DEF Fits
<1> QED
  BY <1>1, <1>2

(* The given bytes are those of no message of ours; what parse takes of    *)
(* them is well formed all the same.                                       *)
LEMMA GivenInit == MessageInit => GivenAlong
<1> SUFFICES ASSUME MessageInit, stage = "given" PROVE GivenAlong
  BY DEF GivenAlong
<1>1. got = <<>> /\ refused = FALSE /\ expect = Expected
  BY DEF MessageInit
<1>2. Listed(got) /\ Len(got) = 0
  <2>1. <<>> \in Seq({}) /\ Len(<<>>) = 0
    OBVIOUS
  <2> QED
    BY <1>1, <2>1, ListedIn
<1>3. 1 .. 0 = {}
  OBVIOUS
<1>4. PairedSoFar(got) /\ ~Open(got, Len(got))
  BY <1>2, <1>3 DEF PairedSoFar, Open
<1>5. Len(expect) = 1 /\ expect[1].kind = "header"
  BY <1>1 DEF Expected
<1>6. \A i \in 1 .. 1 : i = 1
  OBVIOUS
<1>7. Orderly(expect) /\ ~EndsAsked
  BY <1>5, <1>6 DEF Orderly, EndsAsked
<1> DEFINE D == [i \in {0} |-> Expected]
<1>8. D[0] = Expected
  OBVIOUS
<1> HIDE DEF D
<1>9. Run(got, D, {0}, 0)
  <2>1. 0 \in {0} /\ {0} \subseteq 0 .. 0 /\ \A i \in {0} : i = 0 /\ ~(i < 0)
    OBVIOUS
  <2> QED
    BY <1>8, <2>1 DEF Run
<1>10. Underway(D, {0})
  BY <1>1, <1>2, <1>8, <1>9 DEF Underway
<1> QED
  BY <1>1, <1>2, <1>4, <1>7, <1>10 DEF GivenAlong

LEMMA HeaderGiven ==
  ASSUME CodecInv, CodecInv', GivenAlong, ParseHeader, stage = "given"
  PROVE  GivenAlong'
<1> DEFINE c == [i \in 1 .. 4 |-> Unpacked(cursor + 2 + 2 * i, 2)]
           e == [kind |-> "header", header |-> HeaderAt(cursor), counts |-> c]
<1>1. /\ ~refused /\ refused' = refused /\ stage' = stage /\ expect # <<>>
      /\ Head(expect).kind = "header" /\ got' = got \o <<e>> /\ cursor + 12 <= Len(buf)
      /\ HeaderAt(cursor).opcode \in OpCode /\ HeaderAt(cursor).rcode \in ResponseCode
  BY DEF ParseHeader, Expects, Parsing, Take, nameVars, writerVars, scriptVars
<1>2. /\ Listed(got) /\ PairedSoFar(got) /\ (Ends(expect) <=> Open(got, Len(got)))
      /\ \E D, A : Run(got, D, A, Len(got)) /\ expect = D[Len(got)]
  BY <1>1, GivenExpects
<1>3. got = <<>> /\ expect = Expected
  <2>1. ~(expect \in Seq(Expectation))
    <3>1. Head(expect) \notin Expectation
      BY <1>1 DEF Expectation
    <3> QED
      BY <1>1, <3>1, HeadTailProperties
  <2> QED
    BY <2>1 DEF CodecInv, Asked
<1>4. PICK D, A : Run(got, D, A, Len(got)) /\ expect = D[Len(got)]
  BY <1>2
<1>5. Len(got) = 0 /\ Len(got') = 1 /\ got'[1] = e /\ D[0] = expect
      /\ Then(D, Len(got'), expect')[0] = expect /\ Then(D, Len(got'), expect')[1] = expect'
  <2>1. Len(got) = 0 /\ Listed(got)
    BY <1>2, <1>3
  <2> DEFINE x == e
  <2>2. got' = got \o <<x>>
    BY <1>1
  <2> HIDE DEF x
  <2>3. /\ Len(got') = Len(got) + 1 /\ got'[Len(got) + 1] = x
        /\ Then(D, Len(got'), expect')[Len(got)] = D[Len(got)]
        /\ Then(D, Len(got'), expect')[Len(got')] = expect'
    BY <2>1, <2>2, OneItem
  <2> QED
    BY <1>4, <2>1, <2>3 DEF x
<1>6. e \in HeaderItem
  BY <1>1, HeaderTaken DEF CodecInv, IInv, TypeOK
<1> HIDE DEF e
<1>7. expect' = AfterHeader(got'[1].counts)
  BY DEF ParseHeader, AfterHeader
<1>8. got'[1].counts \in [1 .. 4 -> Nat]
  <2>1. e.counts \in [1 .. 4 -> Word]
    BY <1>6 DEF HeaderItem
  <2>2. \A x \in Word : x \in Nat
    BY WordType
  <2> QED
    BY <1>5, <2>1, <2>2
<1>9. Orderly(expect') /\ ~Ends(expect')
  BY <1>7, <1>8, HeaderOrderly
<1> DEFINE E == Then(D, Len(got'), expect')
<1>10. Parses(got', E, 0, 1)
  <2> HIDE DEF E
  <2>1. E[0] = expect /\ E[1] = expect'
    BY <1>5 DEF E
  <2> QED
    BY <1>1, <1>5, <1>6, <1>7, <2>1 DEF Parses, HeaderRule
<1>11. PICK t : t = <<e>>
  OBVIOUS
<1>12. Listed(t) /\ Len(t) = 1 /\ t[1] = e
  BY <1>11, Singleton
<1>13. PairedSoFar(got') /\ (Open(got', Len(got')) <=> Open(got, Len(got)))
  <2>1. e.kind = "header"
    BY <1>6 DEF HeaderItem
  <2>2. \A i \in 1 .. Len(t) : i = 1
    BY <1>12
  <2>3. \A i \in 1 .. Len(t) : t[i].kind \notin {"length", "patch"}
    BY <1>12, <2>1, <2>2
  <2> QED
    BY <1>1, <1>2, <1>11, <1>12, <2>3, PlainParsed
<1>14. ~Open(got, Len(got))
  <2>1. 1 .. 0 = {}
    OBVIOUS
  <2> QED
    BY <1>5, <2>1 DEF Open
<1>15. Parses(got', E, Len(got), Len(got'))
  BY <1>5, <1>10
<1>16. Len(t) # 0 /\ got' = got \o t /\ stage' = "given" /\ ~refused'
  BY <1>1, <1>11, <1>12
<1>17. Ends(expect') <=> Open(got', Len(got'))
  BY <1>9, <1>13, <1>14
<1> QED
  BY <1>2, <1>4, <1>9, <1>12, <1>13, <1>15, <1>16, <1>17, GivenGrows

LEMMA NumberGiven ==
  ASSUME CodecInv, CodecInv', GivenAlong, ParseNumber, stage = "given"
  PROVE  GivenAlong'
<1> DEFINE w == Head(expect).width
           v == Unpacked(cursor, w)
           e == Number(w, v)
<1>1. /\ ~refused /\ refused' = refused /\ stage' = stage /\ expect # <<>>
      /\ Head(expect).kind = "number" /\ got' = got \o <<e>> /\ cursor + w <= Len(buf)
      /\ expect' = Tail(expect)
  BY DEF ParseNumber, Expects, Parsing, Take, nameVars, writerVars, scriptVars
<1>2. w \in {2, 4}
  <2>1. expect \in Seq(Expectation)
    BY <1>1 DEF CodecInv, Asked, Expected
  <2>2. Orderly(expect)
    BY <1>1, GivenExpects
  <2> QED
    BY <1>1, <2>1, <2>2, OrderlyTail
<1>3. buf \in Seq(Byte) /\ cursor \in Nat
  BY DEF CodecInv, IInv, TypeOK
<1> HIDE DEF w
<1>4. Fits(w, v)
  BY <1>1, <1>2, <1>3, NumberFits
<1> HIDE DEF v
<1>5. \E x : Fits(Head(expect).width, x) /\ e = Number(Head(expect).width, x)
  BY <1>4 DEF w
<1> HIDE DEF e
<1> QED
  BY <1>1, <1>5, FieldGiven

LEMMA BytesGiven ==
  ASSUME CodecInv, CodecInv', GivenAlong, ParseBytes, stage = "given"
  PROVE  GivenAlong'
<1> DEFINE w == Head(expect).width
           s == SubSeq(buf, cursor + 1, cursor + w)
           e == Bytes(s)
<1>1. /\ ~refused /\ refused' = refused /\ stage' = stage /\ expect # <<>>
      /\ Head(expect).kind = "bytes" /\ got' = got \o <<e>> /\ cursor + w <= Len(buf)
      /\ expect' = Tail(expect)
  BY DEF ParseBytes, Expects, Parsing, Take, nameVars, writerVars, scriptVars
<1>2. w \in Nat
  <2>1. expect \in Seq(Expectation)
    BY <1>1 DEF CodecInv, Asked, Expected
  <2> QED
    BY <1>1, <2>1, HeadTailProperties, WidthType
<1>3. buf \in Seq(Byte) /\ cursor \in Nat
  BY DEF CodecInv, IInv, TypeOK
<1> HIDE DEF w
<1>4. s \in Seq(Byte) /\ Len(s) = w
  BY <1>1, <1>2, <1>3, PartOfBytes
<1> HIDE DEF s
<1>5. \E x \in Seq(Byte) : Len(x) = Head(expect).width /\ e = Bytes(x)
  BY <1>4 DEF w
<1> HIDE DEF e
<1> QED
  BY <1>1, <1>5, FieldGiven

LEMMA NameGiven ==
  ASSUME CodecInv, CodecInv', GivenAlong, NameParsed, stage = "given"
  PROVE  GivenAlong'
<1> DEFINE e == NameItem(Name)
<1>1. /\ op = "busy" /\ stage' = stage /\ refused' = refused
      /\ got' = Append(got, e) /\ expect' = Tail(expect)
  BY DEF NameParsed, Return, Iterate, writerVars, scriptVars
<1>2. ~refused
  BY <1>1 DEF GivenAlong
<1>3. expect # <<>> /\ Head(expect).kind = "name"
  BY <1>1 DEF CodecInv, AskedName
<1>4. e.kind = "name"
  BY DEF NameItem
<1> HIDE DEF e
<1>5. got' = got \o <<e>>
  BY <1>1, <1>3, AppendListed, GivenExpects
<1> QED
  BY <1>1, <1>2, <1>3, <1>4, <1>5, FieldGiven

LEMMA RecordGiven ==
  ASSUME CodecInv, CodecInv', GivenAlong, ParseRecord, stage = "given"
  PROVE  GivenAlong'
<1> DEFINE v == Unpacked(cursor, 2)
           v2 == Unpacked(cursor + 2, 2)
           v3 == Unpacked(cursor + 4, 4)
           r == Unpacked(cursor + 8, 2)
           a == Number(2, v)
           b == Number(2, v2)
           c == Number(4, v3)
           d == LengthItem
           w == Tail(expect)
<1>1. /\ ~refused /\ refused' = refused /\ stage' = stage /\ expect # <<>>
      /\ Head(expect).kind = "record" /\ got' = got \o <<a, b, c, d>> /\ cursor + 10 <= Len(buf)
      /\ expect' = BodyThen(v, r, w)
  BY DEF ParseRecord, Expects, Parsing, Take, nameVars, writerVars, scriptVars, BodyThen
<1>2. /\ Listed(got) /\ Len(got) \in Nat /\ PairedSoFar(got) /\ Orderly(expect)
      /\ (Ends(expect) <=> Open(got, Len(got)))
      /\ \E D, A : Run(got, D, A, Len(got)) /\ expect = D[Len(got)]
  BY <1>1, GivenExpects
<1>3. PICK D, A : Run(got, D, A, Len(got)) /\ expect = D[Len(got)]
  BY <1>2
<1>4. expect \in Seq(Expectation)
  BY SMTT(40), <1>1 DEF CodecInv, Asked, Expected
<1>5. w \in Seq(Expectation)
  BY <1>1, <1>4, HeadTailProperties
<1>6. Orderly(w) /\ ~Ends(w) /\ ~Ends(expect)
  BY <1>1, <1>2, <1>4, OrderlyTail
<1>7. buf \in Seq(Byte) /\ cursor \in Nat /\ Len(buf) \in Nat
  BY WriterTypes DEF CodecInv
<1>8. v \in Word /\ v2 \in Word /\ v \in Nat /\ r \in Nat
  <2>1. \A at \in Nat : at + 2 <= Len(buf) => Unpacked(at, 2) \in Word
    BY <1>7, UnpackedTwo, WordType
  <2>2. /\ cursor + 2 \in Nat /\ cursor + 8 \in Nat /\ cursor + 2 <= Len(buf)
        /\ cursor + 2 + 2 <= Len(buf) /\ cursor + 8 + 2 <= Len(buf)
    BY ONLY SMT, <1>1, <1>7
  <2>3. v \in Word /\ v2 \in Word /\ r \in Word
    BY <1>7, <2>1, <2>2
  <2> QED
    BY <2>3, WordType
<1>9. Fits(4, v3)
  <2>1. cursor + 4 \in Nat /\ cursor + 4 + 4 <= Len(buf) /\ 4 \in {2, 4}
    BY ONLY SMT, <1>1, <1>7
  <2> QED
    BY <1>7, <2>1, NumberFits
<1> HIDE DEF v, v2, v3, r, w
<1>10. Orderly(expect') /\ Ends(expect')
  <2>1. Body(Shape(v, r))
    BY <1>8, ShapeBody
  <2>2. Expect("end") \in Expectation /\ Expect("end").kind = "end"
    BY ExpectationType DEF Expect
  <2>3. Orderly(Shape(v, r) \o <<Expect("end")>> \o w) /\ Ends(Shape(v, r) \o <<Expect("end")>> \o w)
    BY <1>5, <1>6, <2>1, <2>2, BodyOrderly
  <2> QED
    BY <1>1, <2>3 DEF BodyThen
<1>11. /\ a.kind = "number" /\ b.kind = "number" /\ c.kind = "number" /\ d.kind = "length"
       /\ a.value = v
  BY DEF Number, LengthItem
<1>12. /\ (\E x \in Word : a = Number(2, x)) /\ (\E x \in Word : b = Number(2, x))
       /\ (\E x : Fits(4, x) /\ c = Number(4, x)) /\ d = LengthItem
  BY <1>8, <1>9
<1> HIDE DEF a, b, c, d
<1> DEFINE t == <<a, b, c, d>>
<1>13. got' = got \o t
  BY <1>1
<1>14. Listed(t) /\ Len(t) = 4 /\ t[1] = a /\ t[2] = b /\ t[3] = c /\ t[4] = d
  BY Quadruple
<1> HIDE DEF t
<1>15. PairedSoFar(got') /\ Open(got', Len(got'))
  <2>1. \A i \in 1 .. 3 : i = 1 \/ i = 2 \/ i = 3
    OBVIOUS
  <2>2. \A i \in 1 .. 3 : t[i].kind \notin {"length", "patch"}
    BY <1>11, <1>14, <2>1
  <2>3. ~Open(got, Len(got)) /\ t[4].kind = "length"
    BY <1>2, <1>6, <1>11, <1>14
  <2> QED
    BY <1>2, <1>13, <1>14, <2>2, <2>3, LengthParsed
<1> DEFINE n == Len(got)
           m == Len(got')
           E == Then(D, m, expect')
<1>16. /\ n \in Nat /\ m = n + 4 /\ got'[n + 1] = a /\ got'[n + 2] = b /\ got'[n + 3] = c
       /\ got'[n + 4] = d
  <2>1. 1 \in 1 .. 4 /\ 2 \in 1 .. 4 /\ 3 \in 1 .. 4 /\ 4 \in 1 .. 4
    OBVIOUS
  <2>2. n \in Nat /\ m = n + 4 /\ \A i \in 1 .. 4 : got'[n + i] = t[i]
    BY <1>2, <1>13, <1>14, GotFurther
  <2> QED
    BY <1>14, <2>1, <2>2
<1>17. E[n] = expect /\ E[m] = expect'
  <2>1. n \in 0 .. m /\ m \in 0 .. m /\ n # m
    BY <1>16
  <2> QED
    BY <1>3, <2>1 DEF Then
<1>18. Parses(got', E, n, m)
  <2> HIDE DEF E, n, m
  <2>1. E[m] = BodyThen(got'[n + 1].value, r, Tail(E[n]))
    BY <1>1, <1>11, <1>16, <1>17 DEF w
  <2>2. Head(E[n]).kind = "record" /\ E[n] # <<>>
    BY <1>1, <1>17
  <2>3. RecordRule(got', E, n, m)
    BY <1>8, <1>12, <1>16, <2>1, <2>2 DEF RecordRule
  <2> QED
    BY <2>2, <2>3 DEF Parses
<1>19. Len(t) # 0 /\ stage' = "given" /\ ~refused'
  BY <1>1, <1>14
<1>20. Ends(expect') <=> Open(got', Len(got'))
  BY <1>10, <1>15
<1> QED
  BY <1>2, <1>3, <1>10, <1>13, <1>14, <1>15, <1>18, <1>19, <1>20, GivenGrows

LEMMA ChunkGiven ==
  ASSUME CodecInv, CodecInv', GivenAlong, ParseChunk, stage = "given"
  PROVE  GivenAlong'
<1> DEFINE a == Number(1, At(cursor))
           s == SubSeq(buf, cursor + 2, cursor + 1 + At(cursor))
           b == Bytes(s)
<1>1. /\ ~refused /\ refused' = refused /\ stage' = stage /\ expect # <<>>
      /\ Head(expect).kind = "chunks" /\ got' = got \o <<a, b>>
      /\ cursor < Len(buf) /\ cursor + 1 + At(cursor) <= Len(buf) /\ expect' = expect
  BY DEF ParseChunk, Expects, Parsing, Take, nameVars, writerVars, scriptVars
<1>2. /\ Listed(got) /\ Len(got) \in Nat /\ PairedSoFar(got) /\ Orderly(expect)
      /\ (Ends(expect) <=> Open(got, Len(got)))
      /\ \E D, A : Run(got, D, A, Len(got)) /\ expect = D[Len(got)]
  BY <1>1, GivenExpects
<1>3. PICK D, A : Run(got, D, A, Len(got)) /\ expect = D[Len(got)]
  BY <1>2
<1>4. expect \in Seq(Expectation)
  BY <1>1 DEF CodecInv, Asked, Expected
<1>5. Ends(expect)
  BY <1>1, <1>2, <1>4, OrderlyTail
<1>6. buf \in Seq(Byte) /\ cursor \in Nat /\ Len(buf) \in Nat
  BY WriterTypes DEF CodecInv
<1>7. s \in Seq(Byte) /\ Len(s) = At(cursor) /\ At(cursor) \in Byte
  <2>1. At(cursor) \in Byte
    <3>1. cursor + 1 \in 1 .. Len(buf)
      BY <1>1, <1>6
    <3> QED
      BY <1>6, <3>1, ElementOfSeq DEF At
  <2>2. PICK z \in Nat : z = At(cursor)
    BY <2>1 DEF Byte
  <2>3. PICK y \in Nat : y = cursor + 1 /\ y + 1 = cursor + 2 /\ y + z <= Len(buf)
    BY <1>1, <1>6, <2>2
  <2>4. SubSeq(buf, y + 1, y + z) \in Seq(Byte) /\ Len(SubSeq(buf, y + 1, y + z)) = z
    BY <1>6, <2>3, PartOfBytes
  <2> QED
    BY <2>1, <2>2, <2>3, <2>4
<1> HIDE DEF s
<1>8. a = Number(1, Len(s)) /\ a.kind = "number" /\ b.kind = "bytes" /\ Len(s) \in Byte
      /\ b = Bytes(s)
  BY <1>7 DEF Number, Bytes
<1> HIDE DEF a, b
<1> DEFINE t == <<a, b>>
<1>9. got' = got \o t
  BY <1>1
<1>10. Listed(t) /\ Len(t) = 2 /\ t[1] = a /\ t[2] = b
  BY Doubleton
<1> HIDE DEF t
<1>11. PairedSoFar(got') /\ (Open(got', Len(got')) <=> Open(got, Len(got)))
  <2>1. \A i \in 1 .. Len(t) : i = 1 \/ i = 2
    BY <1>10
  <2>2. \A i \in 1 .. Len(t) : t[i].kind \notin {"length", "patch"}
    BY <1>8, <1>10, <2>1
  <2> QED
    BY <1>2, <1>9, <1>10, <2>2, PlainParsed
<1> DEFINE n == Len(got)
           m == Len(got')
           E == Then(D, m, expect')
<1>12. /\ n \in Nat /\ m = n + 2 /\ got'[n + 1] = a /\ got'[n + 2] = b
       /\ \A i \in 1 .. n : got'[i] = got[i]
  <2>1. 1 \in 1 .. 2 /\ 2 \in 1 .. 2
    OBVIOUS
  <2>2. n \in Nat /\ m = n + 2 /\ (\A i \in 1 .. 2 : got'[n + i] = t[i])
        /\ \A i \in 1 .. n : got'[i] = got[i]
    BY <1>2, <1>9, <1>10, GotFurther
  <2> QED
    BY <1>10, <2>1, <2>2
<1>13. E[n] = expect /\ E[m] = expect'
  <2>1. n \in 0 .. m /\ m \in 0 .. m /\ n # m
    BY <1>12
  <2> QED
    BY <1>3, <2>1 DEF Then
<1>14. Open(got', n)
  <2>1. Open(got, n) /\ n \in 0 .. n
    BY <1>2, <1>5, <1>12
  <2> QED
    BY <1>12, <2>1, OpenKept
<1>15. Parses(got', E, n, m)
  <2> HIDE DEF E, n, m
  <2>1. Head(E[n]).kind = "chunks" /\ E[n] # <<>> /\ E[m] = E[n]
    BY <1>1, <1>13
  <2>2. ChunkRule(got', E, n, m)
    BY <1>7, <1>8, <1>12, <1>14, <2>1 DEF ChunkRule
  <2> QED
    BY <2>1, <2>2 DEF Parses
<1>16. Len(t) # 0 /\ stage' = "given" /\ ~refused'
  BY <1>1, <1>10
<1>17. Orderly(expect') /\ (Ends(expect') <=> Open(got', Len(got')))
  BY <1>1, <1>2, <1>11
<1> QED
  BY <1>2, <1>3, <1>9, <1>10, <1>11, <1>15, <1>16, <1>17, GivenGrows

LEMMA NoMoreChunksGiven ==
  ASSUME CodecInv, CodecInv', GivenAlong, NoMoreChunks, stage = "given"
  PROVE  GivenAlong'
<1>1. /\ ~refused /\ refused' = refused /\ stage' = stage /\ expect # <<>>
      /\ Head(expect).kind = "chunks" /\ got' = got /\ expect' = Tail(expect)
  BY DEF NoMoreChunks, Expects, Parsing, nameVars, writerVars
<1>2. /\ Listed(got) /\ PairedSoFar(got) /\ Orderly(expect)
      /\ (Ends(expect) <=> Open(got, Len(got)))
      /\ \E D, A : Run(got, D, A, Len(got)) /\ expect = D[Len(got)]
  BY <1>1, GivenExpects
<1>3. PICK D, A : Run(got, D, A, Len(got)) /\ expect = D[Len(got)]
  BY <1>2
<1>4. expect \in Seq(Expectation)
  BY <1>1 DEF CodecInv, Asked, Expected
<1>5. /\ Orderly(expect') /\ (Ends(expect') <=> Ends(expect))
      /\ expect' # <<>> /\ Head(expect').kind = "end"
  BY <1>1, <1>2, <1>4, OrderlyTail
<1>6. Underway(D, A)'
  BY <1>1, <1>3, <1>5 DEF Underway, ClosingBody
<1> QED
  BY <1>1, <1>2, <1>5, <1>6 DEF GivenAlong, EndsAsked, Ends

LEMMA EndGiven ==
  ASSUME CodecInv, CodecInv', GivenAlong, ParseEnd, stage = "given"
  PROVE  GivenAlong'
<1>1. /\ ~refused /\ refused' = refused /\ stage' = stage /\ expect # <<>>
      /\ Head(expect).kind = "end" /\ got' = Append(got, PatchItem) /\ expect' = Tail(expect)
  BY DEF ParseEnd, Expects, Parsing, nameVars, writerVars
<1>2. /\ Listed(got) /\ PairedSoFar(got) /\ Orderly(expect)
      /\ (Ends(expect) <=> Open(got, Len(got)))
      /\ \E D, A : Underway(D, A)
  BY <1>1, GivenExpects
<1>3. PICK D, A : Underway(D, A)
  BY <1>2
<1>4. expect \in Seq(Expectation)
  BY <1>1 DEF CodecInv, Asked, Expected
<1>5. Orderly(expect') /\ ~Ends(expect') /\ Ends(expect)
  BY <1>1, <1>2, <1>4, OrderlyTail
<1>6. got' = got \o <<PatchItem>>
  BY <1>1, <1>2, AppendListed
<1>7. PairedSoFar(got') /\ ~Open(got', Len(got'))
  BY <1>2, <1>5, <1>6, PatchParsed
<1> DEFINE n == Len(got)
           m == Len(got')
           E == Then(D, m, expect')
<1>8. n \in Nat /\ m = n + 1 /\ got'[m] = PatchItem /\ E[n] = D[n] /\ E[m] = Tail(expect)
  BY <1>1, <1>2, <1>6, OneItem
<1>9. Parses(got', E, n, m)
  <2>1. CASE expect = D[n]
    <3> HIDE DEF E, n, m
    <3> QED
      BY <1>1, <1>8, <2>1 DEF Parses, EndRule
  <2>2. CASE ClosingBody(D, n)
    <3> HIDE DEF E, n, m
    <3> QED
      BY <1>1, <1>8, <2>2 DEF Parses, LastChunkRule, ClosingBody
  <2> QED
    BY <1>3, <2>1, <2>2 DEF Underway
<1>10. PICK t : t = <<PatchItem>>
  OBVIOUS
<1>11. Listed(t) /\ Len(t) # 0 /\ got' = got \o t /\ stage' = "given" /\ ~refused'
  <2>1. Len(t) = 1 /\ Listed(t)
    BY <1>10, Singleton
  <2> QED
    BY <1>1, <1>6, <1>10, <2>1
<1>12. Run(got, D, A, Len(got))
  BY <1>3 DEF Underway
<1>13. Ends(expect') <=> Open(got', Len(got'))
  BY <1>5, <1>7
<1> QED
  BY <1>2, <1>5, <1>7, <1>9, <1>11, <1>12, <1>13, GivenGrows

LEMMA AskedGiven ==
  ASSUME GivenAlong, UNCHANGED <<stage, got, expect>>,
         refused' => expect # <<>> /\ op' # "busy"
  PROVE  GivenAlong'
BY DEF GivenAlong, Underway, ClosingBody, EndsAsked

-----------------------------------------------------------------------------
(* What has been parsed is well formed, and so is what it is passed on as. *)

(* Only the labels of names differ.                                        *)
Alike(s, r) ==
    /\ Listed(s) /\ Listed(r) /\ Len(r) = Len(s)
    /\ \A i \in 1 .. Len(s) :
          r[i].kind = s[i].kind /\ (s[i].kind # "name" => r[i] = s[i])

LEMMA ResentAlike == ASSUME NEW s, Listed(s) PROVE Alike(s, Resent(s))
<1> DEFINE r == Resent(s)
           n == Len(s)
<1>1. n \in Nat /\ DOMAIN s = 1 .. n
  BY ListedParts, LenProperties DEF Listed
<1>2. /\ r = [i \in 1 .. n |-> r[i]]
      /\ \A i \in 1 .. n : r[i] = IF s[i].kind = "name" THEN NameItem(Pieces(s[i].labels))
                                  ELSE s[i]
  BY <1>1 DEF Resent
<1>3. \A i \in 1 .. n : r[i].kind = s[i].kind /\ (s[i].kind # "name" => r[i] = s[i])
  BY <1>2 DEF NameItem
<1> HIDE DEF r
<1> DEFINE E == {r[i] : i \in 1 .. n}
<1>4. \A i \in 1 .. n : r[i] \in E
  OBVIOUS
<1> HIDE DEF E
<1>5. r \in Seq(E)
  BY <1>1, <1>2, <1>4, IsASeq
<1>6. Listed(r) /\ Len(r) = n
  <2>1. DOMAIN r = 1 .. n
    BY <1>2
  <2>2. Len(r) \in Nat /\ 1 .. Len(r) = 1 .. n
    BY <1>5, <2>1, LenProperties
  <2> QED
    BY <1>1, <1>5, <2>2, ListedIn
<1> QED
  BY <1>3, <1>6 DEF Alike, r

LEMMA AlikePaired ==
  ASSUME NEW s, NEW r, Alike(s, r), Paired(s)
  PROVE  Paired(r)
<1>1. /\ Len(s) \in Nat /\ Len(r) = Len(s) /\ \A i \in 1 .. Len(s) : r[i].kind = s[i].kind
  BY ListedParts DEF Alike
<1>2. ASSUME NEW l \in 1 .. Len(s), NEW q \in 1 .. Len(s), Mates(s, l, q)
      PROVE  Mates(r, l, q)
  <2>1. \A j \in l + 1 .. q - 1 : j \in 1 .. Len(s)
    BY <1>1
  <2> QED
    BY <1>1, <1>2, <2>1 DEF Mates, Marks
<1> QED
  BY <1>1, <1>2 DEF Paired

LEMMA AlikeParses ==
  ASSUME NEW s, NEW r, Alike(s, r), NEW D, NEW i \in 0 .. Len(s), NEW j \in 1 .. Len(s),
         i < j, Parses(s, D, i, j)
  PROVE  Parses(r, D, i, j)
<1>1. /\ Len(s) \in Nat
      /\ \A x \in 1 .. Len(s) :
            r[x].kind = s[x].kind /\ (s[x].kind # "name" => r[x] = s[x])
  BY ListedParts DEF Alike
<1>2. i \in Nat /\ j \in Nat /\ i + 1 \in 1 .. Len(s) /\ i + 1 <= j
  BY <1>1
<1>3. ASSUME HeaderRule(s, D, i, j) PROVE HeaderRule(r, D, i, j)
  <2>1. s[j].kind # "name"
    BY <1>3 DEF HeaderRule, HeaderItem
  <2> QED
    BY <1>1, <1>3, <2>1 DEF HeaderRule
<1>4. ASSUME NameRule(s, D, i, j) PROVE NameRule(r, D, i, j)
  BY <1>1, <1>4 DEF NameRule
<1>5. ASSUME NumberRule(s, D, i, j) PROVE NumberRule(r, D, i, j)
  <2>1. s[j].kind # "name"
    BY <1>5 DEF NumberRule, Number
  <2> QED
    BY <1>1, <1>5, <2>1 DEF NumberRule
<1>6. ASSUME BytesRule(s, D, i, j) PROVE BytesRule(r, D, i, j)
  <2>1. s[j].kind # "name"
    BY <1>6 DEF BytesRule, Bytes
  <2> QED
    BY <1>1, <1>6, <2>1 DEF BytesRule
<1>7. ASSUME RecordRule(s, D, i, j) PROVE RecordRule(r, D, i, j)
  <2>1. j = i + 4
    BY <1>7 DEF RecordRule
  <2>2. /\ i + 1 \in 1 .. Len(s) /\ i + 2 \in 1 .. Len(s) /\ i + 3 \in 1 .. Len(s)
        /\ i + 4 \in 1 .. Len(s)
    BY <1>1, <1>2, <2>1
  <2>3. /\ s[i + 1].kind # "name" /\ s[i + 2].kind # "name" /\ s[i + 3].kind # "name"
        /\ s[i + 4].kind # "name"
    BY <1>7 DEF RecordRule, Number, LengthItem
  <2>4. r[i + 1] = s[i + 1] /\ r[i + 2] = s[i + 2] /\ r[i + 3] = s[i + 3] /\ r[i + 4] = s[i + 4]
    BY <1>1, <2>2, <2>3
  <2> QED
    BY <1>7, <2>4 DEF RecordRule
<1>8. ASSUME ChunkRule(s, D, i, j) PROVE ChunkRule(r, D, i, j)
  <2>1. j = i + 2
    BY <1>8 DEF ChunkRule
  <2>2. i + 1 \in 1 .. Len(s) /\ i + 2 \in 1 .. Len(s)
    BY <1>1, <1>2, <2>1
  <2>3. s[i + 1].kind # "name" /\ s[i + 2].kind # "name"
    BY <1>8 DEF ChunkRule, Number, Bytes
  <2>4. r[i + 1] = s[i + 1] /\ r[i + 2] = s[i + 2]
    BY <1>1, <2>2, <2>3
  <2>5. Open(r, i)
    <3>1. PICK l \in 1 .. i : s[l].kind = "length" /\ \A x \in l + 1 .. i : ~Marks(s, x)
      BY <1>8 DEF ChunkRule, Open
    <3>2. l \in 1 .. Len(s) /\ \A x \in l + 1 .. i : x \in 1 .. Len(s)
      BY <1>1
    <3>3. r[l].kind = "length" /\ \A x \in l + 1 .. i : ~Marks(r, x)
      BY <1>1, <3>1, <3>2 DEF Marks
    <3> QED
      BY <3>3 DEF Open
  <2> QED
    BY <1>8, <2>4, <2>5 DEF ChunkRule
<1>9. ASSUME LastChunkRule(s, D, i, j) PROVE LastChunkRule(r, D, i, j)
  <2>1. s[j].kind # "name"
    BY <1>9 DEF LastChunkRule, PatchItem
  <2> QED
    BY <1>1, <1>9, <2>1 DEF LastChunkRule
<1>10. ASSUME EndRule(s, D, i, j) PROVE EndRule(r, D, i, j)
  <2>1. s[j].kind # "name"
    BY <1>10 DEF EndRule, PatchItem
  <2> QED
    BY <1>1, <1>10, <2>1 DEF EndRule
<1> QED
  BY <1>3, <1>4, <1>5, <1>6, <1>7, <1>8, <1>9, <1>10 DEF Parses

LEMMA AlikeRun ==
  ASSUME NEW s, NEW r, Alike(s, r), NEW D, NEW A, Run(s, D, A, Len(s))
  PROVE  Run(r, D, A, Len(r))
<1>1. Len(s) \in Nat /\ Len(r) = Len(s)
  BY ListedParts DEF Alike
<1>2. ASSUME NEW i \in A, i < Len(s) PROVE \E j \in A : i < j /\ Parses(r, D, i, j)
  <2>1. PICK j \in A : i < j /\ Parses(s, D, i, j)
    BY <1>2 DEF Run
  <2>2. i \in 0 .. Len(s) /\ j \in 1 .. Len(s)
    <3>1. i \in 0 .. Len(s) /\ j \in 0 .. Len(s)
      BY DEF Run
    <3> QED
      BY <1>1, <2>1, <3>1
  <2> QED
    BY <2>1, <2>2, AlikeParses
<1> QED
  BY <1>1, <1>2 DEF Run

(* A message that parse has taken is well formed.                          *)
LEMMA GivenWellFormed ==
  ASSUME GivenAlong, stage = "given", expect = <<>>
  PROVE  WellFormed(got) /\ ~refused
<1>1. /\ ~refused /\ Listed(got) /\ PairedSoFar(got)
      /\ (EndsAsked <=> Open(got, Len(got)))
  BY DEF GivenAlong
<1>2. PICK D, A : Underway(D, A)
  BY DEF GivenAlong
<1>3. Run(got, D, A, Len(got)) /\ D[Len(got)] = <<>>
  BY <1>2 DEF Underway, ClosingBody
<1>4. Len(got) \in Nat
  BY <1>1, ListedParts
<1>5. ~EndsAsked
  <2>1. Len(expect) = 0 /\ 1 .. 0 = {}
    OBVIOUS
  <2> QED
    BY <2>1 DEF EndsAsked
<1>6. ASSUME NEW l \in 1 .. Len(got), got[l].kind = "length"
      PROVE  \E q \in 1 .. Len(got) : Mates(got, l, q)
  BY <1>1, <1>5, <1>6 DEF PairedSoFar, Open
<1>7. Paired(got)
  BY <1>1, <1>6 DEF PairedSoFar, Paired
<1> QED
  BY <1>1, <1>3, <1>7 DEF WellFormed, Parsable

LEMMA RelayComposed == ASSUME CodecInv, GivenAlong, Relay PROVE Composed'
<1>1. /\ stage = "given" /\ expect = <<>> /\ stage' = "writing" /\ buf' = <<>>
      /\ naming' = Nothing /\ script' = Resent(got) /\ sent' = script' /\ refused' = refused
  BY DEF Relay, Renew, parseVars
<1>2. WellFormed(got) /\ ~refused
  BY <1>1, GivenWellFormed
<1>3. Alike(got, Resent(got))
  BY <1>2, ResentAlike DEF WellFormed
<1>4. Listed(sent') /\ Paired(sent')
  BY <1>1, <1>2, <1>3, AlikePaired DEF WellFormed, Alike
<1>5. Parsable(sent')
  <2>1. PICK D, A : Run(got, D, A, Len(got)) /\ D[Len(got)] = <<>>
    BY <1>2 DEF WellFormed, Parsable
  <2>2. Run(sent', D, A, Len(sent')) /\ Len(sent') = Len(got)
    BY <1>1, <1>3, <2>1, AlikeRun DEF Alike
  <2> QED
    BY <2>1, <2>2 DEF Parsable
<1>6. WellFormed(sent')
  BY <1>4, <1>5 DEF WellFormed
<1> QED
  BY <1>1, <1>2, <1>6, ComposedFromScratch

-----------------------------------------------------------------------------
(* A message on its way, from its first item to the last that is read.     *)

SentListed == stage = "reading" => Listed(sent)

PassageInv == Composed /\ ReadingAlong /\ GivenAlong /\ SentListed

LEMMA ComposedInit ==
  ASSUME MessageInit, \A m \in Messages : WellFormed(m)
  PROVE  Composed
<1> SUFFICES ASSUME stage = "writing" PROVE Composed
  BY DEF Composed
<1>1. WellFormed(sent) /\ ~refused /\ script = sent /\ naming = Nothing /\ buf = <<>>
  BY DEF MessageInit, Init
<1> DEFINE p == [i \in 0 .. 0 |-> 0]
<1>2. p \in [0 .. 0 -> Nat] /\ p[0] = 0 /\ Len(buf) = 0
  BY <1>1
<1>3. 1 .. 0 = {} /\ \A i, j \in 0 .. 0 : p[i] <= p[j]
  OBVIOUS
<1> HIDE DEF p
<1>4. Laid(0, p)
  BY <1>2, <1>3 DEF Laid
<1>5. HoleAt(sent, 0, p, hole)
  BY <1>3 DEF HoleAt
<1>6. Left(script, sent, 0)
  <2>1. Listed(sent) /\ Len(sent) \in Nat
    BY <1>1, ListedParts DEF WellFormed
  <2>2. \A j \in 1 .. Len(sent) : 0 + j = j
    BY <2>1
  <2> QED
    BY <1>1, <2>1, <2>2 DEF Left
<1>7. WrittenTo(0, p)
  BY <1>1, <1>2, <1>4, <1>5, <1>6 DEF WrittenTo
<1> QED
  BY <1>1, <1>2, <1>7 DEF Composed

LEMMA PassageInit ==
  ASSUME MessageInit, \A m \in Messages : WellFormed(m)
  PROVE  PassageInv
<1>1. stage # "reading"
  BY DEF MessageInit, Init
<1> QED
  BY <1>1, ComposedInit, GivenInit DEF PassageInv, ReadingAlong, SentListed

(* Steps of the writer.                                                    *)
LEMMA WriterPassage ==
  ASSUME CodecInv, PassageInv,
         \/ PutField \/ PutName \/ PatchLength
         \/ WriteName /\ UNCHANGED <<scriptVars, parseVars>>
  PROVE  PassageInv'
<1>1. Composed'
  BY FieldComposed, NameComposed, PatchComposed, WriteNameComposed DEF PassageInv
<1>2. stage' \in {"writing", "lost"}
  BY DEF PutField, PutName, PatchLength, Composing, WriteField, BeginName, Overwrite, WriteName,
         PointBack, WriteLabel, Refuse, WriteRoot, Naming, EndName
<1> QED
  BY <1>1, <1>2 DEF PassageInv, ReadingAlong, GivenAlong, SentListed

LEMMA DeliverPassage == ASSUME CodecInv, PassageInv, Deliver PROVE PassageInv'
<1>1. stage = "writing" /\ stage' = "reading" /\ sent' = sent
  BY DEF Deliver, Seal, scriptVars
<1>2. SentListed'
  BY <1>1 DEF PassageInv, Composed, WellFormed, SentListed
<1> QED
  BY <1>1, <1>2, DeliveredAlong DEF PassageInv, Composed, GivenAlong

LEMMA RelayPassage == ASSUME CodecInv, PassageInv, Relay PROVE PassageInv'
<1>1. stage' = "writing"
  BY DEF Relay, Renew
<1> QED
  BY <1>1, RelayComposed DEF PassageInv, ReadingAlong, GivenAlong, SentListed

(* Steps of the parser.                                                    *)
LEMMA ParserStays ==
  ASSUME CodecInv, Parse
  PROVE  stage \in {"reading", "given"} /\ stage' = stage /\ buf' = buf /\ sent' = sent
<1>1. /\ stage \in {"reading", "given"} \/ op = "busy"
      /\ UNCHANGED writerVars /\ UNCHANGED scriptVars
  <2>1. ASSUME Parsing PROVE stage \in {"reading", "given"}
    BY <2>1 DEF Parsing
  <2>2. CASE \/ ParseHeader \/ ParseNumber \/ ParseBytes \/ ParseRecord \/ ParseChunk
             \/ NoMoreChunks \/ ParseEnd \/ ParseFails
    <3>1. Parsing
      BY <2>2 DEF ParseHeader, ParseNumber, ParseBytes, ParseRecord, ParseChunk, NoMoreChunks,
                  ParseEnd, ParseFails, Expects
    <3>2. UNCHANGED nameVars /\ UNCHANGED scriptVars
      BY <2>2 DEF ParseHeader, ParseNumber, ParseBytes, ParseRecord, ParseChunk, NoMoreChunks,
                  ParseEnd, ParseFails, Take
    <3> QED
      BY <2>1, <3>1, <3>2 DEF nameVars, writerVars
  <2>3. CASE ParseName \/ NameParsed
    BY <2>3 DEF ParseName, ReadFrom, NameParsed, Return, Iterate
  <2>4. CASE (Follow \/ Collect \/ Raise) /\ UNCHANGED <<scriptVars, parseVars>>
    BY <2>4 DEF Follow, Collect, Raise, Iterate
  <2> QED
    BY <2>2, <2>3, <2>4 DEF Parse
<1>2. op = "busy" => stage \in {"reading", "given"}
  BY BusyReads DEF CodecInv
<1> QED
  BY <1>1, <1>2 DEF writerVars, scriptVars

LEMMA ReadPassage ==
  ASSUME CodecInv, CodecInv', ReadingAlong, Parse, stage = "reading", Len(buf) < 65536
  PROVE  ReadingAlong'
<1>1. CASE ParseName
  <2>1. /\ UNCHANGED <<scriptVars, parseVars>> /\ UNCHANGED <<buf, stage, names, stops>>
        /\ from' = cursor
    BY <1>1 DEF ParseName, ReadFrom, writerVars
  <2> QED
    BY <2>1, AskedAlong
<1>2. CASE (Follow \/ Collect \/ Raise) /\ UNCHANGED <<scriptVars, parseVars>>
  <2>1. /\ UNCHANGED <<buf, stage, names, stops>> /\ from' = from /\ op = "busy"
    BY <1>2 DEF Follow, Collect, Raise, Iterate, writerVars
  <2> QED
    BY <1>2, <2>1, AskedAlong
<1> QED
  BY <1>1, <1>2, NumberRead, BytesRead, HeaderRead, NameRead, EndRead, NoMoreChunksRead,
     ChunkRead, RecordRead, NothingRefused
  DEF Parse

LEMMA GivenPassage ==
  ASSUME CodecInv, CodecInv', GivenAlong, Parse, stage = "given"
  PROVE  GivenAlong'
<1>1. CASE ParseName
  <2>1. UNCHANGED <<stage, got, expect>> /\ ~refused'
    BY <1>1 DEF ParseName, ReadFrom, writerVars, parseVars, Expects, Parsing
  <2> QED
    BY <2>1, AskedGiven
<1>2. CASE (Follow \/ Collect \/ Raise) /\ UNCHANGED <<scriptVars, parseVars>>
  <2>1. UNCHANGED <<stage, got, expect>> /\ refused' = refused /\ op = "busy"
    BY <1>2 DEF Follow, Collect, Raise, Iterate, writerVars, parseVars
  <2>2. ~refused
    BY <2>1 DEF GivenAlong
  <2> QED
    BY <2>1, <2>2, AskedGiven
<1>3. CASE ParseFails
  <2>1. UNCHANGED <<stage, got, expect>> /\ expect # <<>> /\ op' # "busy"
    BY <1>3 DEF ParseFails, Parsing, nameVars
  <2> QED
    BY <2>1, AskedGiven
<1> QED
  BY <1>1, <1>2, <1>3, HeaderGiven, NumberGiven, BytesGiven, NameGiven, RecordGiven, ChunkGiven,
     NoMoreChunksGiven, EndGiven
  DEF Parse

LEMMA ParserPassage == ASSUME CodecInv, CodecInv', PassageInv, Parse PROVE PassageInv'
<1>1. stage \in {"reading", "given"} /\ stage' = stage /\ buf' = buf /\ sent' = sent
  BY ParserStays
<1>2. ReadingAlong'
  BY <1>1, ReadPassage, StillReading DEF PassageInv
<1>3. GivenAlong'
  <2>1. CASE stage = "given"
    BY <2>1, GivenPassage DEF PassageInv
  <2>2. CASE stage = "reading"
    BY <1>1, <2>2 DEF GivenAlong
  <2> QED
    BY <1>1, <2>1, <2>2
<1>4. SentListed' /\ Composed'
  BY <1>1 DEF PassageInv, SentListed, Composed
<1> QED
  BY <1>2, <1>3, <1>4 DEF PassageInv

LEMMA StillPassage == ASSUME PassageInv, UNCHANGED vars PROVE PassageInv'
<1>1. /\ UNCHANGED <<scriptVars, parseVars>> /\ UNCHANGED <<buf, stage, names, stops>>
      /\ UNCHANGED <<op, from, naming>>
  BY DEF vars, nameVars
<1>2. UNCHANGED <<script, hole, sent, expect, cursor, limit, got, refused>>
  BY <1>1 DEF scriptVars, parseVars
<1>3. ReadingAlong'
  BY <1>1, AskedAlong DEF PassageInv
<1>4. GivenAlong'
  BY <1>1, <1>2 DEF PassageInv, GivenAlong, Underway, ClosingBody, EndsAsked
<1>5. SentListed'
  BY <1>1, <1>2 DEF PassageInv, SentListed
<1>6. ASSUME NEW k, NEW p, WrittenTo(k, p) PROVE WrittenTo(k, p)'
  <2>1. Laid(k, p)'
    BY <1>1, <1>2, <1>6 DEF WrittenTo, Laid, Placed, Patched
  <2> QED
    BY <1>1, <1>2, <1>6, <2>1 DEF WrittenTo
<1>7. Composed'
  BY <1>1, <1>2, <1>6 DEF PassageInv, Composed
<1> QED
  BY <1>3, <1>4, <1>5, <1>7 DEF PassageInv

LEMMA PassageStep ==
  ASSUME CodecInv, CodecInv', PassageInv, [MessageNext]_vars
  PROVE  PassageInv'
<1>1. CASE Over \/ UNCHANGED vars
  BY <1>1, StillPassage DEF Over
<1> QED
  BY <1>1, WriterPassage, DeliverPassage, RelayPassage, ParserPassage DEF MessageNext, Compose

(* When nothing more is expected, all of the message has been read.        *)
LEMMA WholeMessage ==
  ASSUME PassageInv, Len(buf) < 65536
  PROVE  MessageReadsBack
<1> SUFFICES ASSUME stage = "reading"
             PROVE  (expect = <<>> => got = [i \in DOMAIN sent |-> Normal(sent[i])]) /\ ~refused
  BY DEF MessageReadsBack
<1>1. ~refused /\ Listed(sent)
  BY DEF PassageInv, ReadingAlong, SentListed
<1>2. ASSUME expect = <<>>
      PROVE  got = [i \in DOMAIN sent |-> Normal(sent[i])]
  <2>1. PICK D, A, p, k : Along(D, A, p, k)
    BY DEF PassageInv, ReadingAlong
  <2>2. D[k] = <<>>
    BY <1>2, <2>1 DEF Along, ClosingBody
  <2>3. /\ k \in A /\ Run(sent, D, A, Len(sent)) /\ ReadTo(k, p) /\ Len(sent) \in Nat
    BY <2>1 DEF Along, LaidOut
  <2>4. k = Len(sent)
    <3>1. k \in 0 .. Len(sent)
      BY <2>3 DEF ReadTo
    <3>2. k < Len(sent) => \E j \in A : k < j /\ Parses(sent, D, k, j)
      BY <2>3 DEF Run
    <3>3. ~(k < Len(sent))
      BY <2>2, <3>2 DEF Parses
    <3> QED
      BY <2>3, <3>1, <3>3
  <2>5. /\ Listed(got) /\ Len(got) = Len(sent)
        /\ \A j \in 1 .. Len(sent) : got[j] = Normal(sent[j])
    BY <2>3, <2>4 DEF ReadTo
  <2>6. DOMAIN got = 1 .. Len(sent) /\ DOMAIN sent = 1 .. Len(sent)
    BY <1>1, <2>5, LenProperties DEF Listed
  <2>7. got = [j \in DOMAIN got |-> got[j]]
    BY <2>5 DEF Listed
  <2> QED
    BY <2>5, <2>6, <2>7
<1> QED
  BY <1>1, <1>2

(* Every message that is well formed is parsed to what was written, item   *)
(* by item, the names in lower case, and the parser refuses nothing of it  *)
(* but a name: the messages the program composes, and, without any         *)
(* assumption on them, those it has parsed and passes on.  The message     *)
(* must fit into 65535 bytes, so that every RDLENGTH can be told in its    *)
(* two (Message.to_bytes, Message.parse).                                  *)
THEOREM MessagesReadBack ==
  ASSUME \A m \in Messages : WellFormed(m)
  PROVE  MessageSpec => [](Len(buf) < 65536 => MessageReadsBack)
<1>1. MessageInit => PassageInv
  BY PassageInit
<1>2. CodecInv /\ CodecInv' /\ PassageInv /\ [MessageNext]_vars => PassageInv'
  BY PassageStep
<1>3. PassageInv => (Len(buf) < 65536 => MessageReadsBack)
  BY WholeMessage
<1> QED
  BY <1>1, <1>2, <1>3, CodecAlways, PTL DEF MessageSpec

-----------------------------------------------------------------------------
(* The queries of the resolvers are well formed.                           *)

LEMMA FlattenOne == ASSUME NEW T, NEW s \in Seq(T) PROVE FlattenSeq(<<s>>) = s
<1> DEFINE ss == <<s>>
<1>1. ss \in Seq(Seq(T)) /\ Len(ss) = 1 /\ ss[1] = s
  OBVIOUS
<1> HIDE DEF ss
<1>2. PICK g \in [0 .. Len(ss) -> Seq(T)] : OneByOne(ss, g)
  BY <1>1, Flattened
<1>3. g[0] = <<>> /\ g[1] = FlattenSeq(ss) /\ g[1] = g[1 - 1] \o ss[1] /\ 1 - 1 = 0
  BY <1>1, <1>2 DEF OneByOne
<1>4. FlattenSeq(ss) = <<>> \o s
  BY <1>1, <1>3
<1> QED
  BY <1>4, ConcatEmptySeq DEF ss

LEMMA FlattenFirst ==
  ASSUME NEW T, NEW s \in Seq(T)
  PROVE  FlattenSeq(<<s, <<>>, <<>>, <<>> >>) = s
<1> DEFINE ss == <<s, <<>>, <<>>, <<>> >>
<1>0. <<>> \in Seq(T)
  BY EmptySeq
<1>1. /\ ss \in Seq(Seq(T)) /\ Len(ss) = 4
      /\ ss[1] = s /\ ss[2] = <<>> /\ ss[3] = <<>> /\ ss[4] = <<>>
  BY <1>0
<1> HIDE DEF ss
<1>2. PICK g \in [0 .. Len(ss) -> Seq(T)] : OneByOne(ss, g)
  BY <1>1, Flattened
<1>3. /\ g[0] = <<>> /\ g[4] = FlattenSeq(ss)
      /\ \A k \in 1 .. 4 : g[k] = g[k - 1] \o ss[k]
  BY <1>1, <1>2 DEF OneByOne
<1>4. 1 - 1 = 0 /\ 2 - 1 = 1 /\ 3 - 1 = 2 /\ 4 - 1 = 3
  OBVIOUS
<1>5. g[1] = <<>> \o s /\ g[2] = g[1] \o <<>> /\ g[3] = g[2] \o <<>> /\ g[4] = g[3] \o <<>>
  <2>1. 1 \in 1 .. 4 /\ 2 \in 1 .. 4 /\ 3 \in 1 .. 4 /\ 4 \in 1 .. 4
    OBVIOUS
  <2> QED
    BY <1>1, <1>3, <1>4, <2>1
<1>6. <<>> \o s = s /\ s \o <<>> = s
  BY ConcatEmptySeq
<1> QED
  BY <1>3, <1>5, <1>6 DEF ss

LEMMA RepeatedNever == ASSUME NEW what PROVE Repeat(0, what) = <<>>
<1>1. [i \in 1 .. 0 |-> what] = <<>>
  OBVIOUS
<1>2. Len(<<>>) = 0
  OBVIOUS
<1> QED
  BY <1>1, <1>2 DEF Repeat, FlattenSeq

LEMMA RepeatedOnce == ASSUME NEW T, NEW what \in Seq(T) PROVE Repeat(1, what) = what
<1>1. [i \in 1 .. 1 |-> what] = <<what>>
  OBVIOUS
<1> QED
  BY <1>1, FlattenOne DEF Repeat

(* A question is a name and two numbers; so it is taken.                   *)
LEMMA AskingOne ==
  ASSUME NEW counts, counts[1] = 1, counts[2] = 0, counts[3] = 0, counts[4] = 0
  PROVE  AfterHeader(counts)
             = <<Expect("name"), ExpectWide("number", 2), ExpectWide("number", 2)>>
<1> DEFINE w == <<Expect("name"), ExpectWide("number", 2), ExpectWide("number", 2)>>
           v == <<Expect("name"), Expect("record")>>
<1>1. w \in Seq({Expect("name"), ExpectWide("number", 2)})
  OBVIOUS
<1> HIDE DEF w, v
<1>2. AfterHeader(counts) = Repeat(1, w) \o Repeat(0, v)
  <2>1. 0 + 0 + 0 = 0
    OBVIOUS
  <2> QED
    BY <2>1 DEF AfterHeader, w, v
<1>3. Repeat(1, w) = w /\ Repeat(0, v) = <<>> /\ w \o <<>> = w
  BY <1>1, RepeatedOnce, RepeatedNever, ConcatEmptySeq
<1> QED
  BY <1>2, <1>3 DEF w

(* The items of the query.                                                 *)
Query(id, rd, name, qtype, qclass) ==
    Message(MakeQuery(id, rd), << <<Question(name, qtype, qclass)>>, <<>>, <<>>, <<>> >>)

LEMMA QueryRuns ==
  ASSUME NEW items, Len(items) = 4, items[1] \in HeaderItem,
         items[1].counts[1] = 1, items[1].counts[2] = 0,
         items[1].counts[3] = 0, items[1].counts[4] = 0,
         items[2].kind = "name",
         \E v : Fits(2, v) /\ items[3] = Number(2, v),
         \E v : Fits(2, v) /\ items[4] = Number(2, v)
  PROVE  Parsable(items)
<1> DEFINE e == Expect("name")
           n == ExpectWide("number", 2)
           w == <<e, n, n>>
           A == 0 .. 4
           D == [i \in 0 .. 4 |-> IF i = 0 THEN Expected ELSE IF i = 1 THEN w
                                  ELSE IF i = 2 THEN <<n, n>> ELSE IF i = 3 THEN <<n>> ELSE <<>>]
<1>1. /\ D[0] = Expected /\ D[1] = w /\ D[2] = <<n, n>> /\ D[3] = <<n>> /\ D[4] = <<>>
  OBVIOUS
<1>2. e.kind = "name" /\ n.kind = "number" /\ n.width = 2 /\ e \in Expectation /\ n \in Expectation
  BY ExpectationType DEF Expect, ExpectWide
<1>3. AfterHeader(items[1].counts) = w
  BY AskingOne
<1>4. /\ D[0] # <<>> /\ D[1] # <<>> /\ D[2] # <<>> /\ D[3] # <<>>
      /\ Head(D[0]).kind = "header" /\ Head(D[1]) = e /\ Head(D[2]) = n /\ Head(D[3]) = n
      /\ D[2] = Tail(D[1]) /\ D[3] = Tail(D[2]) /\ D[4] = Tail(D[3])
  <2> HIDE DEF e, n
  <2>1. Head(Expected).kind = "header" /\ Expected # <<>>
    BY DEF Expected
  <2>2. <<e, n, n>> # <<>> /\ Head(<<e, n, n>>) = e /\ Tail(<<e, n, n>>) = <<n, n>>
    OBVIOUS
  <2>3. <<n, n>> # <<>> /\ Head(<<n, n>>) = n /\ Tail(<<n, n>>) = <<n>>
    OBVIOUS
  <2>4. <<n>> # <<>> /\ Head(<<n>>) = n /\ Tail(<<n>>) = <<>>
    OBVIOUS
  <2> HIDE DEF D
  <2> QED
    BY <1>1, <2>1, <2>2, <2>3, <2>4
<1>5. D[1] \in Seq(Expectation) /\ D[2] \in Seq(Expectation) /\ D[3] \in Seq(Expectation)
      /\ D[4] \in Seq(Expectation)
  <2> HIDE DEF e, n
  <2>1. <<e, n, n>> \in Seq(Expectation) /\ <<n, n>> \in Seq(Expectation)
        /\ <<n>> \in Seq(Expectation) /\ <<>> \in Seq(Expectation)
    BY <1>2
  <2> HIDE DEF D
  <2> QED
    BY <1>1, <2>1
<1> HIDE DEF D, e, n
<1>6. 1 = 0 + 1 /\ 2 = 1 + 1 /\ 3 = 2 + 1 /\ 4 = 3 + 1
  OBVIOUS
<1>7. Parses(items, D, 0, 1)
  BY <1>1, <1>3, <1>4 DEF Parses, HeaderRule
<1>8. Parses(items, D, 1, 2)
  BY <1>2, <1>4, <1>6 DEF Parses, NameRule
<1>9. Parses(items, D, 2, 3)
  <2>1. NumberRule(items, D, 2, 3)
    BY <1>2, <1>4, <1>6 DEF NumberRule
  <2> QED
    BY <1>4, <2>1 DEF Parses
<1>10. Parses(items, D, 3, 4)
  <2>1. NumberRule(items, D, 3, 4)
    BY <1>2, <1>4, <1>6 DEF NumberRule
  <2> QED
    BY <1>4, <2>1 DEF Parses
<1>11. Run(items, D, A, Len(items))
  <2>1. 0 \in A /\ 4 \in A /\ A \subseteq 0 .. 4
    OBVIOUS
  <2>2. ASSUME NEW i \in A PROVE i = 0 \/ i = 1 \/ i = 2 \/ i = 3 \/ i = 4
    OBVIOUS
  <2>3. \A i \in A : i # 0 => D[i] \in Seq(Expectation)
    BY <1>5, <2>2
  <2>4. ASSUME NEW i \in A, i < 4 PROVE \E j \in A : i < j /\ Parses(items, D, i, j)
    <3>1. /\ 1 \in A /\ 2 \in A /\ 3 \in A /\ 4 \in A
          /\ 0 < 1 /\ 1 < 2 /\ 2 < 3 /\ 3 < 4 /\ ~(4 < 4)
      OBVIOUS
    <3> HIDE DEF A
    <3> QED
      BY <1>7, <1>8, <1>9, <1>10, <2>2, <2>4, <3>1
  <2> HIDE DEF A
  <2> QED
    BY <1>1, <2>1, <2>3, <2>4 DEF Run
<1> QED
  BY <1>1, <1>11 DEF Parsable

LEMMA QueryWellFormed ==
  ASSUME NEW id \in Word, NEW rd \in Bit, NEW name, NEW qtype \in Word, NEW qclass \in Word
  PROVE  WellFormed(Query(id, rd, name, qtype, qclass))
<1>0. PICK items : items = Query(id, rd, name, qtype, qclass)
  OBVIOUS
<1> DEFINE q == Question(name, qtype, qclass)
           ss == << <<q>>, <<>>, <<>>, <<>> >>
           c == [i \in 1 .. 4 |-> Len(ss[i])]
           h == [kind |-> "header", header |-> MakeQuery(id, rd), counts |-> c]
<1>1. q \in Seq({NameItem(name), Number(2, qtype), Number(2, qclass)})
      /\ Len(q) = 3 /\ q[1] = NameItem(name) /\ q[2] = Number(2, qtype) /\ q[3] = Number(2, qclass)
  BY DEF Question
<1> HIDE DEF q
<1>2. FlattenSeq(<<q>>) = q /\ FlattenSeq(<< >>) = <<>>
  <2>1. Len(<< >>) = 0
    OBVIOUS
  <2>2. FlattenSeq(<< >>) = <<>>
    BY <2>1 DEF FlattenSeq
  <2> QED
    BY <1>1, <2>2, FlattenOne
<1>3. [i \in 1 .. 4 |-> FlattenSeq(ss[i])] = <<q, <<>>, <<>>, <<>> >>
  BY <1>2
<1>4. FlattenSeq([i \in 1 .. 4 |-> FlattenSeq(ss[i])]) = q
  BY <1>1, <1>3, FlattenFirst
<1>5. items = <<h>> \o q
  BY <1>0, <1>4 DEF Query, Message, q
<1>6. c[1] = 1 /\ c[2] = 0 /\ c[3] = 0 /\ c[4] = 0 /\ DOMAIN c = 1 .. 4
      /\ c = [i \in 1 .. 4 |-> c[i]]
  OBVIOUS
<1> HIDE DEF c
<1>7. c \in [1 .. 4 -> Word]
  <2>1. 0 \in Word /\ 1 \in Word
    BY SMT DEF Word
  <2>2. \A i \in 1 .. 4 : c[i] \in Word
    <3>1. \A i \in 1 .. 4 : i = 1 \/ i = 2 \/ i = 3 \/ i = 4
      OBVIOUS
    <3> QED
      BY <1>6, <2>1, <3>1
  <2> QED
    BY <1>6, <2>2
<1>8. MakeQuery(id, rd) \in Header
  BY DEF MakeQuery, Header, Bit, OpCode, ResponseCode
<1>9. h \in HeaderItem /\ h.counts = c
  BY <1>7, <1>8 DEF HeaderItem
<1> HIDE DEF h
<1>10. Listed(<<h>>) /\ Len(<<h>>) = 1 /\ <<h>>[1] = h /\ Listed(q)
  BY <1>1, Singleton, ListedIn
<1>11. PICK t : t = <<h>>
  OBVIOUS
<1>12. /\ Listed(items) /\ Len(items) = 4
       /\ \A i \in 1 .. 4 : items[i] = IF i <= 1 THEN t[i] ELSE q[i - 1]
  <2>1. Listed(t) /\ Len(t) = 1 /\ items = t \o q /\ 1 + 3 = 4
    BY <1>5, <1>10, <1>11
  <2>2. /\ Listed(t \o q) /\ Len(t \o q) = Len(t) + Len(q)
        /\ \A i \in 1 .. Len(t) + Len(q) :
                  (t \o q)[i] = IF i <= Len(t) THEN t[i] ELSE q[i - Len(t)]
    BY <1>10, <2>1, ListedConcat
  <2>3. Len(t) = 1 /\ Len(q) = 3 /\ Len(t) + Len(q) = 4
    BY <1>1, <2>1
  <2> QED
    BY <2>1, <2>2, <2>3
<1>13. items[1] = h /\ items[2] = q[1] /\ items[3] = q[2] /\ items[4] = q[3]
  <2>1. t[1] = h
    BY <1>10, <1>11
  <2>2. /\ 1 \in 1 .. 4 /\ 2 \in 1 .. 4 /\ 3 \in 1 .. 4 /\ 4 \in 1 .. 4
        /\ 1 <= 1 /\ ~(2 <= 1) /\ ~(3 <= 1) /\ ~(4 <= 1) /\ 2 - 1 = 1 /\ 3 - 1 = 2 /\ 4 - 1 = 3
    OBVIOUS
  <2> QED
    BY <1>12, <2>1, <2>2
<1>14. /\ Listed(items) /\ Len(items) = 4 /\ items[1] \in HeaderItem
       /\ items[1].counts[1] = 1 /\ items[1].counts[2] = 0
       /\ items[1].counts[3] = 0 /\ items[1].counts[4] = 0
       /\ items[2] = NameItem(name) /\ items[3] = Number(2, qtype) /\ items[4] = Number(2, qclass)
  BY <1>1, <1>6, <1>9, <1>12, <1>13
<1> HIDE DEF ss, c, h, q
<1>15. items[2].kind = "name"
  BY <1>14 DEF NameItem
<1>16. Fits(2, qtype) /\ Fits(2, qclass)
  <2>1. 256 ^ 2 = 65536
    BY SMT
  <2> QED
    BY ONLY SMT, <2>1, qtype \in Word, qclass \in Word DEF Fits, Word
<1>17. Parsable(items)
  <2>1. /\ \E v : Fits(2, v) /\ items[3] = Number(2, v)
        /\ \E v : Fits(2, v) /\ items[4] = Number(2, v)
    BY <1>14, <1>16
  <2> QED
    BY <1>14, <1>15, <2>1, QueryRuns
<1>18. Paired(items)
  <2>1. \A i \in 1 .. 4 : i = 1 \/ i = 2 \/ i = 3 \/ i = 4
    OBVIOUS
  <2>2. /\ items[1].kind = "header" /\ items[2].kind = "name" /\ items[3].kind = "number"
        /\ items[4].kind = "number"
    BY <1>14, <1>15 DEF HeaderItem, Number
  <2>3. \A i \in 1 .. 4 : items[i].kind \notin {"length", "patch"}
    BY <2>1, <2>2
  <2> QED
    BY <1>14, <2>3 DEF Paired
<1> QED
  BY <1>0, <1>14, <1>17, <1>18 DEF WellFormed

(* The queries of ForwardingResolver and RecursiveResolver, whatever name  *)
(* and type they ask for (Message.make_query), are read back as they were  *)
(* written, and so is every message that is parsed and passed on           *)
(* (Message.parse, Message.to_bytes).                                      *)
THEOREM QueriesReadBack ==
  ASSUME \A m \in Messages :
            \E id \in Word, rd \in Bit, name, qtype \in Word, qclass \in Word :
                m = Query(id, rd, name, qtype, qclass)
  PROVE  MessageSpec => [](Len(buf) < 65536 => MessageReadsBack)
<1>1. \A m \in Messages : WellFormed(m)
  BY QueryWellFormed
<1> QED
  BY <1>1, MessagesReadBack

=============================================================================
