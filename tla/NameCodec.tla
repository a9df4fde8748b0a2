----------------------------- MODULE NameCodec ------------------------------
(***************************************************************************)
(* Domain names on the wire: Writer.write_name and Reader.read_name of     *)
(* dns_server/wire.py, one step for each label, pointer or terminator.     *)
(*                                                                         *)
(* A name is the sequence of its labels, a label the sequence of its       *)
(* character codes.  The bytes of a message are `buf', the byte at offset  *)
(* o being buf[o + 1].  Between names a message holds fields of other      *)
(* kinds, whose bytes mean nothing here; a field once written may be       *)
(* overwritten in place (struct.pack_into).  When a message is complete it *)
(* is read, name by name; it may also be one that somebody else wrote.     *)
(***************************************************************************)
EXTENDS Integers, Sequences

CONSTANTS
    Given,        \* messages that others may send
    Guard,        \* iterations of read_name before it gives up (128)
    OffsetSpace,  \* how many offsets a pointer can tell apart (2^14)
    Nothing       \* no name is being written

Byte == 0 .. 255

Label == Seq(Nat) \ {<<>>}

ASSUME NameCodecConstants ==
    /\ Given \subseteq Seq(Byte)
    /\ Guard \in Nat
    /\ OffsetSpace \in 1 .. 16384
    /\ Nothing \notin Seq(Label)

VARIABLES
    buf,       \* Writer.buf, and Reader._data when it is complete
    offsets,   \* Writer._name_offsets: where a suffix was written
    naming,    \* write_name: the labels still to be written, or Nothing
    stage,     \* "writing", "reading", or "lost" if write_name has raised
    op,        \* the reader: "ready", "busy", "done", or has "raised"
    from,      \* read_name: where it was called,
    pos,       \*   where it is,
    labels,    \*   what it has collected,
    jumped,    \*   whether it has followed a pointer,
    after,     \*   cursor_after,
    guard,     \*   and its iterations
    names,     \* HISTORY: the names written, [labels, start] records
    stops,     \* HISTORY stops[i]: the offset behind the encoding of names[i]
    rest,      \* HISTORY rest[o]: the labels, in lower case, of the suffix at o
    owner,     \* HISTORY owner[o]: the name in whose encoding o is
    plain      \* HISTORY: the offsets that belong to fields

writerVars == <<buf, offsets, naming, stage, names, stops, rest, owner, plain>>

readerVars == <<op, from, pos, labels, jumped, after, guard>>

nameVars == <<buf, offsets, naming, stage, op, from, pos, labels, jumped, after,
              guard, names, stops, rest, owner, plain>>

-----------------------------------------------------------------------------
Lower(label) ==
    [k \in DOMAIN label |-> IF label[k] \in 65 .. 90 THEN label[k] + 32 ELSE label[k]]

(* The key of a suffix in the table; joined by dots it is just as unique,  *)
(* because split(".") leaves none in a label.                              *)
Key(suffix) == [i \in DOMAIN suffix |-> Lower(suffix[i])]

(* decode("ascii", "replace").lower()                                      *)
Decoded(label) ==
    Lower([k \in DOMAIN label |-> IF label[k] < 128 THEN label[k] ELSE 65533])

(* What encode("ascii") and the limit on labels let pass.                  *)
Writable(label) == Len(label) <= 63 /\ \A k \in DOMAIN label : label[k] < 128

(* 0xC000 | offset, as two bytes.                                          *)
Pointer(offset) ==
    <<192 + (offset % OffsetSpace) \div 256, (offset % OffsetSpace) % 256>>

With(f, x, v) == [y \in DOMAIN f \cup {x} |-> IF y = x THEN v ELSE f[y]]

Empty == [x \in {} |-> 0]

Init ==
    /\ offsets = Empty /\ naming = Nothing
    /\ names = <<>> /\ stops = <<>> /\ rest = Empty /\ owner = Empty /\ plain = {}
    /\ op = "ready" /\ from = 0 /\ pos = 0 /\ labels = <<>> /\ jumped = FALSE
    /\ after = 0 /\ guard = 0
    /\ \/ stage = "writing" /\ buf = <<>>
       \/ stage = "given" /\ buf \in Given

-----------------------------------------------------------------------------
(* Writer.                                                                 *)

Write(bytes) == buf' = buf \o bytes

WriteField(bytes) ==
    /\ bytes \in Seq(Byte)
    /\ stage = "writing" /\ naming = Nothing
    /\ Write(bytes)
    /\ plain' = plain \cup (Len(buf) .. Len(buf) + Len(bytes) - 1)
    /\ UNCHANGED <<offsets, naming, stage, names, stops, rest, owner, readerVars>>

(* Two bytes are written again, whatever they belong to.                   *)
Overwrite(at, bytes) ==
    /\ stage = "writing" /\ naming = Nothing
    /\ buf' = [buf EXCEPT ![at + 1] = bytes[1], ![at + 2] = bytes[2]]
    /\ UNCHANGED <<offsets, naming, stage, names, stops, rest, owner, plain, readerVars>>

BeginName(name) ==
    /\ name \in Seq(Label)
    /\ stage = "writing" /\ naming = Nothing
    /\ naming' = name
    /\ names' = Append(names, [labels |-> name, start |-> Len(buf)])
    /\ UNCHANGED <<buf, offsets, stage, stops, rest, owner, plain, readerVars>>

Mark ==
    /\ rest' = With(rest, Len(buf), Key(naming))
    /\ owner' = With(owner, Len(buf), Len(names))

Naming == stage = "writing" /\ naming # Nothing

(* The end of a name: the pointer or the terminator has been written.      *)
EndName ==
    /\ naming' = Nothing
    /\ stops' = Append(stops, Len(buf'))
    /\ UNCHANGED <<offsets, stage, names, plain, readerVars>>

Known == Key(naming) \in DOMAIN offsets

PointBack ==
    /\ Naming /\ naming # <<>> /\ Known
    /\ Write(Pointer(offsets[Key(naming)]))
    /\ Mark
    /\ EndName

(* Mutant of Register: a pointer to 0x4000 is tried.                       *)
RegisterBeyond ==
    offsets' = IF Len(buf) <= OffsetSpace THEN With(offsets, Key(naming), Len(buf))
               ELSE offsets

(* Only what a pointer can reach is remembered.                            *)
Register ==
    offsets' = IF Len(buf) < OffsetSpace THEN With(offsets, Key(naming), Len(buf))
               ELSE offsets

WriteLabel ==
    /\ Naming /\ naming # <<>> /\ ~Known
    /\ Writable(naming[1])
    /\ Register
    /\ Write(<<Len(naming[1])>> \o naming[1])
    /\ Mark
    /\ naming' = Tail(naming)
    /\ UNCHANGED <<stage, names, stops, plain, readerVars>>

Refuse ==
    /\ Naming /\ naming # <<>> /\ ~Known
    /\ ~Writable(naming[1])
    /\ stage' = "lost"
    /\ UNCHANGED <<buf, offsets, naming, names, stops, rest, owner, plain, readerVars>>

WriteRoot ==
    /\ Naming /\ naming = <<>>
    /\ Write(<<0>>)
    /\ Mark
    /\ EndName

(* to_bytes returns, and somebody reads what it returned.                  *)
Seal ==
    /\ stage = "writing" /\ naming = Nothing
    /\ stage' = "reading"
    /\ UNCHANGED <<buf, offsets, naming, names, stops, rest, owner, plain, readerVars>>

(* Another message: a new Writer.                                          *)
Renew ==
    /\ op # "busy" /\ stage # "writing"
    /\ stage' = "writing" /\ buf' = <<>> /\ offsets' = Empty /\ naming' = Nothing
    /\ names' = <<>> /\ stops' = <<>> /\ rest' = Empty /\ owner' = Empty /\ plain' = {}
    /\ op' = "ready"
    /\ UNCHANGED <<from, pos, labels, jumped, after, guard>>

WriteName == PointBack \/ WriteLabel \/ Refuse \/ WriteRoot

-----------------------------------------------------------------------------
(* Reader.read_name.                                                       *)

ReadFrom(at) ==
    /\ stage \in {"reading", "given"} /\ op \in {"ready", "done"}
    /\ op' = "busy" /\ from' = at /\ pos' = at
    /\ labels' = <<>> /\ jumped' = FALSE /\ after' = at /\ guard' = 0
    /\ UNCHANGED writerVars

Within(offset) == offset < Len(buf)

At(offset) == buf[offset + 1]

(* Mutant of Iterate: one iteration too many.                              *)
IterateOnceMore ==
    /\ op = "busy" /\ guard <= Guard
    /\ guard' = guard + 1
    /\ UNCHANGED <<from, writerVars>>

(* An iteration that the guard lets pass.                                  *)
Iterate ==
    /\ op = "busy" /\ guard < Guard
    /\ guard' = guard + 1
    /\ UNCHANGED <<from, writerVars>>

IsPointer == Within(pos) /\ At(pos) >= 192 /\ Within(pos + 1)

IsRoot == Within(pos) /\ At(pos) = 0

IsLabel == Within(pos) /\ At(pos) \in 1 .. 63

(* Mutant of Follow: the cursor is left behind what the pointer leads to.  *)
FollowForGood ==
    /\ Iterate /\ IsPointer
    /\ pos' = (At(pos) - 192) * 256 + At(pos + 1)
    /\ UNCHANGED <<op, labels, jumped, after>>

(* Mutant of Follow: only labels are counted.                              *)
FollowUncounted ==
    /\ op = "busy" /\ IsPointer
    /\ pos' = (At(pos) - 192) * 256 + At(pos + 1)
    /\ after' = IF jumped THEN after ELSE pos + 2
    /\ jumped' = TRUE
    /\ UNCHANGED <<op, labels, from, guard, writerVars>>

(* The outer record only spends the two bytes of the first pointer.        *)
Follow ==
    /\ Iterate /\ IsPointer
    /\ pos' = (At(pos) - 192) * 256 + At(pos + 1)
    /\ after' = IF jumped THEN after ELSE pos + 2
    /\ jumped' = TRUE
    /\ UNCHANGED <<op, labels>>

(* The slice, short if it runs off the end: the next iteration finds out.  *)
Slice ==
    SubSeq(buf, pos + 2,
           IF Within(pos + At(pos)) THEN pos + 1 + At(pos) ELSE Len(buf))

Collect ==
    /\ Iterate /\ IsLabel
    /\ labels' = Append(labels, Slice)
    /\ pos' = pos + 1 + At(pos)
    /\ after' = IF jumped THEN after ELSE pos'
    /\ UNCHANGED <<op, jumped>>

Return ==
    /\ Iterate /\ IsRoot
    /\ op' = "done"
    /\ pos' = pos + 1
    /\ after' = IF jumped THEN after ELSE pos'
    /\ UNCHANGED <<labels, jumped>>

(* The guard, a reserved marker or the end of the message.                 *)
Raise ==
    /\ op = "busy"
    /\ guard = Guard \/ ~(IsPointer \/ IsRoot \/ IsLabel)
    /\ op' = "raised"
    /\ guard' = IF guard < Guard THEN guard + 1 ELSE guard
    /\ UNCHANGED <<from, pos, labels, jumped, after, writerVars>>

ReadName == Follow \/ Collect \/ Return \/ Raise

(* The two bytes of a field are written again when their value is known:   *)
(* what a writer of messages has to keep to.                               *)
Refill(at, bytes) ==
    /\ {at, at + 1} \subseteq plain /\ bytes \in Byte \X Byte
    /\ Overwrite(at, bytes)

(* Any names and any fields, written in any order.                         *)
Next ==
    \/ WriteField(SubSeq(buf', Len(buf) + 1, Len(buf')))
    \/ \E at \in plain : Refill(at, <<buf'[at + 1], buf'[at + 2]>>)
    \/ BeginName(naming')
    \/ WriteName
    \/ Seal
    \/ Renew
    \/ \E at \in 0 .. Len(buf) : ReadFrom(at)
    \/ ReadName

Spec == Init /\ [][Next]_nameVars

-----------------------------------------------------------------------------
TypeOK ==
    /\ buf \in Seq(Byte)
    /\ DOMAIN offsets \subseteq Seq(Label)
    /\ naming \in Seq(Label) \cup {Nothing}
    /\ stage \in {"writing", "reading", "given", "lost"}
    /\ op \in {"ready", "busy", "done", "raised"}
    /\ from \in Nat /\ pos \in Nat /\ after \in Nat /\ guard \in 0 .. Guard
    /\ labels \in Seq(Seq(Byte)) /\ jumped \in BOOLEAN
    /\ names \in Seq([labels : Seq(Label), start : Nat])
    /\ stops \in Seq(Nat)
    /\ DOMAIN owner = DOMAIN rest
    /\ plain \subseteq Nat

(* What the reader has made of a name.                                     *)
Name == [i \in DOMAIN labels |-> Decoded(labels[i])]

(* "mail.example.com and www.example.com share the example.com tail, so    *)
(* the second one can point at the first's tail" (wire.py:213): wherever   *)
(* the pointers of a message lead, every name in it is read as it was      *)
(* written, in lower case, and the cursor is left just behind its own      *)
(* bytes; nothing but the guard can make the reader refuse it.             *)
NamesReadBack ==
    stage = "reading" =>
        \A i \in DOMAIN names : names[i].start = from =>
            /\ op = "done" => Name = Key(names[i].labels) /\ after = stops[i]
            /\ op = "raised" => guard = Guard

(* "the cursor only advances past the pointer itself" (wire.py:98):        *)
(* whatever bytes somebody sends, a name that is read at all leaves the    *)
(* cursor further on and within the message, wherever its pointers lead.   *)
CursorMovesOn == op = "done" => from < after /\ after <= Len(buf)

(* "we guard against that" (wire.py:80): however the pointers of a message *)
(* lead to each other, the reading of a name ends.                         *)
ReadingEnds == (op = "busy") ~> (op # "busy")

=============================================================================
