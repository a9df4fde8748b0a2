---------------------------- MODULE MessageCodec ----------------------------
(***************************************************************************)
(* Whole messages on the wire (dns_server/wire.py): Message.to_bytes, its  *)
(* Writer, and Message.parse, around the names of NameCodec.               *)
(*                                                                         *)
(* A message is the sequence of items that to_bytes writes one after the   *)
(* other and parse reads: the header, names, numbers of 1, 2 or 4 bytes    *)
(* and byte strings.  An RDLENGTH is the item "length", which is written   *)
(* as a placeholder, and "patch", which comes after the body and fills it  *)
(* in.  Addresses are their bytes, the texts inet_ntop makes of them say   *)
(* as much.  Numbers fit their fields: they were read from such fields.    *)
(*                                                                         *)
(* The program writes a message of its own, or it parses one that it has   *)
(* been sent, and then writes that again; either way it is parsed at the   *)
(* other end by the same code.                                             *)
(***************************************************************************)
EXTENDS NameCodec, SequencesExt

CONSTANTS
    Messages   \* the messages the program composes itself

VARIABLES
    script,    \* the items still to be written
    hole,      \* Record.write: length_pos
    expect,    \* what is still to be parsed
    cursor,    \* Reader.pos between names
    limit,     \* Record.parse: end
    got,       \* the items parsed so far
    refused,   \* the parser has raised, outside of read_name
    sent       \* HISTORY: the message to be read at the other end

scriptVars == <<script, hole, sent>>

parseVars == <<expect, cursor, limit, got, refused>>

vars == <<nameVars, scriptVars, parseVars>>

-----------------------------------------------------------------------------
(* Code points.  A type or class that is none of these is kept by its      *)
(* number (_missing_); an operation or a response code is refused.         *)

RecordType ==
    [A |-> 1, NS |-> 2, CNAME |-> 5, SOA |-> 6, PTR |-> 12, MX |-> 15, TXT |-> 16,
     AAAA |-> 28]

OpCode == 0 .. 2

ResponseCode == 0 .. 5

-----------------------------------------------------------------------------
(* Messages.                                                               *)

NameItem(name) == [kind |-> "name", labels |-> name]
Number(width, value) == [kind |-> "number", width |-> width, value |-> value]
Bytes(bytes) == [kind |-> "bytes", bytes |-> bytes]
LengthItem == [kind |-> "length"]
PatchItem == [kind |-> "patch"]

(* The bodies of records.                                                  *)
AddressData(address) == <<Bytes(address)>>
NameData(target) == <<NameItem(target)>>
MXData(preference, exchange) == <<Number(2, preference), NameItem(exchange)>>
SOAData(mname, rname, numbers) ==
    <<NameItem(mname), NameItem(rname)>>
        \o [i \in 1 .. 5 |-> Number(4, numbers[i])]
TXTData(chunks) ==
    FlattenSeq([i \in DOMAIN chunks |-> <<Number(1, Len(chunks[i])), Bytes(chunks[i])>>])
RawData(raw) == <<Bytes(raw)>>

Question(name, qtype, qclass) ==
    <<NameItem(name), Number(2, qtype), Number(2, qclass)>>

Record(name, rtype, rclass, ttl, rdata) ==
    <<NameItem(name), Number(2, rtype), Number(2, rclass), Number(4, ttl), LengthItem>>
        \o rdata \o <<PatchItem>>

(* The header, its counts kept honest, and the four sections.              *)
Message(header, sections) ==
    <<[kind |-> "header", header |-> header,
       counts |-> [i \in 1 .. 4 |-> Len(sections[i])]]>>
        \o FlattenSeq([i \in 1 .. 4 |-> FlattenSeq(sections[i])])

(* Record.write leaves room for a length before it has one to put there.   *)
InOrder(items) ==
    /\ items \in Seq({items[i] : i \in 1 .. Len(items)})
    /\ \A q \in 1 .. Len(items) : items[q].kind = "patch" =>
           \E l \in 1 .. q - 1 : items[l].kind = "length"

ASSUME MessagesInOrder == \A m \in Messages : InOrder(m)

MakeQuery(id, rd) ==
    [id |-> id, qr |-> 0, opcode |-> 0, aa |-> 0, tc |-> 0, rd |-> rd, ra |-> 0,
     rcode |-> 0]

MakeResponse(query, rcode) ==
    [query EXCEPT !.qr = 1, !.aa = 0, !.tc = 0, !.ra = 1, !.rcode = rcode]

-----------------------------------------------------------------------------
(* Bytes.                                                                  *)

Packed(width, value) == [k \in 1 .. width |-> (value \div 256 ^ (width - k)) % 256]

Unpacked(at, width) ==
    FoldLeft(LAMBDA n, byte : 256 * n + byte, 0, SubSeq(buf, at + 1, at + width))

Flags(h) ==
    h.qr * 2 ^ 15 + h.opcode * 2 ^ 11 + h.aa * 2 ^ 10 + h.tc * 2 ^ 9 + h.rd * 2 ^ 8
        + h.ra * 2 ^ 7 + h.rcode

Bits(flags, shift, width) == (flags \div 2 ^ shift) % 2 ^ width

(* Bits 4 to 6 are ignored.                                                *)
HeaderAt(at) ==
    LET flags == Unpacked(at + 2, 2)
    IN  [id |-> Unpacked(at, 2), qr |-> Bits(flags, 15, 1),
         opcode |-> Bits(flags, 11, 4), aa |-> Bits(flags, 10, 1),
         tc |-> Bits(flags, 9, 1), rd |-> Bits(flags, 8, 1), ra |-> Bits(flags, 7, 1),
         rcode |-> Bits(flags, 0, 4)]

Encoded(item) ==
    CASE item.kind = "number" -> Packed(item.width, item.value)
      [] item.kind = "bytes" -> item.bytes
      [] item.kind = "length" -> Packed(2, 0)
      [] item.kind = "header" ->
            Packed(2, item.header.id) \o Packed(2, Flags(item.header))
                \o FlattenSeq([i \in 1 .. 4 |-> Packed(2, item.counts[i])])

-----------------------------------------------------------------------------
(* Message.to_bytes.                                                       *)

Composing == stage = "writing" /\ naming = Nothing /\ script # <<>>

PutField ==
    /\ Composing /\ Head(script).kind \notin {"name", "patch"}
    /\ WriteField(Encoded(Head(script)))
    /\ hole' = IF Head(script).kind = "length" THEN Len(buf) ELSE hole
    /\ script' = Tail(script)
    /\ UNCHANGED <<sent, parseVars>>

PutName ==
    /\ Composing /\ Head(script).kind = "name"
    /\ BeginName(Head(script).labels)
    /\ script' = Tail(script)
    /\ UNCHANGED <<hole, sent, parseVars>>

(* Mutant of PatchLength: the length counts its own two bytes.             *)
PatchLengthItself ==
    /\ Composing /\ Head(script).kind = "patch"
    /\ Overwrite(hole, Packed(2, Len(buf) - hole))
    /\ script' = Tail(script)
    /\ UNCHANGED <<hole, sent, parseVars>>

(* Mutant of PatchLength: the position is that of the body.                *)
PatchBody ==
    /\ Composing /\ Head(script).kind = "patch"
    /\ Overwrite(hole + 2, Packed(2, Len(buf) - (hole + 2)))
    /\ script' = Tail(script)
    /\ UNCHANGED <<hole, sent, parseVars>>

(* struct.pack_into looks at nothing but the position it is given.         *)
PatchLength ==
    /\ Composing /\ Head(script).kind = "patch"
    /\ Overwrite(hole, Packed(2, Len(buf) - (hole + 2)))
    /\ script' = Tail(script)
    /\ UNCHANGED <<hole, sent, parseVars>>

Expected == <<[kind |-> "header"]>>

Deliver ==
    /\ script = <<>>
    /\ Seal
    /\ expect' = Expected /\ cursor' = 0 /\ limit' = 0 /\ got' = <<>>
    /\ UNCHANGED <<scriptVars, refused>>

-----------------------------------------------------------------------------
(* Message.parse.                                                          *)

Parsing ==
    stage \in {"reading", "given"} /\ op \in {"ready", "done"} /\ ~refused /\ expect # <<>>

Expects(kind) == Parsing /\ Head(expect).kind = kind

(* `items' have been read, up to the offset `to'.                          *)
Take(items, to) ==
    /\ to <= Len(buf)
    /\ got' = got \o items
    /\ cursor' = to
    /\ UNCHANGED <<nameVars, scriptVars, refused>>

Repeat(n, what) == FlattenSeq([i \in 1 .. n |-> what])

Expect(kind) == [kind |-> kind]
ExpectWide(kind, width) == [kind |-> kind, width |-> width]

(* An unknown operation or response code is no member of its enumeration.  *)
ParseHeader ==
    /\ Expects("header")
    /\ Take(<<[kind |-> "header", header |-> HeaderAt(cursor),
               counts |-> [i \in 1 .. 4 |-> Unpacked(cursor + 2 + 2 * i, 2)]]>>,
            cursor + 12)
    /\ HeaderAt(cursor).opcode \in OpCode /\ HeaderAt(cursor).rcode \in ResponseCode
    /\ LET counts == got'[1].counts
       IN  expect' = Repeat(counts[1], <<Expect("name"), ExpectWide("number", 2),
                                         ExpectWide("number", 2)>>)
                \o Repeat(counts[2] + counts[3] + counts[4],
                          <<Expect("name"), Expect("record")>>)
    /\ UNCHANGED limit

ParseNumber ==
    /\ Expects("number")
    /\ LET width == Head(expect).width
       IN  Take(<<Number(width, Unpacked(cursor, width))>>, cursor + width)
    /\ expect' = Tail(expect)
    /\ UNCHANGED limit

ParseBytes ==
    /\ Expects("bytes")
    /\ LET width == Head(expect).width
       IN  Take(<<Bytes(SubSeq(buf, cursor + 1, cursor + width))>>, cursor + width)
    /\ expect' = Tail(expect)
    /\ UNCHANGED limit

(* _parse_rdata.                                                           *)
Shape(rtype, rdlength) ==
    CASE rtype = RecordType.A -> <<ExpectWide("bytes", 4)>>
      [] rtype = RecordType.AAAA -> <<ExpectWide("bytes", 16)>>
      [] rtype \in {RecordType.NS, RecordType.CNAME, RecordType.PTR} -> <<Expect("name")>>
      [] rtype = RecordType.MX -> <<ExpectWide("number", 2), Expect("name")>>
      [] rtype = RecordType.SOA ->
            <<Expect("name"), Expect("name")>> \o [i \in 1 .. 5 |-> ExpectWide("number", 4)]
      [] rtype = RecordType.TXT -> <<Expect("chunks")>>
      [] OTHER -> <<ExpectWide("bytes", rdlength)>>

ParseRecord ==
    /\ Expects("record")
    /\ Take(<<Number(2, Unpacked(cursor, 2)), Number(2, Unpacked(cursor + 2, 2)),
              Number(4, Unpacked(cursor + 4, 4)), LengthItem>>, cursor + 10)
    /\ LET rdlength == Unpacked(cursor + 8, 2)
       IN  /\ limit' = cursor + 10 + rdlength
           /\ expect' = Shape(Unpacked(cursor, 2), rdlength)
                            \o <<Expect("end")>> \o Tail(expect)

ParseChunk ==
    /\ Expects("chunks") /\ cursor < limit
    /\ cursor < Len(buf)
    /\ Take(<<Number(1, At(cursor)),
              Bytes(SubSeq(buf, cursor + 2, cursor + 1 + At(cursor)))>>,
            cursor + 1 + At(cursor))
    /\ UNCHANGED <<expect, limit>>

NoMoreChunks ==
    /\ Expects("chunks") /\ cursor >= limit
    /\ expect' = Tail(expect)
    /\ UNCHANGED <<nameVars, scriptVars, cursor, limit, got, refused>>

(* RDLENGTH is authoritative for where the record ends.                    *)
ParseEnd ==
    /\ Expects("end")
    /\ cursor' = limit
    /\ got' = Append(got, PatchItem)
    /\ expect' = Tail(expect)
    /\ UNCHANGED <<nameVars, scriptVars, limit, refused>>

ParseName ==
    /\ Expects("name") /\ Within(cursor)
    /\ ReadFrom(cursor)
    /\ UNCHANGED <<scriptVars, parseVars>>

NameParsed ==
    /\ Return
    /\ got' = Append(got, NameItem(Name))
    /\ cursor' = after'
    /\ expect' = Tail(expect)
    /\ UNCHANGED <<scriptVars, limit, refused>>

(* The end of the bytes, or no member of an enumeration: parse raises.     *)
Truncated ==
    LET e == Head(expect)
        last == CASE e.kind = "header" -> 12
                  [] e.kind = "record" -> 10
                  [] e.kind \in {"number", "bytes"} -> e.width
                  [] e.kind = "chunks" /\ cursor < limit ->
                        IF cursor < Len(buf) THEN 1 + At(cursor) ELSE 1
                  [] e.kind = "name" -> 1
                  [] OTHER -> 0
    IN  cursor + last > Len(buf)

Unsupported ==
    /\ Head(expect).kind = "header"
    /\ HeaderAt(cursor).opcode \notin OpCode \/ HeaderAt(cursor).rcode \notin ResponseCode

ParseFails ==
    /\ Parsing /\ ~Expects("end")
    /\ IF Truncated THEN TRUE ELSE Unsupported
    /\ refused' = TRUE
    /\ UNCHANGED <<nameVars, scriptVars, expect, cursor, limit, got>>

Parse ==
    \/ ParseHeader \/ ParseNumber \/ ParseBytes \/ ParseRecord \/ ParseChunk
    \/ NoMoreChunks \/ ParseEnd \/ ParseName \/ NameParsed \/ ParseFails
    \/ (Follow \/ Collect \/ Raise) /\ UNCHANGED <<scriptVars, parseVars>>

-----------------------------------------------------------------------------
(* A name that was parsed is a text with dots between the labels; written  *)
(* again, it has the labels that split(".") finds.                         *)
Pieces(name) ==
    LET text == FoldLeft(LAMBDA t, label : t \o <<46>> \o label, <<>>, name)
        add(parts, c) ==
            IF c = 46 THEN Append(parts, <<>>)
            ELSE Append(Front(parts), Append(Last(parts), c))
    IN  SelectSeq(FoldLeft(add, << <<>> >>, text), LAMBDA part : part # <<>>)

Resent(items) ==
    [i \in DOMAIN items |->
        IF items[i].kind = "name" THEN NameItem(Pieces(items[i].labels)) ELSE items[i]]

(* The message that was parsed is passed on.                               *)
Relay ==
    /\ stage = "given" /\ expect = <<>>
    /\ Renew
    /\ script' = Resent(got) /\ sent' = script' /\ hole' = 0
    /\ UNCHANGED parseVars

MessageInit ==
    /\ Init
    /\ script \in IF stage = "writing" THEN Messages ELSE {<<>>}
    /\ sent = script
    /\ expect = IF stage = "writing" THEN <<>> ELSE Expected
    /\ hole = 0 /\ cursor = 0 /\ limit = 0 /\ got = <<>> /\ refused = FALSE

Compose ==
    \/ PutField \/ PutName \/ PatchLength \/ Deliver \/ Relay
    \/ WriteName /\ UNCHANGED <<scriptVars, parseVars>>

(* The message has been parsed at the other end, or was refused on the way. *)
Over ==
    /\ \/ stage = "lost" \/ op = "raised" \/ refused
       \/ stage = "reading" /\ expect = <<>>
    /\ UNCHANGED vars

MessageNext == Compose \/ Parse \/ Over

(* parse is called and returns or raises.                                  *)
MessageSpec == MessageInit /\ [][MessageNext]_vars /\ WF_vars(Parse)

-----------------------------------------------------------------------------
MessageTypeOK ==
    /\ TypeOK
    /\ cursor \in Nat /\ limit \in Nat /\ hole \in 0 .. Len(buf) /\ refused \in BOOLEAN

(* A message is parsed to what was written, whatever names are compressed  *)
(* against each other in its sections and in the bodies of its records     *)
(* (wire.py:12-29): header, counts, names in lower case, types, lifetimes  *)
(* and bodies; and of what the program writes the parser refuses nothing   *)
(* but a name too deep in pointers.                                        *)
Normal(item) ==
    IF item.kind = "name" THEN NameItem(Key(item.labels)) ELSE item

MessageReadsBack ==
    stage = "reading" =>
        /\ expect = <<>> => got = [i \in DOMAIN sent |-> Normal(sent[i])]
        /\ ~refused

(* The composition takes no step with a name that write_name and read_name *)
(* do not take, so what holds of names alone holds in messages.  The step  *)
(* that could is the last of Record.write: struct.pack_into overwrites two *)
(* bytes wherever length_pos points (wire.py:463 and 471), and that must   *)
(* be the place left for a length, although names that others point at     *)
(* have been written in front of it and behind it since.                   *)
NamesUntouched == Spec

=============================================================================
