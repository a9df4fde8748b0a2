--------------------------- MODULE MCMessageCodec ---------------------------
(* Messages whose names share suffixes in every way, within a few dozen    *)
(* bytes, and messages of others that are not as they should be.           *)
EXTENDS MessageCodec

(* Letters as character codes: a, b, an upper-case A, a dot, a non-ASCII.  *)
a == <<97>>
b == <<98>>
A == <<65>>
dotted == <<97, 46, 98>>
foreign == <<233>>
longest == [i \in 1 .. 63 |-> 97]
overlong == [i \in 1 .. 64 |-> 97]

MCNames ==
    {<<>>, <<a>>, <<b>>, <<a, b>>, <<A, b>>, <<b, a, b>>, <<A, b, a, b>>}

query == MakeQuery(258, 1)
response == MakeResponse(query, 3)

Asks(name) == Question(name, 1, 1)

(* Three names that may point at each other, behind a body of fixed size   *)
(* and one whose length depends on them.                                   *)
Answer(x, y, z) ==
    Message(response, <<<<Asks(x)>>,
                        <<Record(y, 5, 1, 70000, NameData(z)), 
                          Record(z, 1, 1, 5, AddressData(<<127, 0, 0, 1>>))>>,
                        <<>>, <<>>>>)

(* Every kind of body, in every section.                                   *)
Rich(x, y) ==
    Message(MakeResponse(query, 0),
            <<<<Asks(x), Question(y, 28, 255)>>,
              <<Record(x, 15, 1, 1, MXData(10, y)),
                Record(x, 28, 1, 1, AddressData([i \in 1 .. 16 |-> i]))>>,
              <<Record(y, 6, 1, 0, SOAData(x, y, <<1, 2, 3, 4, 65536>>))>>,
              <<Record(x, 16, 1, 300, TXTData(<< <<192, 12>>, <<>> >>)),
                Record(<<>>, 41, 4096, 0, RawData(<<192, 0, 64>>))>>>>)

(* A name that begins around the last offset a pointer can lead to.        *)
Late(n) ==
    Message(response, <<<<Asks(<<>>)>>,
                        <<Record(<<>>, 99, 1, 0, RawData([i \in 1 .. n |-> 0])),
                          Record(<<a, b>>, 2, 1, 1, NameData(<<a, A, b>>))>>,
                        <<>>, <<>>>>)

Odd(name) == Message(query, <<<<Asks(<<a>>), Asks(name)>>, <<>>, <<>>, <<>>>>)

MCMessages ==
    {Answer(x, y, z) : x \in MCNames, y \in MCNames, z \in MCNames}
        \cup {Rich(x, y) : x \in {<<>>, <<a, b>>}, y \in {<<A, b>>, <<b, b>>}}
        \cup {Late(n) : n \in 8 .. 14}
        \cup {Odd(<<label, a>>) : label \in {longest, overlong, foreign}}

Head12(flags, qd, an) ==
    Packed(2, 7) \o Packed(2, flags) \o Packed(2, qd) \o Packed(2, an) \o Packed(4, 0)

One == <<1, 97, 0>>
Fixed(rtype, length) == Packed(2, rtype) \o Packed(2, 1) \o Packed(4, 9) \o Packed(2, length)
Wire(an, bytes) == Head12(33152, 0, an) \o bytes

(* Names that are a pointer to themselves, to each other, ahead, out of    *)
(* the message; cut short; reserved; with dots and foreign bytes in them.  *)
MCGiven ==
    {Head12(256, 1, 0) \o name \o Packed(4, 65537) :
        name \in {<<192, 12>>, <<192, 14, 192, 12>>, <<1, 97, 192, 12>>, <<192, 15, 0>>,
                  <<192, 14, 1, 97, 0>>, <<255, 255>>, <<192>>, <<64, 97>>, <<9, 97>>, <<>>,
                  <<3>> \o dotted \o <<1, 65, 0>>, <<1, 46, 0>>, <<1>> \o foreign \o <<0>>}}
    \cup {Head12(256, 1, 0) \o One \o <<0, 1>>, Head12(256, 1, 0), <<0, 7, 1>>,
          Head12(256 + 5 * 2048, 0, 0), Head12(9, 0, 0)}
    (* Records longer and shorter than they say.                           *)
    \cup {Wire(2, One \o Fixed(1, 6) \o <<1, 2, 3, 4, 5, 6>> \o <<192, 12>> \o Fixed(2, 2) \o <<192, 12>>),
          Wire(2, One \o Fixed(2, 4) \o <<192, 12, 1, 1>> \o One \o Fixed(99, 0)),
          Wire(2, One \o Fixed(16, 2) \o <<3, 1, 97, 0>> \o Fixed(16, 0)),
          Wire(1, One \o Fixed(16, 5) \o <<1, 9, 3, 9>>),
          Wire(2, One \o Fixed(1, 60) \o <<1, 2, 3, 4>> \o One),
          Wire(1, One \o Fixed(99, 9) \o <<1, 2, 3, 4>>)}

=============================================================================
