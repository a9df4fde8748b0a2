----------------------------- MODULE Blocklist ------------------------------
(***************************************************************************)
(* The Blocklist of dns_server/blocklist.py: what the lines of a list      *)
(* file put on it, and which names it blocks.                              *)
(*                                                                         *)
(* A name is the sequence of its labels, lower case and without the        *)
(* trailing dot, as strip().rstrip(".").lower() leaves it; a name of which *)
(* nothing is left is <<>>.  A file is a sequence of lines, a line the     *)
(* sequence of words split() finds before the first "#".                   *)
(***************************************************************************)
EXTENDS Naturals, Sequences

CONSTANTS
    Noise   \* "the localhost noise that litters hosts files"

VARIABLE blocked   \* Blocklist._blocked

(* A word of a line: the name it is, and whether _looks_like_ip says yes.  *)
Word == [name : Seq(STRING), ip : BOOLEAN]

BlocklistInit == blocked = {}

(* Mutant of Hosts: every word of a line is taken for a name.              *)
HostsEveryWord(line) == {line[i].name : i \in DOMAIN line}

(* Hosts format, with any number of names behind the address, or a plain   *)
(* list, of which only the first word counts.                              *)
Hosts(line) ==
    IF line[1].ip THEN {line[i].name : i \in 2 .. Len(line)} ELSE {line[1].name}

Names(line) ==
    IF line = <<>> THEN {}
    ELSE IF Len(line) = 1 THEN {line[1].name}
    ELSE Hosts(line)

(* Mutant of Listed: what is left of a word is not looked at.              *)
ListedUnchecked(text) == UNION {Names(text[i]) : i \in DOMAIN text}

Listed(text) == (UNION {Names(text[i]) : i \in DOMAIN text}) \ (Noise \cup {<<>>})

(* load_text                                                               *)
Load(text) == blocked' = blocked \cup Listed(text)

From(name, i) == SubSeq(name, i, Len(name))

(* Mutant of IsBlocked: only the name itself is looked up.                 *)
IsBlockedExactly(name) == name \in blocked

(* The name, then ever broader parent domains.                             *)
IsBlocked(name) == \E i \in 1 .. Len(name) : From(name, i) \in blocked

(* What blocklist.py:17 promises of a list of domains: each of them is     *)
(* blocked and every subdomain of it, and nothing else.                    *)
Below(name, domain) ==
    /\ Len(domain) <= Len(name)
    /\ \A i \in 1 .. Len(domain) : name[Len(name) - Len(domain) + i] = domain[i]

Covered(name, domains) == \E domain \in domains : Below(name, domain)

=============================================================================
