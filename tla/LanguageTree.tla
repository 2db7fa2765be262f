---------------------------- MODULE LanguageTree ----------------------------
(* LanguageTree of libprisma: patterns, grammars and languages are read from    *)
(* the bytes of grammars.dat, one part after the other.  They refer to each     *)
(* other by their place in the file, so one that is lost, or cut in the wrong   *)
(* place, gives the languages behind it wrong colours without any error.        *)
(*                                                                              *)
(* Characters are bytes.  A pattern is written /text/options,alias,grammar, and *)
(* neither the text nor the alias is escaped.                                   *)
EXTENDS Integers, SequencesExt

CONSTANTS
    Trees,          \* what the files that may be loaded were written from
    LongString      \* 254: a first byte that announces a longer length field

ASSUME LongStringAssumption == LongString \in 1..255

VARIABLES
    file,     \* what this file was written from
    content,  \* its bytes
    offset,   \* how many of them are read
    tree,     \* m_patterns, m_grammars and m_languages
    unread,   \* the parts of the file that are not read, and of the first
    count,    \* of them how many entries are not,
    keys      \* and how many tokens of a grammar that is being read

treeVars == <<file, content, offset, tree, unread, count, keys>>

Slash == 47
Comma == 44
Digit(d) == 48 + d
Flags == [lookbehind |-> 108, greedy |-> 121, icase |-> 105, mod_m |-> 109]
NoGrammar == -1         \* std::string::npos

-------------------------------------------------------------------------------
(* What a read finds at an offset, and where it leaves off: it stays where it   *)
(* is when the file is too short.                                               *)
Holds(o, size) == o + size <= Len(content)
Behind(o, size) == IF Holds(o, size) THEN o + size ELSE o

freadUint8(o) == IF Holds(o, 1) THEN content[o + 1] ELSE 0
freadUint16(o) == IF Holds(o, 2) THEN content[o + 1] + 256 * content[o + 2] ELSE 0

(* Where the k-th of several numbers of 16 bits is.                             *)
Uint16Before(o, k) == o + 2 * Min({k, (Len(content) - o) \div 2})

Short(o) == freadUint8(o) < LongString
LengthAt(o) ==
    IF Short(o) THEN freadUint8(o)
    ELSE freadUint8(o + 1) + 256 * freadUint8(o + 2) + 65536 * freadUint8(o + 3)
StringFrom(o) == IF Short(o) THEN Behind(o, 1) ELSE Min({o + 4, Len(content)})

(* What the file is too short for comes back as zeros.                          *)
freadString(o) ==
    IF Holds(StringFrom(o), LengthAt(o))
    THEN SubSeq(content, StringFrom(o) + 1, StringFrom(o) + LengthAt(o))
    ELSE [i \in 1..LengthAt(o) |-> 0]
BehindString(o) == Behind(StringFrom(o), LengthAt(o))

-------------------------------------------------------------------------------
Places(string, c) == {i \in DOMAIN string : string[i] = c}
From(string, i) == SubSeq(string, i, Len(string))

Number(digits) == FoldLeft(LAMBDA n, c : n * 10 + (c - Digit(0)), 0, digits)

(* Mutant: the text ends at the second slash.                                   *)
CutAtSecond(item) ==
    LET beg == Min(Places(item, Slash))
        end == Min(Places(item, Slash) \ {beg})
    IN  [text |-> SubSeq(item, beg + 1, end - 1), options |-> From(item, end + 1)]

(* A pattern's text is what is between the first slash and the last one.        *)
Cut(item) ==
    LET beg == Min(Places(item, Slash))
        end == Max(Places(item, Slash))
    IN  [text |-> SubSeq(item, beg + 1, end - 1), options |-> From(item, end + 1)]

(* The options hold two commas at least, the first and the last of which count. *)
Pattern(item) ==
    LET options  == Cut(item).options
        aliasBeg == Min(Places(options, Comma))
        aliasEnd == Max(Places(options, Comma))
        inside   == From(options, aliasEnd + 1)
    IN  [pattern |-> Cut(item).text,
         alias   |-> SubSeq(options, aliasBeg + 1, aliasEnd - 1),
         inside  |-> IF inside = <<>> THEN NoGrammar ELSE Number(inside),
         flags   |-> {f \in DOMAIN Flags : Flags[f] \in Range(SubSeq(options, 1, aliasBeg - 1))}]

-------------------------------------------------------------------------------
(* How a file is made.  The tool is not here: this is the format load reads,    *)
(* and the one Resources/grammars.dat is in.                                    *)
Uint16(n) == <<n % 256, n \div 256>>
StringOf(s) ==
    IF Len(s) < LongString THEN <<Len(s)>> \o s
    ELSE <<LongString>> \o Uint16(Len(s) % 65536) \o <<Len(s) \div 65536>> \o s
Each(Bytes(_), items) == FlattenSeq([i \in DOMAIN items |-> Bytes(items[i])])

DigitsOf(n) ==
    IF n < 10 THEN <<Digit(n)>>
    ELSE IF n < 100 THEN <<Digit(n \div 10), Digit(n % 10)>>
    ELSE <<Digit(n \div 100), Digit((n \div 10) % 10), Digit(n % 10)>>

OptionsOf(p) ==
    SetToSeq({Flags[f] : f \in p.flags}) \o <<Comma>> \o p.alias \o <<Comma>>
    \o (IF p.inside = NoGrammar THEN <<>> ELSE DigitsOf(p.inside))
ItemText(p) == <<Slash>> \o p.pattern \o <<Slash>> \o OptionsOf(p)
ItemOf(p) == StringOf(ItemText(p))
TokenOf(t) == StringOf(t.name) \o <<Len(t.patterns)>> \o Each(Uint16, t.patterns)
GrammarOf(g) == <<Len(g)>> \o Each(TokenOf, g)
LanguageOf(l) == StringOf(l.name) \o StringOf(l.displayName) \o Uint16(l.index)

Written(t) ==
    Uint16(Len(t.patterns)) \o Each(ItemOf, t.patterns)
    \o Uint16(Len(t.grammars)) \o Each(GrammarOf, t.grammars)
    \o Uint16(Cardinality(t.languages)) \o Each(LanguageOf, SetToSeq(t.languages))

(* What such a file can hold: as many entries and as long strings as the fields *)
(* in front of them can count, grammar numbers of three digits (the shipped file *)
(* has 922 grammars), an alias without a slash, languages that can be told apart. *)
Below(n) == {m \in Nat : m < n}
Byte == Below(256)
Word == Below(65536)
FitsInFile(s) == Len(s) < 256 * 65536

Storable(t) ==
    /\ t \in [patterns : Seq([pattern : Seq(Byte), alias : Seq(Byte),
                              inside : {NoGrammar} \cup Below(1000), flags : SUBSET DOMAIN Flags]),
              grammars : Seq(Seq([name : Seq(Byte), patterns : Seq(Word)])),
              languages : SUBSET [name : Seq(Byte), displayName : Seq(Byte), index : Word]]
    /\ Len(t.patterns) < 65536 /\ Len(t.grammars) < 65536
    /\ IsFiniteSet(t.languages) /\ Cardinality(t.languages) < 65536
    /\ \A p \in Range(t.patterns) : Slash \notin Range(p.alias) /\ FitsInFile(ItemText(p))
    /\ \A g \in Range(t.grammars) :
           /\ Len(g) < 256
           /\ \A token \in Range(g) : FitsInFile(token.name) /\ Len(token.patterns) < 256
    /\ \A l \in t.languages : FitsInFile(l.name) /\ FitsInFile(l.displayName)
    /\ \A l, k \in t.languages : l.name = k.name => l = k

ASSUME TreesAssumption == \A t \in Trees : Storable(t)

-------------------------------------------------------------------------------
(* The constructor has the file; a part begins with the number of its entries.  *)
TreeInit ==
    /\ file \in Trees
    /\ content = Written(file)
    /\ offset = Behind(0, 2)
    /\ tree = [patterns |-> <<>>, grammars |-> <<>>, languages |-> {}]
    /\ unread = <<"patterns", "grammars", "languages">>
    /\ count = freadUint16(0)
    /\ keys = 0

In(part) == unread # <<>> /\ Head(unread) = part /\ keys = 0 /\ count > 0

NextPart ==
    /\ unread # <<>> /\ keys = 0 /\ count = 0
    /\ unread' = Tail(unread)
    /\ IF unread' = <<>> THEN UNCHANGED <<offset, count>>
       ELSE count' = freadUint16(offset) /\ offset' = Behind(offset, 2)
    /\ UNCHANGED <<file, content, tree, keys>>

(* An item without slashes is no pattern, and takes no place.                   *)
parsePattern ==
    /\ In("patterns")
    /\ \E item \in {freadString(offset)} :
           tree' = IF Slash \in Range(item)
                   THEN [tree EXCEPT !.patterns = Append(@, Pattern(item))] ELSE tree
    /\ offset' = BehindString(offset)
    /\ count' = count - 1
    /\ UNCHANGED <<file, content, unread, keys>>

parseGrammar ==
    /\ In("grammars")
    /\ tree' = [tree EXCEPT !.grammars = Append(@, <<>>)]
    /\ keys' = freadUint8(offset)
    /\ offset' = Behind(offset, 1)
    /\ count' = count - 1
    /\ UNCHANGED <<file, content, unread>>

(* A token of the grammar: its name and the places of its patterns.             *)
parseToken ==
    LET at      == BehindString(offset)
        ids     == freadUint8(at)
        indices == [k \in 1..ids |-> freadUint16(Uint16Before(Behind(at, 1), k - 1))]
    IN  /\ keys > 0
        /\ tree' = [tree EXCEPT !.grammars[Len(tree.grammars)] =
                        Append(@, [name |-> freadString(offset), patterns |-> indices])]
        /\ offset' = Uint16Before(Behind(at, 1), ids)
        /\ keys' = keys - 1
        /\ UNCHANGED <<file, content, unread, count>>

(* emplace: of two languages with one name the first stays.                     *)
parseLanguage ==
    LET display == BehindString(offset)
        index   == BehindString(display)
        read    == [name |-> freadString(offset), displayName |-> freadString(display),
                    index |-> freadUint16(index)]
    IN  /\ In("languages")
        /\ tree' = IF \E l \in tree.languages : l.name = read.name THEN tree
                   ELSE [tree EXCEPT !.languages = @ \cup {read}]
        /\ offset' = Behind(index, 2)
        /\ count' = count - 1
        /\ UNCHANGED <<file, content, unread, keys>>

load == NextPart \/ parsePattern \/ parseGrammar \/ parseToken \/ parseLanguage

Loaded == unread = <<>>

(* find: the grammar of a language, if there is one; and the patterns that      *)
(* matchGrammar takes from it, in order.                                        *)
find(name) == {tree.grammars[l.index + 1] : l \in {k \in tree.languages : k.name = name}}
PatternsOf(grammar) ==
    LET ids == FlattenSeq([i \in DOMAIN grammar |-> grammar[i].patterns])
    IN  [i \in DOMAIN ids |-> tree.patterns[ids[i] + 1]]

-------------------------------------------------------------------------------
(* What was written is read back, to the last byte: a slash or a comma in a     *)
(* text or an alias, a long string or an absent grammar moves no boundary, and  *)
(* every index means the entry it was written for.                              *)
GrammarsReadBack ==
    /\ IsPrefix(tree.patterns, file.patterns)
    /\ tree.languages \subseteq file.languages
    /\ Loaded => tree = file /\ offset = Len(content)
=============================================================================
