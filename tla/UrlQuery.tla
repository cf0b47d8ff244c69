------------------------------ MODULE UrlQuery ------------------------------
(***************************************************************************)
(* UrlImpl, the QueryImpl it inherits from, and the encoding both use: a   *)
(* URL keeps its query three times, in the boost::url, as an encoded text  *)
(* and as a decoded map, and not every setter sets all of them.            *)
(*                                                                         *)
(* A string is a sequence of bytes.                                        *)
(***************************************************************************)
EXTENDS Integers, Sequences, FiniteSets, SequencesExt, FiniteSetsExt

Byte == 0..255
EmptyMap == [k \in {} |-> <<>>]

-----------------------------------------------------------------------------
(* Util::uriEncode *)

Percent == 37
Ampersand == 38
Equals == 61
Digits == 48..57
UpperHex == 65..70
LowerHex == 97..102

Unreserved == Digits \cup (65..90) \cup (97..122) \cup {45, 95, 46, 126}

(* illegalCharStr, and reservedCharStr of flattenQueryMap *)
IllegalChars == {Percent, 60, 62, 123, 125, 124, 92, 34, 94, 96}
Reserved == {Ampersand, Equals}

HexDigit(n) == IF n < 10 THEN 48 + n ELSE 55 + n
EscapedUnpadded(c) == IF c < 16 THEN <<Percent, HexDigit(c)>>
                      ELSE <<Percent, HexDigit(c \div 16), HexDigit(c % 16)>>
EscapedTwoDigits(c) == <<Percent, HexDigit(c \div 16), HexDigit(c % 16)>>
Escaped(c) == EscapedTwoDigits(c)

(* Of bytes as signed char, 128..255 are below 0x20. *)
ControlsOnly == 0..31
NotPrintable == (0..32) \cup (127..255)
Unprintable == NotPrintable

EncodeByte(c) ==
    IF c \notin Unreserved /\ c \in Unprintable \cup IllegalChars \cup Reserved
    THEN Escaped(c) ELSE <<c>>

uriEncode(s) == FlattenSeq([i \in DOMAIN s |-> EncodeByte(s[i])])

-----------------------------------------------------------------------------
(* Util::uriDecode: at an ill-formed escape it stops; its callers do not   *)
(* look at the result, and go on with what is there.                       *)

LetterValueOffByOne(c, first) == c - first + 11
LetterValueFromTen(c, first) == c - first + 10
LetterValue(c, first) == LetterValueFromTen(c, first)

HexValue(c) == CASE c \in Digits -> c - 48
                 [] c \in UpperHex -> LetterValue(c, 65)
                 [] c \in LowerHex -> LetterValue(c, 97)

IsEscape(s, i) ==
    /\ s[i] = Percent /\ i + 2 <= Len(s)
    /\ {s[i + 1], s[i + 2]} \subseteq Digits \cup UpperHex \cup LowerHex

(* A digit of an escape is no percent sign: escapes do not overlap, and    *)
(* the loop comes to every position but the digits of one.                 *)
Passed(s, i) == \E e \in {i - 2, i - 1} \cap DOMAIN s : IsEscape(s, e)

Decoded(s, i) ==
    IF Passed(s, i) THEN <<>>
    ELSE IF IsEscape(s, i) THEN <<HexValue(s[i + 1]) * 16 + HexValue(s[i + 2])>>
    ELSE <<s[i]>>

IllFormed(s) == {i \in DOMAIN s : s[i] = Percent /\ ~IsEscape(s, i)}
Stop(s) == Min(IllFormed(s) \cup {Len(s) + 1})

uriDecode(s) == FlattenSeq([i \in 1..Stop(s) - 1 |-> Decoded(s, i)])

-----------------------------------------------------------------------------
(* QueryImpl's conversions *)

(* The order of std::map, and its keys in it *)
Before(s, t) ==
    \E i \in DOMAIN t : /\ i <= Len(s) + 1
                        /\ \A j \in 1..i - 1 : s[j] = t[j]
                        /\ i <= Len(s) => s[i] < t[i]
Ascending(keys) ==
    CHOOSE k \in [1..Cardinality(keys) -> keys] :
        \A i, j \in 1..Cardinality(keys) : i < j => Before(k[i], k[j])

Pair(m, k) == uriEncode(k) \o <<Equals>> \o uriEncode(m[k])
flattenQueryMap(m) ==
    LET keys == Ascending(DOMAIN m)
    IN  FlattenSeq([i \in DOMAIN keys |->
            Pair(m, keys[i]) \o IF i < Len(keys) THEN <<Ampersand>> ELSE <<>>])

(* boost::split at the "&": a part follows 0 and each of them, and may be  *)
(* empty.                                                                  *)
Cuts(t) == {0} \cup {i \in DOMAIN t : t[i] = Ampersand}
NextCut(t, cut) == Min({i \in Cuts(t) : i > cut} \cup {Len(t) + 1})
PartAfter(t, cut) == SubSeq(t, cut + 1, NextCut(t, cut) - 1)

(* find_first_of('='); without one the key is the whole part, and so is    *)
(* the value, whose offset npos + 1 is 0.                                  *)
EqualsIn(p) == {i \in DOMAIN p : p[i] = Equals}
KeyIn(p) == IF EqualsIn(p) = {} THEN p ELSE SubSeq(p, 1, Min(EqualsIn(p)) - 1)
ValueIn(p) == IF EqualsIn(p) = {} THEN p ELSE SubSeq(p, Min(EqualsIn(p)) + 1, Len(p))

(* generateQueryMap: the first part with a name wins, and entries the map  *)
(* has already stay.                                                       *)
generateQueryMap(map, t) ==
    LET Key(cut) == uriDecode(KeyIn(PartAfter(t, cut)))
        First(k) == Min({cut \in Cuts(t) : Key(cut) = k})
    IN  [k \in DOMAIN map \cup {Key(cut) : cut \in Cuts(t)} |->
            IF k \in DOMAIN map THEN map[k]
            ELSE uriDecode(ValueIn(PartAfter(t, First(k))))]

-----------------------------------------------------------------------------
(* UrlImpl *)

(* boost::url throws at an ill-formed escape and at a character it does    *)
(* not allow, of which uriEncode leaves some alone ("#", "[", "]").        *)
Hash == 35
QueryChars == Unreserved \cup (36..44) \cup {33, 47, 58, 59, Equals, 63, 64}
Accepts(t) == IllFormed(t) = {} /\ \A i \in DOMAIN t : t[i] \in QueryChars

NewUrl == [query |-> <<>>, text |-> <<>>, map |-> EmptyMap]

(* UrlImpl::setQuery(map): QueryImpl's copies first; if boost::url refuses *)
(* the text, these stay changed and -1 is returned.                        *)
MapReplaced(u, m) == m
MapAmended(u, m) == [k \in DOMAIN u.map \cup DOMAIN m |->
                        IF k \in DOMAIN m THEN m[k] ELSE u.map[k]]
MapSet(u, m) == MapReplaced(u, m)

setQuery(u, m) ==
    LET t == flattenQueryMap(m)
    IN  [query |-> IF Accepts(t) THEN t ELSE u.query, text |-> t, map |-> MapSet(u, m)]

(* UrlImpl::setEncodedQuery: QueryImpl's copies only. *)
setEncodedQuery(u, t) ==
    [query |-> u.query, text |-> t, map |-> generateQueryMap(u.map, t)]

(* boost::url::set_encoded_url: that copy only, or an exception. A         *)
(* fragment may follow the query t says.                                   *)
FragmentAt(t) == Min({i \in DOMAIN t : t[i] = Hash} \cup {Len(t) + 1})
setEncodedUrl(u, t) ==
    LET query == SubSeq(t, 1, FragmentAt(t) - 1)
    IN  IF Accepts(query) /\ Accepts(SubSeq(t, FragmentAt(t) + 1, Len(t)))
        THEN [u EXCEPT !.query = query] ELSE u

(* UrlImpl::target: path, "?" and QueryImpl's text. *)
TargetOfUrl(u) == u.query
target(u) == u.text
=============================================================================
