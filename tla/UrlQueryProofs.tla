--------------------------- MODULE UrlQueryProofs ---------------------------
(***************************************************************************)
(* Theorems about UrlQuery, for strings of any bytes and any length and    *)
(* for maps of any size: what is encoded is decoded to the same bytes, and *)
(* what is written of a map is read as the same map. Loops over strings    *)
(* and maps need induction over data, which is done with sets: of the      *)
(* strings (or numbers) that a statement does not hold of, a least one is  *)
(* looked at.                                                              *)
(***************************************************************************)
EXTENDS UrlQuery, SequenceTheorems, FiniteSetTheorems, FunctionTheorems,
        WellFoundedInduction, TLAPS

(***************************************************************************)
(* Induction, and the joining of strings                                   *)
(***************************************************************************)

(* A set of numbers that is not empty has a least element: the loops of    *)
(* the code that look for the first position of something find one.        *)
LEMMA LeastNatural ==
  ASSUME NEW T, T \subseteq Nat, T # {}
  PROVE  \E x \in T : \A y \in T : x <= y
<1>1. \E x \in T : \A y \in T : <<y, x>> \notin OpToRel(<, Nat)
  BY WFMin, NatLessThanWellFounded
<1>2. PICK x \in T : \A y \in T : <<y, x>> \notin OpToRel(<, Nat)
  BY <1>1
<1>3. ASSUME NEW y \in T PROVE x <= y
  <2>1. x \in Nat /\ y \in Nat /\ <<y, x>> \in Nat \X Nat
    OBVIOUS
  <2>2. y < x => <<y, x>> \in OpToRel(<, Nat)
    BY <2>1 DEF OpToRel
  <2>3. ~(y < x)
    BY <1>2, <2>2
  <2>4. QED
    BY <2>1, <2>3
<1>4. QED
  BY <1>3

(* Induction over the numbers, of a set that is closed under the next one: *)
(* what does not hold of all of them fails first at a number whose         *)
(* predecessor it holds of.                                                *)
LEMMA NaturalsByInduction ==
  ASSUME NEW T, 0 \in T, \A n \in Nat : n \in T => n + 1 \in T
  PROVE  Nat \subseteq T
<1>1. SUFFICES ASSUME Nat \ T # {} PROVE FALSE
  OBVIOUS
<1>2. PICK x \in Nat \ T : \A y \in Nat \ T : x <= y
  BY <1>1, LeastNatural
<1>3. x # 0 /\ x - 1 \in Nat /\ x - 1 \in T
  BY <1>2
<1>4. QED
  BY <1>2, <1>3

(* Induction over strings, which the loops of the encoding build from the  *)
(* left: a set with the empty one, that is closed under appending, has     *)
(* them all.                                                               *)
LEMMA SequencesByInduction ==
  ASSUME NEW S, NEW T, <<>> \in T,
         \A s \in Seq(S), e \in S : s \in T => Append(s, e) \in T
  PROVE  Seq(S) \subseteq T
<1> DEFINE L == {n \in Nat : \A s \in Seq(S) : Len(s) = n => s \in T}
<1>1. 0 \in L
  BY EmptySeq
<1>2. ASSUME NEW n \in Nat, n \in L PROVE n + 1 \in L
  <2>1. SUFFICES ASSUME NEW s \in Seq(S), Len(s) = n + 1 PROVE s \in T
    OBVIOUS
  <2>2. s # <<>>
    BY <2>1, EmptySeq
  <2>3. PICK t \in Seq(S), e \in S : s = Append(t, e)
    BY <2>2, SequenceEmptyOrAppend
  <2>4. Len(t) = n
    BY <2>1, <2>3, AppendProperties, LenProperties
  <2>5. QED
    BY <1>2, <2>3, <2>4
<1>3. Nat \subseteq L
  <2> HIDE DEF L
  <2> QED BY <1>1, <1>2, NaturalsByInduction
<1>4. QED
  BY <1>3, LenProperties

(* What is joined so far, after each string *)
Steps(f, ss) == f = [i \in 1..Len(ss) |-> IF i = 1 THEN ss[i] ELSE f[i - 1] \o ss[i]]
Flattened(ss) == CHOOSE f : Steps(f, ss)

(* What is joined is the last of the strings so far. *)
LEMMA FlattenUnfolded ==
  ASSUME NEW S, NEW ss \in Seq(S), ss # <<>>
  PROVE  FlattenSeq(ss) = Flattened(ss)[Len(ss)]
BY EmptySeq, LenProperties DEF FlattenSeq, Flattened, Steps

(* One turn of the loop that joins. *)
LEMMA StepsAt ==
  ASSUME NEW ss, NEW f, Steps(f, ss), NEW i \in 1..Len(ss)
  PROVE  f[i] = IF i = 1 THEN ss[i] ELSE f[i - 1] \o ss[i]
<1> DEFINE h == [j \in 1..Len(ss) |-> IF j = 1 THEN ss[j] ELSE f[j - 1] \o ss[j]]
<1>1. f = h
  BY DEF Steps
<1>2. h[i] = IF i = 1 THEN ss[i] ELSE f[i - 1] \o ss[i]
  OBVIOUS
<1>3. QED
  <2> HIDE DEF h
  <2> QED BY <1>1, <1>2

(* That loop has a result after each turn, for every sequence of strings:  *)
(* the recursive function by which FlattenSeq is defined exists.           *)
LEMMA StepsExist ==
  ASSUME NEW S, NEW ss \in Seq(Seq(S))
  PROVE  \E f \in [1..Len(ss) -> Seq(S)] : Steps(f, ss)
<1> DEFINE G == {tt \in Seq(Seq(S)) : \E f \in [1..Len(tt) -> Seq(S)] : Steps(f, tt)}
<1>1. <<>> \in G
  <2>1. <<>> \in Seq(Seq(S)) /\ Len(<<>>) = 0
    BY EmptySeq
  <2> DEFINE f == [i \in 1..0 |-> IF i = 1 THEN <<>>[i] ELSE <<>> \o <<>>[i]]
  <2>2. f \in [1..0 -> Seq(S)]
    OBVIOUS
  <2>3. f = [i \in 1..0 |-> IF i = 1 THEN <<>>[i] ELSE f[i - 1] \o <<>>[i]]
    OBVIOUS
  <2>4. QED
    BY <2>1, <2>2, <2>3 DEF Steps
<1>2. ASSUME NEW tt \in Seq(Seq(S)), NEW s \in Seq(S), tt \in G
      PROVE  Append(tt, s) \in G
  <2> DEFINE n == Len(tt)
             u == Append(tt, s)
  <2>1. n \in Nat /\ u \in Seq(Seq(S)) /\ Len(u) = n + 1 /\ u[n + 1] = s
        /\ \A i \in 1..n : u[i] = tt[i] /\ tt[i] \in Seq(S)
    BY AppendProperties, LenProperties, ElementOfSeq
  <2>2. PICK f \in [1..n -> Seq(S)] : Steps(f, tt)
    BY <1>2
  <2> DEFINE last == IF n = 0 THEN s ELSE f[n] \o s
             g == [i \in 1..n + 1 |-> IF i <= n THEN f[i] ELSE last]
  <2> HIDE DEF n, u
  <2>3. last \in Seq(S)
    BY <2>1, <2>2, ConcatProperties
  <2>4. g \in [1..n + 1 -> Seq(S)]
    BY <2>3, <2>1, <2>2
  <2>5. ASSUME NEW i \in 1..n + 1
        PROVE  g[i] = IF i = 1 THEN u[i] ELSE g[i - 1] \o u[i]
    <3>1. CASE i <= n
      <4>0. i \in 1..n /\ (i # 1 => i - 1 \in 1..n + 1 /\ i - 1 <= n)
        BY <3>1, <2>1
      <4>1. g[i] = f[i] /\ u[i] = tt[i] /\ (i # 1 => g[i - 1] = f[i - 1])
        BY <4>0, <3>1, <2>1
      <4>2. f[i] = IF i = 1 THEN tt[i] ELSE f[i - 1] \o tt[i]
        BY <4>0, <2>2, StepsAt DEF n
      <4>3. QED
        BY <4>1, <4>2
    <3>2. CASE i = n + 1
      BY <3>2, <2>1
    <3>3. QED
      BY <3>1, <3>2, <2>1
  <2>6. Steps(g, u)
    BY <2>1, <2>4, <2>5 DEF Steps
  <2>7. QED
    BY <2>1, <2>4, <2>6 DEF u
<1>3. Seq(Seq(S)) \subseteq G
  <2> HIDE DEF G
  <2> QED BY <1>1, <1>2, SequencesByInduction
<1>4. QED
  BY <1>3

(* Of two sequences, one of which starts with the other, the loop joins    *)
(* the same as far as the shorter one goes.                                *)
LEMMA StepsAgree ==
  ASSUME NEW ss, NEW tt, NEW f, NEW g, Steps(f, ss), Steps(g, tt),
         Len(ss) \in Nat, Len(tt) \in Nat, Len(ss) <= Len(tt),
         \A i \in 1..Len(ss) : ss[i] = tt[i]
  PROVE  \A i \in 1..Len(ss) : f[i] = g[i]
<1> DEFINE T == {i \in 1..Len(ss) : f[i] # g[i]}
<1>1. SUFFICES ASSUME T # {} PROVE FALSE
  OBVIOUS
<1>a. T \subseteq Nat
  OBVIOUS
<1>2. PICK x \in T : \A y \in T : x <= y
  <2> HIDE DEF T
  <2> QED BY <1>1, <1>a, LeastNatural
<1>3. /\ f[x] = IF x = 1 THEN ss[x] ELSE f[x - 1] \o ss[x]
      /\ g[x] = IF x = 1 THEN tt[x] ELSE g[x - 1] \o tt[x]
  <2>1. x \in 1..Len(ss) /\ x \in 1..Len(tt)
    OBVIOUS
  <2>2. QED
    BY <2>1, StepsAt
<1>4. x # 1 => f[x - 1] = g[x - 1]
  BY <1>2
<1>5. QED
  BY <1>2, <1>3, <1>4

(* Strings joined are a string, and nothing joined is the empty one. *)
LEMMA FlattenOne ==
  ASSUME NEW S, NEW ss \in Seq(Seq(S))
  PROVE  /\ FlattenSeq(<<>>) = <<>>
         /\ ss # <<>> => Steps(Flattened(ss), ss)
         /\ FlattenSeq(ss) \in Seq(S)
<1>1. FlattenSeq(<<>>) = <<>>
  BY EmptySeq DEF FlattenSeq
<1>2. PICK f \in [1..Len(ss) -> Seq(S)] : Steps(f, ss)
  BY StepsExist
<1>3. Steps(Flattened(ss), ss)
  BY <1>2 DEF Flattened
<1>4. Len(ss) \in Nat
  BY LenProperties
<1>5. CASE ss # <<>>
  <2>1. Len(ss) \in 1..Len(ss)
    BY <1>5, EmptySeq
  <2>2. Flattened(ss)[Len(ss)] = f[Len(ss)]
    <3>1. \A i \in 1..Len(ss) : Flattened(ss)[i] = f[i]
      BY <1>2, <1>3, <1>4, StepsAgree
    <3>2. QED
      BY <2>1, <3>1
  <2>3. QED
    BY <1>1, <1>2, <1>3, <2>1, <2>2, <1>5, FlattenUnfolded
<1>6. QED
  BY <1>1, <1>3, <1>5, EmptySeq

(* One more string is joined at the end: std::string::append. *)
LEMMA FlattenAppend ==
  ASSUME NEW S, NEW ss \in Seq(Seq(S)), NEW s \in Seq(S)
  PROVE  FlattenSeq(Append(ss, s)) = FlattenSeq(ss) \o s
<1> DEFINE n == Len(ss)
           u == Append(ss, s)
<1>1. n \in Nat /\ u \in Seq(Seq(S)) /\ u # <<>> /\ Len(u) = n + 1 /\ u[n + 1] = s
      /\ \A i \in 1..n : u[i] = ss[i]
  BY AppendProperties, LenProperties
<1> HIDE DEF u
<1>2. Steps(Flattened(u), u)
  BY <1>1, FlattenOne
<1>3. FlattenSeq(u) = Flattened(u)[n + 1]
  BY <1>1, FlattenUnfolded
<1>4. Flattened(u)[n + 1] = IF n + 1 = 1 THEN s ELSE Flattened(u)[n] \o s
  BY <1>1, <1>2, StepsAt
<1>5. CASE ss = <<>>
  <2>1. n = 0 /\ FlattenSeq(ss) = <<>>
    BY <1>5, EmptySeq, FlattenOne
  <2>2. FlattenSeq(ss) \o s = s
    BY <2>1, ConcatEmptySeq
  <2>3. QED
    BY <1>3, <1>4, <2>1, <2>2 DEF u
<1>6. CASE ss # <<>>
  <2>1. n # 0 /\ n \in 1..n
    BY <1>6, <1>1, EmptySeq
  <2>2. Steps(Flattened(ss), ss)
    BY <1>6, FlattenOne
  <2>3. Flattened(ss)[n] = Flattened(u)[n]
    <3>1. \A i \in 1..n : Flattened(ss)[i] = Flattened(u)[i]
      <4>1. /\ Len(ss) \in Nat /\ Len(u) \in Nat /\ Len(ss) <= Len(u)
            /\ \A i \in 1..Len(ss) : ss[i] = u[i]
        BY <1>1
      <4>2. QED
        BY <4>1, <1>2, <2>2, StepsAgree
    <3>2. QED
      BY <2>1, <3>1
  <2>4. FlattenSeq(ss) = Flattened(ss)[n]
    BY <1>6, FlattenUnfolded
  <2>5. QED
    BY <1>1, <1>3, <1>4, <2>1, <2>3, <2>4 DEF u
<1>7. QED
  BY <1>5, <1>6

-----------------------------------------------------------------------------
(***************************************************************************)
(* Util::uriEncode and Util::uriDecode                                     *)
(***************************************************************************)

(* Digits, and the bytes of encoded text without and with separators *)
Hex == Digits \cup UpperHex \cup LowerHex
Printable == 33..126
Plain == Printable \ {Ampersand, Equals}

(* The digits Util::uriEncode writes are read by Util::uriDecode as the    *)
(* number they were written for.                                           *)
LEMMA HexDigitIsHex ==
  ASSUME NEW n \in 0..15
  PROVE  HexDigit(n) \in Digits \cup UpperHex /\ HexValue(HexDigit(n)) = n
<1>1. CASE n < 10
  <2>1. HexDigit(n) = 48 + n /\ 48 + n \in Digits
    BY <1>1 DEF HexDigit, Digits
  <2>2. 48 + n \notin UpperHex \cup LowerHex
    BY <1>1 DEF UpperHex, LowerHex
  <2>3. HexValue(48 + n) = n
    BY <2>1, <2>2, <1>1 DEF HexValue
  <2>4. QED
    BY <2>1, <2>3
<1>2. CASE n >= 10
  <2>1. HexDigit(n) = 55 + n /\ 55 + n \in UpperHex
    BY <1>2 DEF HexDigit, UpperHex
  <2>2. 55 + n \notin Digits \cup LowerHex
    BY <1>2 DEF Digits, LowerHex
  <2>3. HexValue(55 + n) = n
    BY <2>1, <2>2, <1>2 DEF HexValue, LetterValue, LetterValueFromTen
  <2>4. QED
    BY <2>1, <2>3
<1>3. QED
  BY <1>1, <1>2

(* A digit has a value below 16, in either case of letter. *)
LEMMA HexValueOfHex ==
  ASSUME NEW c \in Hex
  PROVE  HexValue(c) \in 0..15
<1>1. CASE c \in Digits
  <2>1. c \notin UpperHex \cup LowerHex
    BY <1>1 DEF Digits, UpperHex, LowerHex
  <2>2. HexValue(c) = c - 48
    BY <2>1, <1>1 DEF HexValue
  <2>3. QED
    BY <1>1, <2>2 DEF Digits
<1>2. CASE c \in UpperHex
  <2>1. c \notin Digits \cup LowerHex
    BY <1>2 DEF Digits, UpperHex, LowerHex
  <2>2. HexValue(c) = c - 55
    BY <2>1, <1>2 DEF HexValue, LetterValue, LetterValueFromTen, UpperHex
  <2>3. QED
    BY <1>2, <2>2 DEF UpperHex
<1>3. CASE c \in LowerHex
  <2>1. c \notin Digits \cup UpperHex
    BY <1>3 DEF Digits, UpperHex, LowerHex
  <2>2. HexValue(c) = c - 87
    BY <2>1, <1>3 DEF HexValue, LetterValue, LetterValueFromTen, LowerHex
  <2>3. QED
    BY <1>3, <2>2 DEF LowerHex
<1>4. QED
  BY <1>1, <1>2, <1>3 DEF Hex

(* A digit is a byte a target may have, and not a percent sign. *)
LEMMA HexIsPlain ==
  ASSUME NEW c \in Digits \cup UpperHex
  PROVE  c \in Plain /\ c \in Hex /\ c # Percent /\ c \in Byte
BY DEF Digits, UpperHex, Plain, Printable, Hex, Percent, Byte, Ampersand, Equals

(* An escape is a percent sign and two digits of the byte's value, also    *)
(* for a byte below 16.                                                    *)
LEMMA EscapedIsPlain ==
  ASSUME NEW c \in Byte
  PROVE  \E h, l \in Hex : /\ Escaped(c) = <<Percent, h, l>>
                           /\ h \in Plain /\ l \in Plain /\ h # Percent /\ l # Percent
                           /\ h \in Byte /\ l \in Byte
                           /\ HexValue(h) * 16 + HexValue(l) = c
<1>1. c \div 16 \in 0..15 /\ c % 16 \in 0..15 /\ (c \div 16) * 16 + (c % 16) = c
  BY DEF Byte
<1> DEFINE h == HexDigit(c \div 16)
           l == HexDigit(c % 16)
<1>2. /\ h \in Digits \cup UpperHex /\ HexValue(h) = c \div 16
      /\ l \in Digits \cup UpperHex /\ HexValue(l) = c % 16
  BY <1>1, HexDigitIsHex
<1>3. Escaped(c) = <<Percent, h, l>>
  BY DEF Escaped, EscapedTwoDigits
<1> HIDE DEF h, l
<1>4. h \in Plain /\ l \in Plain /\ h \in Hex /\ l \in Hex /\ h # Percent
        /\ l # Percent
      /\ h \in Byte /\ l \in Byte
  BY <1>2, HexIsPlain
<1>5. HexValue(h) * 16 + HexValue(l) = c
  BY <1>1, <1>2
<1>6. QED
  BY <1>3, <1>4, <1>5

(* A byte Util::uriEncode leaves alone is a printable one, and neither a   *)
(* percent sign nor a separator of the query.                              *)
LEMMA UnescapedIsPlain ==
  ASSUME NEW c \in Byte, EncodeByte(c) # Escaped(c)
  PROVE  EncodeByte(c) = <<c>> /\ c \in Plain /\ c # Percent
<1>1. EncodeByte(c) = <<c>>
      /\ (c \in Unreserved \/ c \notin Unprintable \cup IllegalChars \cup Reserved)
  BY DEF EncodeByte
<1>2. CASE c \in Unreserved
  BY <1>1, <1>2 DEF Unreserved, Digits, Plain, Printable, Percent, Ampersand, Equals
<1>3. CASE c \notin Unprintable \cup IllegalChars \cup Reserved
  <2>1. c \in Printable
    BY <1>3 DEF Unprintable, NotPrintable, Printable, Byte
  <2>2. c \notin {Ampersand, Equals} /\ c # Percent
    BY <1>3 DEF Reserved, IllegalChars
  <2>3. QED
    BY <1>1, <2>1, <2>2 DEF Plain
<1>4. QED
  BY <1>1, <1>2, <1>3

(* Every percent sign starts an escape. *)
WellFormed(t) == \A i \in DOMAIN t : t[i] = Percent => IsEscape(t, i)
Pieces(t) == [i \in 1..Len(t) |-> Decoded(t, i)]

(* An escape lies in the text and stands for a byte. *)
LEMMA EscapeFacts ==
  ASSUME NEW t \in Seq(Byte), NEW i \in 1..Len(t), IsEscape(t, i)
  PROVE  /\ i + 2 <= Len(t) /\ t[i] = Percent
         /\ t[i + 1] \in Hex /\ t[i + 2] \in Hex
         /\ HexValue(t[i + 1]) * 16 + HexValue(t[i + 2]) \in Byte
<1>1. i + 2 <= Len(t) /\ t[i] = Percent /\ t[i + 1] \in Hex /\ t[i + 2] \in Hex
  BY DEF IsEscape, Hex
<1>2. HexValue(t[i + 1]) \in 0..15 /\ HexValue(t[i + 2]) \in 0..15
  BY <1>1, HexValueOfHex
<1> DEFINE h == HexValue(t[i + 1])
           l == HexValue(t[i + 2])
<1>3. h * 16 + l \in Byte
  <2>1. h \in 0..15 /\ l \in 0..15
    BY <1>2
  <2> HIDE DEF h, l
  <2>2. QED
    BY <2>1 DEF Byte
<1>4. QED
  BY <1>1, <1>3

(* Every position of a text is decoded to bytes, whatever the text. *)
LEMMA DecodedIsBytes ==
  ASSUME NEW t \in Seq(Byte), NEW i \in 1..Len(t)
  PROVE  Decoded(t, i) \in Seq(Byte)
<1>1. t[i] \in Byte
  BY ElementOfSeq
<1>2. \A b \in Byte : <<b>> \in Seq(Byte)
  OBVIOUS
<1>3. <<>> \in Seq(Byte)
  BY EmptySeq
<1>4. IsEscape(t, i) => HexValue(t[i + 1]) * 16 + HexValue(t[i + 2]) \in Byte
  BY EscapeFacts
<1>5. QED
  BY <1>1, <1>2, <1>3, <1>4 DEF Decoded

(* Util::uriDecode stops at a position of the text or at its end; at its   *)
(* end if every percent sign starts an escape.                             *)
LEMMA StopInText ==
  ASSUME NEW t \in Seq(Byte)
  PROVE  Stop(t) \in 1..Len(t) + 1 /\ (WellFormed(t) => Stop(t) = Len(t) + 1)
<1> DEFINE T == IllFormed(t) \cup {Len(t) + 1}
<1>1. Len(t) \in Nat /\ DOMAIN t = 1..Len(t)
  BY LenProperties
<1>2. T \subseteq 1..Len(t) + 1 /\ T \subseteq Nat /\ T # {}
  BY <1>1 DEF IllFormed
<1>3. \E x \in T : \A y \in T : x <= y
  <2> HIDE DEF T
  <2> QED BY <1>2, LeastNatural
<1>4. Min(T) \in T
  BY <1>3 DEF Min
<1>5. WellFormed(t) => T = {Len(t) + 1}
  BY DEF WellFormed, IllFormed
<1>6. Stop(t) = Min(T)
  BY DEF Stop
<1>7. QED
  <2> HIDE DEF T
  <2> QED BY <1>2, <1>4, <1>5, <1>6

(* What Util::uriDecode leaves in its result is a string, also of an ill-  *)
(* formed text.                                                            *)
LEMMA DecodeIsBytes ==
  ASSUME NEW t \in Seq(Byte)
  PROVE  uriDecode(t) \in Seq(Byte)
<1> DEFINE n == Stop(t) - 1
           p == [i \in 1..n |-> Decoded(t, i)]
<1>1. n \in Nat /\ n <= Len(t) /\ Len(t) \in Nat
  BY StopInText, LenProperties
<1>2. \A i \in 1..n : Decoded(t, i) \in Seq(Byte)
  BY <1>1, DecodedIsBytes
<1>3. p \in Seq(Seq(Byte))
  <2> HIDE DEF n
  <2> QED BY <1>1, <1>2
<1>4. uriDecode(t) = FlattenSeq(p)
  BY DEF uriDecode
<1>5. QED
  <2> HIDE DEF p
  <2> QED BY <1>3, <1>4, FlattenOne

(* A well-formed text is decoded to its end, position by position. *)
LEMMA DecodeWellFormed ==
  ASSUME NEW t \in Seq(Byte), WellFormed(t)
  PROVE  /\ uriDecode(t) = FlattenSeq(Pieces(t))
         /\ Pieces(t) \in Seq(Seq(Byte)) /\ Len(Pieces(t)) = Len(t)
<1>1. Len(t) \in Nat /\ Stop(t) - 1 = Len(t)
  BY StopInText, LenProperties
<1>2. uriDecode(t) = FlattenSeq(Pieces(t))
  BY <1>1 DEF uriDecode, Pieces
<1>3. \A i \in 1..Len(t) : Decoded(t, i) \in Seq(Byte)
  BY DecodedIsBytes
<1>4. Pieces(t) \in Seq(Seq(Byte)) /\ Len(Pieces(t)) = Len(t)
  BY <1>1, <1>3 DEF Pieces
<1>5. QED
  BY <1>2, <1>4

(* What follows a well-formed text changes nothing of how it is decoded:   *)
(* no escape reaches over its end.                                         *)
LEMMA EscapesOfPrefix ==
  ASSUME NEW t \in Seq(Byte), NEW u \in Seq(Byte), WellFormed(t),
         NEW i \in 1..Len(t)
  PROVE  /\ IsEscape(t \o u, i) <=> IsEscape(t, i)
         /\ Decoded(t \o u, i) = Decoded(t, i)
<1> DEFINE v == t \o u
<1>1. /\ Len(t) \in Nat /\ Len(u) \in Nat /\ DOMAIN t = 1..Len(t)
      /\ v \in Seq(Byte) /\ Len(v) = Len(t) + Len(u) /\ DOMAIN v = 1..Len(v)
      /\ \A j \in 1..Len(t) : v[j] = t[j]
  BY LenProperties, ConcatProperties
<1> HIDE DEF v
<1>2. ASSUME NEW j \in 1..Len(t) PROVE IsEscape(v, j) <=> IsEscape(t, j)
  <2>1. v[j] = t[j]
    BY <1>1
  <2>2. CASE t[j] = Percent
    <3>1. IsEscape(t, j)
      BY <2>2, <1>1 DEF WellFormed
    <3>2. j + 2 <= Len(t) /\ j + 1 \in 1..Len(t) /\ j + 2 \in 1..Len(t)
      BY <3>1, <1>1 DEF IsEscape
    <3>3. v[j + 1] = t[j + 1] /\ v[j + 2] = t[j + 2] /\ j + 2 <= Len(v)
      BY <3>2, <1>1
    <3>4. IsEscape(v, j)
      BY <3>1, <3>3, <2>1 DEF IsEscape
    <3>5. QED
      BY <3>1, <3>4
  <2>3. CASE t[j] # Percent
    BY <2>1, <2>3 DEF IsEscape
  <2>4. QED
    BY <2>2, <2>3
<1>3. Passed(v, i) <=> Passed(t, i)
  <2>1. \A j \in {i - 2, i - 1} : j \in DOMAIN v <=> j \in DOMAIN t
    BY <1>1
  <2>2. QED
    BY <1>1, <1>2, <2>1 DEF Passed
<1>4. IsEscape(t, i) => v[i + 1] = t[i + 1] /\ v[i + 2] = t[i + 2]
  BY <1>1 DEF IsEscape
<1>5. Decoded(v, i) = Decoded(t, i)
  BY <1>1, <1>2, <1>3, <1>4 DEF Decoded
<1>6. QED
  BY <1>2, <1>5 DEF v

(* Decoding goes on with a byte that is no percent sign. *)
LEMMA DecodeChar ==
  ASSUME NEW t \in Seq(Byte), WellFormed(t), NEW c \in Byte, c # Percent
  PROVE  /\ WellFormed(t \o <<c>>)
         /\ uriDecode(t \o <<c>>) = uriDecode(t) \o <<c>>
<1> DEFINE n == Len(t)
           v == t \o <<c>>
<1>1. /\ n \in Nat /\ DOMAIN t = 1..n /\ <<c>> \in Seq(Byte)
      /\ v \in Seq(Byte) /\ Len(v) = n + 1 /\ DOMAIN v = 1..n + 1
      /\ v[n + 1] = c /\ \A j \in 1..n : v[j] = t[j]
  BY LenProperties, ConcatProperties
<1>2. \A i \in 1..n : (IsEscape(v, i) <=> IsEscape(t, i))
        /\ Decoded(v, i) = Decoded(t, i)
  BY <1>1, EscapesOfPrefix
<1> HIDE DEF n, v
<1>3. WellFormed(v)
  BY <1>1, <1>2 DEF WellFormed
<1>4. Decoded(v, n + 1) = <<c>>
  <2>1. ~IsEscape(v, n + 1)
    BY <1>1 DEF IsEscape
  <2>2. ~Passed(v, n + 1)
    <3>1. SUFFICES ASSUME NEW e \in {n - 1, n} \cap DOMAIN v, IsEscape(v,
                           e) PROVE FALSE
      BY <1>1 DEF Passed
    <3>2. e \in 1..n /\ IsEscape(t, e)
      BY <1>1, <1>2, <3>1
    <3>3. e + 2 <= n
      BY <3>2, <1>1 DEF IsEscape, n
    <3>4. QED
      BY <3>1, <3>3, <1>1
  <2>3. QED
    BY <2>1, <2>2, <1>1 DEF Decoded
<1>5. Pieces(v) = Append(Pieces(t), <<c>>)
  BY <1>1, <1>2, <1>4 DEF Pieces, n
<1>6. FlattenSeq(Append(Pieces(t), <<c>>)) = FlattenSeq(Pieces(t)) \o <<c>>
  BY <1>1, DecodeWellFormed, FlattenAppend
<1>7. QED
  BY <1>1, <1>3, <1>5, <1>6, DecodeWellFormed DEF v

(* Decoding goes on with an escape, and passes over its digits. *)
LEMMA DecodeEscape ==
  ASSUME NEW t \in Seq(Byte), WellFormed(t),
         NEW h \in Hex, NEW l \in Hex, h # Percent, l # Percent, h \in Byte,
          l \in Byte
  PROVE  /\ WellFormed(t \o <<Percent, h, l>>)
         /\ uriDecode(t \o <<Percent, h,
             l>>) = uriDecode(t) \o <<HexValue(h) * 16 + HexValue(l)>>
<1> DEFINE n == Len(t)
           v == t \o <<Percent, h, l>>
           b == HexValue(h) * 16 + HexValue(l)
<1>0. Percent \in Byte
  BY DEF Percent, Byte
<1>1. /\ n \in Nat /\ DOMAIN t = 1..n /\ <<Percent, h, l>> \in Seq(Byte)
      /\ v \in Seq(Byte) /\ Len(v) = n + 3 /\ DOMAIN v = 1..n + 3
      /\ v[n + 1] = Percent /\ v[n + 2] = h /\ v[n + 3] = l
      /\ \A j \in 1..n : v[j] = t[j]
  BY <1>0, LenProperties, ConcatProperties
<1>2. \A i \in 1..n : (IsEscape(v, i) <=> IsEscape(t, i))
        /\ Decoded(v, i) = Decoded(t, i)
  BY <1>1, EscapesOfPrefix
<1> HIDE DEF n, v
<1>3. IsEscape(v, n + 1) /\ ~IsEscape(v, n + 2) /\ ~IsEscape(v, n + 3)
  BY <1>1 DEF IsEscape, Hex
<1>4. WellFormed(v)
  <2>1. SUFFICES ASSUME NEW i \in 1..n + 3, v[i] = Percent PROVE IsEscape(v, i)
    BY <1>1 DEF WellFormed
  <2>2. CASE i \in 1..n
    BY <2>2, <2>1, <1>1, <1>2 DEF WellFormed
  <2>3. CASE i \in {n + 1, n + 2, n + 3}
    BY <2>3, <2>1, <1>1, <1>3
  <2>4. QED
    BY <2>2, <2>3, <1>1
<1>5. ~Passed(v, n + 1)
  <2>1. SUFFICES ASSUME NEW e \in {n - 1, n} \cap DOMAIN v, IsEscape(v, e) PROVE FALSE
    BY <1>1 DEF Passed
  <2>2. e \in 1..n /\ IsEscape(t, e)
    BY <1>1, <1>2, <2>1
  <2>3. e + 2 <= n
    BY <2>2, <1>1 DEF IsEscape, n
  <2>4. QED
    BY <2>1, <2>3, <1>1
<1>6. Passed(v, n + 2) /\ Passed(v, n + 3)
  <2>1. ASSUME NEW m \in Nat, n + 1 = m - 2 \/ n + 1 = m - 1 PROVE Passed(v, m)
    <3>1. n + 1 \in {m - 2, m - 1} \cap DOMAIN v
      BY <2>1, <1>1
    <3>2. QED
      BY <3>1, <1>3 DEF Passed
  <2>2. Passed(v, n + 2)
    <3> DEFINE m == n + 2
    <3>1. m \in Nat /\ n + 1 = m - 1
      BY <1>1
    <3> HIDE DEF m
    <3>2. Passed(v, m)
      BY <2>1, <3>1
    <3>3. QED
      BY <3>2 DEF m
  <2>3. Passed(v, n + 3)
    <3> DEFINE m == n + 3
    <3>1. m \in Nat /\ n + 1 = m - 2
      BY <1>1
    <3> HIDE DEF m
    <3>2. Passed(v, m)
      BY <2>1, <3>1
    <3>3. QED
      BY <3>2 DEF m
  <2>4. QED
    BY <2>2, <2>3
<1>7. Decoded(v, n + 1) = <<b>>
  <2>1. n + 1 + 1 = n + 2 /\ n + 1 + 2 = n + 3
    BY <1>1
  <2>2. QED
    BY <2>1, <1>1, <1>3, <1>5 DEF Decoded
<1>8. Decoded(v, n + 2) = <<>> /\ Decoded(v, n + 3) = <<>>
  BY <1>6 DEF Decoded
<1>9. b \in Byte
  <2>1. HexValue(h) \in 0..15 /\ HexValue(l) \in 0..15
    BY HexValueOfHex
  <2>2. \A x, y \in 0..15 : x * 16 + y \in Byte
    BY DEF Byte
  <2>3. QED
    BY <2>1, <2>2
<1> HIDE DEF b
<1> DEFINE p == Append(Pieces(t), <<b>>)
           q == Append(p, <<>>)
<1>10. Pieces(t) \in Seq(Seq(Byte)) /\ Len(Pieces(t)) = n
         /\ uriDecode(t) = FlattenSeq(Pieces(t))
  BY DecodeWellFormed DEF n
<1>11. <<b>> \in Seq(Byte) /\ <<>> \in Seq(Byte)
  BY <1>9, EmptySeq
<1>12. p \in Seq(Seq(Byte)) /\ q \in Seq(Seq(Byte))
  BY <1>10, <1>11, AppendProperties
<1>13. Pieces(v) = Append(q, <<>>)
  <2>1. Pieces(v) = [i \in 1..n + 3 |-> Decoded(v, i)]
    BY <1>1 DEF Pieces
  <2>2. Pieces(t) = [i \in 1..n |-> Decoded(t, i)]
    BY DEF Pieces, n
  <2>3. QED
    BY <2>1, <2>2, <1>1, <1>2, <1>7, <1>8
<1>14. FlattenSeq(Append(q, <<>>)) = FlattenSeq(q) \o <<>>
  BY <1>11, <1>12, FlattenAppend
<1>15. FlattenSeq(q) = FlattenSeq(p) \o <<>>
  BY <1>11, <1>12, FlattenAppend
<1>16. FlattenSeq(p) = FlattenSeq(Pieces(t)) \o <<b>>
  BY <1>10, <1>11, FlattenAppend
<1>17. FlattenSeq(q) \in Seq(Byte) /\ FlattenSeq(p) \in Seq(Byte)
  BY <1>12, FlattenOne
<1>18. FlattenSeq(Append(q, <<>>)) = FlattenSeq(Pieces(t)) \o <<b>>
  BY <1>14, <1>15, <1>16, <1>17, ConcatEmptySeq
<1>19. uriDecode(v) = FlattenSeq(Append(q, <<>>))
  BY <1>1, <1>4, <1>13, DecodeWellFormed
<1>20. QED
  BY <1>4, <1>10, <1>18, <1>19 DEF v, b

(* Plain text is text. *)
LEMMA PlainIsByte ==
  Plain \subseteq Byte /\ Seq(Plain) \subseteq Seq(Byte)
<1>1. Plain \subseteq Byte
  BY DEF Plain, Printable, Byte
<1>2. QED
  BY <1>1, SeqMonotonic

(* What is written for one byte is plain. *)
LEMMA EncodeByteIsPlain ==
  ASSUME NEW c \in Byte
  PROVE  EncodeByte(c) \in Seq(Plain)
<1>1. CASE EncodeByte(c) = Escaped(c)
  <2>1. PICK h, l \in Hex : Escaped(c) = <<Percent, h, l>> /\ h \in Plain
          /\ l \in Plain
    BY EscapedIsPlain
  <2>2. Percent \in Plain
    BY DEF Percent, Plain, Printable, Ampersand, Equals
  <2>3. QED
    BY <1>1, <2>1, <2>2
<1>2. CASE EncodeByte(c) # Escaped(c)
  <2>1. EncodeByte(c) = <<c>> /\ c \in Plain
    BY <1>2, UnescapedIsPlain
  <2>2. \A b \in Plain : <<b>> \in Seq(Plain)
    OBVIOUS
  <2>3. QED
    BY <2>1, <2>2
<1>3. QED
  BY <1>1, <1>2

(* What is written for each byte of a name or value *)
Codes(s) == [i \in DOMAIN s |-> EncodeByte(s[i])]

(* uriEncode joins what is written for each byte. *)
LEMMA CodesArePlain ==
  ASSUME NEW s \in Seq(Byte)
  PROVE  Codes(s) \in Seq(Seq(Plain)) /\ Len(Codes(s)) = Len(s)
           /\ uriEncode(s) = FlattenSeq(Codes(s))
<1>1. Len(s) \in Nat /\ DOMAIN s = 1..Len(s) /\ \A i \in 1..Len(s) : s[i] \in Byte
  BY LenProperties, ElementOfSeq
<1>2. \A i \in 1..Len(s) : EncodeByte(s[i]) \in Seq(Plain)
  BY <1>1, EncodeByteIsPlain
<1>3. QED
  BY <1>1, <1>2 DEF Codes, uriEncode

(* No encoded name or value has a separator of the query, a blank, a       *)
(* control character or a byte above 126.                                  *)
LEMMA EncodeIsPlain ==
  ASSUME NEW s \in Seq(Byte)
  PROVE  uriEncode(s) \in Seq(Plain)
BY CodesArePlain, FlattenOne

(* Encoding goes on byte by byte. *)
LEMMA EncodeAppend ==
  ASSUME NEW s \in Seq(Byte), NEW c \in Byte
  PROVE  uriEncode(Append(s, c)) = uriEncode(s) \o EncodeByte(c)
<1>1. /\ Append(s, c) \in Seq(Byte) /\ Len(s) \in Nat
           /\ Len(Append(s, c)) = Len(s) + 1
      /\ DOMAIN s = 1..Len(s) /\ DOMAIN Append(s, c) = 1..Len(s) + 1
      /\ \A i \in 1..Len(s) : Append(s, c)[i] = s[i]
      /\ Append(s, c)[Len(s) + 1] = c
  BY AppendProperties, LenProperties
<1>2. Codes(Append(s, c)) = Append(Codes(s), EncodeByte(c))
  BY <1>1 DEF Codes
<1>3. Codes(s) \in Seq(Seq(Plain)) /\ EncodeByte(c) \in Seq(Plain)
  BY CodesArePlain, EncodeByteIsPlain
<1>4. FlattenSeq(Append(Codes(s),
       EncodeByte(c))) = FlattenSeq(Codes(s)) \o EncodeByte(c)
  BY <1>3, FlattenAppend
<1>5. QED
  BY <1>1, <1>2, <1>4, CodesArePlain

(* Nothing is encoded and decoded to nothing. *)
LEMMA EmptyTexts ==
  /\ uriEncode(<<>>) = <<>>
  /\ WellFormed(<<>>) /\ uriDecode(<<>>) = <<>>
<1>1. <<>> \in Seq(Byte) /\ Len(<<>>) = 0 /\ DOMAIN <<>> = {}
  BY EmptySeq, LenProperties
<1>2. Codes(<<>>) = <<>>
  BY <1>1 DEF Codes
<1>3. uriEncode(<<>>) = FlattenSeq(<<>>)
  BY <1>1, <1>2, CodesArePlain
<1>4. WellFormed(<<>>)
  BY <1>1 DEF WellFormed
<1>5. Pieces(<<>>) = <<>>
  BY <1>1 DEF Pieces
<1>6. uriDecode(<<>>) = FlattenSeq(<<>>)
  BY <1>1, <1>4, <1>5, DecodeWellFormed
<1>7. FlattenSeq(<<>>) = <<>>
  BY <1>1, FlattenOne, EmptySeq
<1>8. QED
  BY <1>3, <1>4, <1>6, <1>7

(* Util::uriDecode gives back what Util::uriEncode was given, whatever     *)
(* bytes it has: zero, percent signs and bytes above 127 among them.       *)
THEOREM DecodeUndoesEncode ==
  \A s \in Seq(Byte) : WellFormed(uriEncode(s)) /\ uriDecode(uriEncode(s)) = s
<1> DEFINE G == {s \in Seq(Byte) : WellFormed(uriEncode(s))
  /\ uriDecode(uriEncode(s)) = s}
<1>1. <<>> \in G
  BY EmptyTexts, EmptySeq
<1>2. ASSUME NEW s \in Seq(Byte), NEW c \in Byte, s \in G
      PROVE  Append(s, c) \in G
  <2> DEFINE t == uriEncode(s)
  <2>1. t \in Seq(Byte)
    BY EncodeIsPlain, PlainIsByte
  <2>2. WellFormed(t) /\ uriDecode(t) = s
    BY <1>2
  <2>3. uriEncode(Append(s, c)) = t \o EncodeByte(c)
    BY EncodeAppend
  <2>4. Append(s, c) = s \o <<c>> /\ Append(s, c) \in Seq(Byte)
    BY AppendIsConcat, AppendProperties
  <2> HIDE DEF t
  <2>5. CASE EncodeByte(c) = Escaped(c)
    <3>1. PICK h, l \in Hex : /\ Escaped(c) = <<Percent, h, l>>
                              /\ h # Percent /\ l # Percent /\ h \in Byte
                                   /\ l \in Byte
                              /\ HexValue(h) * 16 + HexValue(l) = c
      BY EscapedIsPlain
    <3>2. /\ WellFormed(t \o <<Percent, h, l>>)
          /\ uriDecode(t \o <<Percent, h, l>>) = uriDecode(t) \o <<c>>
      BY <2>1, <2>2, <3>1, DecodeEscape
    <3>3. QED
      BY <2>2, <2>3, <2>4, <2>5, <3>1, <3>2
  <2>6. CASE EncodeByte(c) # Escaped(c)
    <3>1. EncodeByte(c) = <<c>> /\ c # Percent
      BY <2>6, UnescapedIsPlain
    <3>2. WellFormed(t \o <<c>>) /\ uriDecode(t \o <<c>>) = uriDecode(t) \o <<c>>
      BY <2>1, <2>2, <3>1, DecodeChar
    <3>3. QED
      BY <2>2, <2>3, <2>4, <3>1, <3>2
  <2>7. QED
    BY <2>5, <2>6
<1>3. Seq(Byte) \subseteq G
  <2> HIDE DEF G
  <2> QED BY <1>1, <1>2, SequencesByInduction
<1>4. QED
  BY <1>3

-----------------------------------------------------------------------------
(***************************************************************************)
(* The order of std::map                                                   *)
(***************************************************************************)

(* A string is a function on its positions. *)
LEMMA TextFacts ==
  ASSUME NEW s \in Seq(Byte)
  PROVE  /\ Len(s) \in Nat /\ DOMAIN s = 1..Len(s)
         /\ \A i \in 1..Len(s) : s[i] \in Byte /\ s[i] \in Nat
<1>1. Len(s) \in Nat /\ DOMAIN s = 1..Len(s)
  BY LenProperties
<1>2. \A i \in 1..Len(s) : s[i] \in Byte
  BY ElementOfSeq
<1>3. Byte \subseteq Nat
  BY DEF Byte
<1>4. QED
  BY <1>1, <1>2, <1>3

(* No name is before itself in a std::map. *)
LEMMA BeforeIrreflexive ==
  ASSUME NEW s \in Seq(Byte)
  PROVE  ~Before(s, s)
<1>1. SUFFICES ASSUME NEW i \in DOMAIN s, i <= Len(s) => s[i] < s[i] PROVE FALSE
  BY DEF Before
<1>2. i \in 1..Len(s) /\ s[i] \in Nat
  BY TextFacts
<1>3. QED
  BY <1>1, <1>2

(* The order of names is transitive. *)
LEMMA BeforeTransitive ==
  ASSUME NEW s \in Seq(Byte), NEW t \in Seq(Byte), NEW u \in Seq(Byte),
         Before(s, t), Before(t, u)
  PROVE  Before(s, u)
<1>1. /\ Len(s) \in Nat /\ Len(t) \in Nat /\ Len(u) \in Nat
      /\ DOMAIN t = 1..Len(t) /\ DOMAIN u = 1..Len(u)
      /\ \A i \in 1..Len(s) : s[i] \in Int
      /\ \A i \in 1..Len(t) : t[i] \in Int
      /\ \A i \in 1..Len(u) : u[i] \in Int
  BY TextFacts
<1>2. PICK i \in 1..Len(t) : /\ i <= Len(s) + 1 /\ \A k \in 1..i - 1 : s[k] = t[k]
                             /\ i <= Len(s) => s[i] < t[i]
  BY <1>1 DEF Before
<1>3. PICK j \in 1..Len(u) : /\ j <= Len(t) + 1 /\ \A k \in 1..j - 1 : t[k] = u[k]
                             /\ j <= Len(t) => t[j] < u[j]
  BY <1>1 DEF Before
<1>4. CASE i < j
  <2>1. i \in DOMAIN u /\ t[i] = u[i] /\ \A k \in 1..i - 1 : s[k] = u[k]
    BY <1>1, <1>2, <1>3, <1>4
  <2>2. QED
    BY <2>1, <1>2 DEF Before
<1>5. CASE j < i
  <2>1. j \in DOMAIN u /\ j \in 1..Len(s) /\ s[j] = t[j] /\ t[j] < u[j]
    BY <1>1, <1>2, <1>3, <1>5
  <2>2. \A k \in 1..j - 1 : s[k] = u[k]
    BY <1>2, <1>3, <1>5
  <2>3. j <= Len(s) + 1 /\ s[j] < u[j]
    BY <2>1, <1>1
  <2>4. QED
    BY <2>1, <2>2, <2>3 DEF Before
<1>6. CASE i = j
  <2>1. i \in DOMAIN u /\ t[i] < u[i] /\ \A k \in 1..i - 1 : s[k] = u[k]
    BY <1>1, <1>2, <1>3, <1>6
  <2>2. i <= Len(s) => s[i] < u[i]
    BY <2>1, <1>1, <1>2, <1>3, <1>6
  <2>3. QED
    BY <2>1, <2>2, <1>2 DEF Before
<1>7. QED
  BY <1>4, <1>5, <1>6

(* Of two names one is before the other: they differ at a first position,  *)
(* or one is the start of the other.                                       *)
LEMMA BeforeTotal ==
  ASSUME NEW s \in Seq(Byte), NEW t \in Seq(Byte), s # t
  PROVE  Before(s, t) \/ Before(t, s)
<1>1. /\ Len(s) \in Nat /\ Len(t) \in Nat
      /\ DOMAIN t = 1..Len(t) /\ DOMAIN s = 1..Len(s)
      /\ \A i \in 1..Len(s) : s[i] \in Int
      /\ \A i \in 1..Len(t) : t[i] \in Int
  BY TextFacts
<1> DEFINE T == {i \in Nat \ {0} : i <= Len(s) /\ i <= Len(t) => s[i] # t[i]}
<1>2. T \subseteq Nat /\ Len(s) + 1 \in T
  BY <1>1
<1>3. PICK x \in T : \A y \in T : x <= y
  <2> HIDE DEF T
  <2> QED BY <1>2, LeastNatural
<1>4. \A k \in 1..x - 1 : k <= Len(s) /\ k <= Len(t) /\ s[k] = t[k]
  BY <1>3
<1>5. x <= Len(s) + 1 /\ x <= Len(t) + 1 /\ x \in Nat \ {0}
  <2>1. Len(t) + 1 \in T
    BY <1>1
  <2>2. QED
    BY <1>2, <1>3, <2>1
<1>6. CASE x = Len(s) + 1 /\ x = Len(t) + 1
  <2>1. Len(s) = Len(t)
    <3>1. \A a, b \in Nat : a + 1 = b + 1 => a = b
      OBVIOUS
    <3>2. QED
      BY <3>1, <1>1, <1>6
  <2>2. \A k \in 1..Len(s) : s[k] = t[k]
    BY <1>4, <1>6, <1>1
  <2>3. s = t
    BY <2>1, <2>2, SeqEqual
  <2>4. QED
    BY <2>3
<1>7. CASE x = Len(s) + 1 /\ x # Len(t) + 1
  <2>1. x \in DOMAIN t /\ x <= Len(s) + 1 /\ ~(x <= Len(s))
    BY <1>1, <1>5, <1>7
  <2>2. \A k \in 1..x - 1 : s[k] = t[k]
    BY <1>4
  <2>3. QED
    BY <2>1, <2>2 DEF Before
<1>8. CASE x # Len(s) + 1 /\ x = Len(t) + 1
  <2>1. x \in DOMAIN s /\ x <= Len(t) + 1 /\ ~(x <= Len(t))
    BY <1>1, <1>5, <1>8
  <2>2. \A k \in 1..x - 1 : t[k] = s[k]
    BY <1>4
  <2>3. QED
    BY <2>1, <2>2 DEF Before
<1>9. CASE x # Len(s) + 1 /\ x # Len(t) + 1
  <2>1. x \in 1..Len(s) /\ x \in 1..Len(t) /\ s[x] # t[x]
    BY <1>3, <1>5, <1>9, <1>1
  <2>2. s[x] < t[x] \/ t[x] < s[x]
    BY <2>1, <1>1
  <2>3. QED
    BY <1>1, <1>4, <1>5, <2>1, <2>2 DEF Before
<1>10. QED
  BY <1>6, <1>7, <1>8, <1>9

(* A set of names in order *)
Sorted(k, keys) == /\ k \in [1..Cardinality(keys) -> keys]
                   /\ \A i, j \in 1..Cardinality(keys) : i < j => Before(k[i], k[j])

(* A finite set of names can be put in order: a name comes at the number   *)
(* of names before it.                                                     *)
LEMMA SortedExists ==
  ASSUME NEW keys, keys \subseteq Seq(Byte), IsFiniteSet(keys)
  PROVE  \E k : Sorted(k, keys)
<1> DEFINE n == Cardinality(keys)
           below(x) == {y \in keys : Before(y, x)}
           rank == [x \in keys |-> Cardinality(below(x)) + 1]
<1>1. n \in Nat
  BY FS_CardinalityType
<1>2. ASSUME NEW x \in keys
      PROVE  IsFiniteSet(below(x)) /\ rank[x] \in 1..n
  <2>1. below(x) \in SUBSET (keys \ {x})
    BY BeforeIrreflexive
  <2>2. IsFiniteSet(keys \ {x}) /\ Cardinality(keys \ {x}) = n - 1
    BY FS_RemoveElement
  <2>3. IsFiniteSet(below(x)) /\ Cardinality(below(x)) <= n - 1
    <3> HIDE DEF below
    <3> QED BY <2>1, <2>2, FS_Subset
  <2>4. Cardinality(below(x)) \in Nat
    <3> HIDE DEF below
    <3> QED BY <2>3, FS_CardinalityType
  <2>5. QED
    BY <1>1, <2>3, <2>4
<1>3. ASSUME NEW x \in keys, NEW y \in keys, Before(x, y)
      PROVE  rank[x] < rank[y]
  <2>1. below(x) \subseteq below(y)
    BY <1>3, BeforeTransitive
  <2>2. x \in below(y) /\ x \notin below(x)
    BY <1>3, BeforeIrreflexive
  <2>3. IsFiniteSet(below(x)) /\ IsFiniteSet(below(y))
    BY <1>2
  <2>4. Cardinality(below(x)) \in Nat /\ Cardinality(below(y)) \in Nat
    <3> HIDE DEF below
    <3> QED BY <2>3, FS_CardinalityType
  <2>5. Cardinality(below(x)) <= Cardinality(below(y))
          /\ Cardinality(below(x)) # Cardinality(below(y))
    <3> HIDE DEF below
    <3>1. below(x) \in SUBSET below(y) /\ below(x) # below(y)
      BY <2>1, <2>2
    <3>2. QED
      BY <3>1, <2>3, FS_Subset
  <2>6. QED
    BY <2>4, <2>5
<1> HIDE DEF below, n, rank
<1>4. rank \in [keys -> 1..n]
  BY <1>2 DEF rank
<1>5. \A x, y \in keys : rank[x] = rank[y] => x = y
  <2>1. SUFFICES ASSUME NEW x \in keys, NEW y \in keys, rank[x] = rank[y],
                         x # y PROVE FALSE
    OBVIOUS
  <2>2. Before(x, y) \/ Before(y, x)
    BY <2>1, BeforeTotal
  <2>3. rank[x] \in Nat /\ rank[y] \in Nat
    BY <1>2
  <2>4. QED
    BY <1>3, <2>1, <2>2, <2>3
<1>6. rank \in Injection(keys, 1..n)
  BY <1>4, <1>5, Fun_IsInj
<1>7. IsFiniteSet(1..n) /\ Cardinality(1..n) = n
  BY <1>1, FS_Interval
<1>8. rank \in Surjection(keys, 1..n)
  BY <1>6, <1>7, FS_Injection DEF n
<1>9. \A i \in 1..n : \E x \in keys : rank[x] = i
  BY <1>8, Fun_SurjectionProperties
<1> DEFINE k == [i \in 1..n |-> CHOOSE x \in keys : rank[x] = i]
<1>10. \A i \in 1..n : k[i] \in keys /\ rank[k[i]] = i
  BY <1>9
<1>11. k \in [1..n -> keys]
  BY <1>10
<1> HIDE DEF k
<1>12. \A i, j \in 1..n : i < j => Before(k[i], k[j])
  <2>1. SUFFICES ASSUME NEW i \in 1..n, NEW j \in 1..n, i < j, ~Before(k[i],
                         k[j]) PROVE FALSE
    OBVIOUS
  <2>2. k[i] \in keys /\ k[j] \in keys /\ rank[k[i]] = i /\ rank[k[j]] = j
    BY <1>10
  <2>3. Before(k[j], k[i])
    BY <2>1, <2>2, BeforeTotal
  <2>4. j < i
    BY <2>2, <2>3, <1>3
  <2>5. QED
    BY <2>1, <2>4
<1>13. QED
  BY <1>11, <1>12 DEF Sorted, n

(* The loop over a std::map comes to each of its names. *)
LEMMA AscendingEnumerates ==
  ASSUME NEW keys, keys \subseteq Seq(Byte), IsFiniteSet(keys)
  PROVE  /\ Cardinality(keys) \in Nat
         /\ Ascending(keys) \in [1..Cardinality(keys) -> keys]
         /\ \A x \in keys : \E i \in 1..Cardinality(keys) : Ascending(keys)[i] = x
<1> DEFINE n == Cardinality(keys)
           k == Ascending(keys)
<1>1. n \in Nat /\ IsFiniteSet(1..n) /\ Cardinality(1..n) = n
  BY FS_CardinalityType, FS_Interval
<1>2. Sorted(k, keys)
  BY SortedExists DEF Sorted, Ascending
<1>3. \A i, j \in 1..n : k[i] = k[j] => i = j
  <2>1. \A i \in 1..n : k[i] \in Seq(Byte)
    BY <1>2 DEF Sorted
  <2>2. SUFFICES ASSUME NEW i \in 1..n, NEW j \in 1..n, k[i] = k[j], i < j PROVE FALSE
    BY <1>1
  <2>3. Before(k[i], k[j])
    BY <1>2, <2>2 DEF Sorted
  <2>4. QED
    BY <2>1, <2>2, <2>3, BeforeIrreflexive
<1>4. k \in [1..n -> keys]
  BY <1>2 DEF Sorted
<1> HIDE DEF k, n
<1>5. k \in Injection(1..n, keys)
  BY <1>3, <1>4, Fun_IsInj
<1>6. k \in Surjection(1..n, keys)
  BY <1>1, <1>5, FS_Injection DEF n
<1>7. QED
  BY <1>1, <1>4, <1>6, Fun_SurjectionProperties DEF k, n

-----------------------------------------------------------------------------
(***************************************************************************)
(* flattenQueryMap and generateQueryMap                                    *)
(***************************************************************************)

(* What boost::split makes of a text *)
PartsOf(t) == {PartAfter(t, cut) : cut \in Cuts(t)}
(* A text that boost::split leaves whole *)
NoAmpersand(p) == \A i \in DOMAIN p : p[i] # Ampersand

(* Behind a cut there is a next one, or the end of the text. *)
LEMMA NextCutFacts ==
  ASSUME NEW t \in Seq(Byte), NEW cut \in Cuts(t)
  PROVE  /\ NextCut(t, cut) \in {i \in Cuts(t) : i > cut} \cup {Len(t) + 1}
         /\ \A i \in Cuts(t) : i > cut => NextCut(t, cut) <= i
         /\ NextCut(t, cut) <= Len(t) + 1
         /\ NextCut(t, cut) \in Nat /\ NextCut(t, cut) > cut
<1> DEFINE T == {i \in Cuts(t) : i > cut} \cup {Len(t) + 1}
<1>1. Len(t) \in Nat /\ Cuts(t) \subseteq 0..Len(t) /\ cut \in 0..Len(t)
  BY TextFacts DEF Cuts
<1>2. T \subseteq Nat /\ T # {} /\ \A i \in T : i > cut
  BY <1>1
<1>3. \E x \in T : \A y \in T : x <= y
  <2> HIDE DEF T
  <2> QED BY <1>2, LeastNatural
<1>4. NextCut(t, cut) \in T /\ \A y \in T : NextCut(t, cut) <= y
  BY <1>3 DEF Min, NextCut
<1>5. QED
  BY <1>2, <1>4

(* A part of a text is a text. *)
LEMMA PartIsText ==
  ASSUME NEW t \in Seq(Byte), NEW cut \in Cuts(t)
  PROVE  PartAfter(t, cut) \in Seq(Byte)
<1>1. /\ cut + 1 \in Int /\ NextCut(t, cut) - 1 \in Int
      /\ \A i \in cut + 1..NextCut(t, cut) - 1 : i \in 1..Len(t)
  BY NextCutFacts, TextFacts DEF Cuts
<1>2. \A i \in cut + 1..NextCut(t, cut) - 1 : t[i] \in Byte
  BY <1>1, TextFacts
<1>3. QED
  BY <1>1, <1>2, SubSeqProperties DEF PartAfter

(* boost::split makes one part of a text without "&". *)
LEMMA PartsOfOne ==
  ASSUME NEW p \in Seq(Byte), NoAmpersand(p)
  PROVE  PartsOf(p) = {p}
<1>1. Cuts(p) = {0}
  BY DEF Cuts, NoAmpersand
<1>2. NextCut(p, 0) = Len(p) + 1
  BY <1>1, NextCutFacts
<1>3. PartAfter(p, 0) = p
  <2>1. Len(p) + 1 - 1 = Len(p) /\ 0 + 1 = 1
    BY TextFacts
  <2>2. QED
    BY <1>2, <2>1, SubSeqFull DEF PartAfter
<1>4. QED
  BY <1>1, <1>3 DEF PartsOf

(* A part behind an "&" is added to the parts, and changes none of them. *)
LEMMA PartsOfMore ==
  ASSUME NEW t \in Seq(Byte), NEW p \in Seq(Byte), NoAmpersand(p)
  PROVE  PartsOf((t \o <<Ampersand>>) \o p) = PartsOf(t) \cup {p}
<1> DEFINE n == Len(t)
           u == (t \o <<Ampersand>>) \o p
<1>1. /\ n \in Nat /\ DOMAIN t = 1..n /\ Len(p) \in Nat /\ DOMAIN p = 1..Len(p)
      /\ u \in Seq(Byte) /\ Len(u) = n + 1 + Len(p) /\ DOMAIN u = 1..n + 1 + Len(p)
      /\ \A i \in 1..n : u[i] = t[i]
      /\ u[n + 1] = Ampersand
      /\ \A i \in 1..Len(p) : u[n + 1 + i] = p[i]
  <2>1. <<Ampersand>> \in Seq(Byte) /\ Len(<<Ampersand>>) = 1
          /\ <<Ampersand>>[1] = Ampersand
    BY DEF Ampersand, Byte
  <2> DEFINE w == t \o <<Ampersand>>
  <2>2. /\ n \in Nat /\ DOMAIN t = 1..n /\ Len(p) \in Nat /\ DOMAIN p = 1..Len(p)
    BY TextFacts
  <2>3. /\ w \in Seq(Byte) /\ Len(w) = n + 1 /\ w[n + 1] = Ampersand
        /\ \A i \in 1..n : w[i] = t[i]
    BY <2>1, <2>2, ConcatProperties
  <2> HIDE DEF w
  <2>4. /\ w \o p \in Seq(Byte) /\ Len(w \o p) = n + 1 + Len(p)
        /\ \A i \in 1..n + 1 : (w \o p)[i] = w[i]
        /\ \A i \in 1..Len(p) : (w \o p)[n + 1 + i] = p[i]
    <3>1. /\ w \o p \in Seq(Byte) /\ Len(w \o p) = Len(w) + Len(p)
          /\ \A i \in 1..Len(w) + Len(p) :
                (w \o p)[i] = IF i <= Len(w) THEN w[i] ELSE p[i - Len(w)]
      BY <2>3, ConcatProperties
    <3> DEFINE v == w \o p
    <3> HIDE DEF v, n
    <3>2. /\ v \in Seq(Byte) /\ Len(v) = n + 1 + Len(p)
          /\ \A i \in 1..n + 1 + Len(p) : v[i]
               = IF i <= n + 1 THEN w[i] ELSE p[i - (n + 1)]
      BY <3>1, <2>3 DEF v
    <3>3. \A i \in 1..n + 1 : v[i] = w[i]
      BY <3>2, <2>2
    <3>4. ASSUME NEW i \in 1..Len(p) PROVE v[n + 1 + i] = p[i]
      <4> DEFINE h == n + 1 + i
      <4>1. h \in 1..n + 1 + Len(p) /\ ~(h <= n + 1) /\ h - (n + 1) = i
        BY <2>2
      <4> HIDE DEF h
      <4>2. v[h] = p[i]
        BY <4>1, <3>2
      <4>3. QED
        BY <4>2 DEF h
    <3>5. QED
      BY <3>2, <3>3, <3>4 DEF v
  <2>5. DOMAIN (w \o p) = 1..n + 1 + Len(p)
    BY <2>4, TextFacts
  <2>6. u = w \o p
    BY DEF w
  <2> HIDE DEF u, n
  <2>7. QED
    BY <2>2, <2>3, <2>4, <2>5, <2>6
<1> HIDE DEF n, u
<1>2. Cuts(u) = Cuts(t) \cup {n + 1}
  <2>1. ASSUME NEW i \in Cuts(u) PROVE i \in Cuts(t) \cup {n + 1}
    <3>1. CASE i \in 1..n
      BY <2>1, <3>1, <1>1 DEF Cuts
    <3>2. CASE i \in n + 2..n + 1 + Len(p)
      <4>1. i - (n + 1) \in 1..Len(p) /\ i = n + 1 + (i - (n + 1))
        BY <3>2, <1>1
      <4>2. u[i] = p[i - (n + 1)] /\ p[i - (n + 1)] # Ampersand
        BY <4>1, <1>1 DEF NoAmpersand
      <4>3. QED
        BY <4>2, <3>2, <2>1, <1>1 DEF Cuts
    <3>3. CASE i = 0 \/ i = n + 1
      BY <3>3 DEF Cuts
    <3>4. QED
      BY <2>1, <3>1, <3>2, <3>3, <1>1 DEF Cuts
  <2>2. n + 1 \in Cuts(u)
    BY <1>1 DEF Cuts
  <2>3. Cuts(t) \subseteq Cuts(u)
    BY <1>1 DEF Cuts
  <2>4. QED
    BY <2>1, <2>2, <2>3
<1>3. ASSUME NEW cut \in Cuts(t) PROVE PartAfter(u, cut) = PartAfter(t, cut)
  <2>1. cut \in Cuts(u) /\ cut \in 0..n
    BY <1>1, <1>2 DEF Cuts
  <2> DEFINE a == NextCut(t, cut)
             b == NextCut(u, cut)
  <2>2. /\ a \in Nat /\ a > cut /\ a <= n + 1 /\ a \in Cuts(u)
        /\ a \in {i \in Cuts(t) : i > cut} \cup {n + 1}
        /\ \A i \in Cuts(t) : i > cut => a <= i
    <3>1. /\ a \in Nat /\ a > cut /\ a <= n + 1
          /\ a \in {i \in Cuts(t) : i > cut} \cup {n + 1}
          /\ \A i \in Cuts(t) : i > cut => a <= i
      BY NextCutFacts DEF n
    <3>2. QED
      BY <3>1, <1>2
  <2>3. /\ b \in Nat /\ b > cut
        /\ b \in {i \in Cuts(u) : i > cut} \cup {Len(u) + 1}
        /\ \A i \in Cuts(u) : i > cut => b <= i
    BY <1>1, <2>1, NextCutFacts
  <2> HIDE DEF a, b
  <2>4. b <= a
    BY <2>2, <2>3
  <2>5. a <= b
    BY <2>2, <2>3, <2>4, <1>1, <1>2
  <2>6. a = b
    BY <2>2, <2>3, <2>4, <2>5
  <2> DEFINE hi == a - 1
  <2>7. /\ cut + 1 \in Int /\ hi \in Int
        /\ \A i \in cut + 1..hi : i \in 1..n
    BY <2>1, <2>2, <1>1
  <2>8. \A i \in cut + 1..hi : u[i] = t[i] /\ t[i] \in Byte
    BY <2>7, <1>1, TextFacts DEF n
  <2> HIDE DEF hi
  <2>9. /\ SubSeq(t, cut + 1, hi) \in Seq(Byte)
        /\ SubSeq(u, cut + 1, hi) \in Seq(Byte)
        /\ Len(SubSeq(t, cut + 1, hi)) = Len(SubSeq(u, cut + 1, hi))
    BY <2>7, <2>8, SubSeqProperties
  <2>10. ASSUME NEW i \in 1..Len(SubSeq(t, cut + 1, hi))
         PROVE  SubSeq(t, cut + 1, hi)[i] = SubSeq(u, cut + 1, hi)[i]
    <3>1. i \in 1..hi - (cut + 1) + 1 /\ (cut + 1) + i - 1 \in cut + 1..hi
      BY <2>7, <2>8, <2>10, SubSeqProperties
    <3>2. /\ SubSeq(t, cut + 1, hi)[i] = t[(cut + 1) + i - 1]
          /\ SubSeq(u, cut + 1, hi)[i] = u[(cut + 1) + i - 1]
      BY <2>7, <2>8, <3>1, SubSeqProperties
    <3>3. QED
      BY <2>8, <3>1, <3>2
  <2>11. SubSeq(t, cut + 1, hi) = SubSeq(u, cut + 1, hi)
    BY <2>9, <2>10, SeqEqual
  <2>12. QED
    BY <2>6, <2>11 DEF PartAfter, hi, a, b
<1>4. PartAfter(u, n + 1) = p
  <2>0. Cuts(t) \subseteq 0..n
    BY <1>1 DEF Cuts
  <2>1. n + 1 \in Cuts(u) /\ \A i \in Cuts(u) : i <= n + 1
    BY <2>0, <1>1, <1>2
  <2>2. NextCut(u, n + 1) = Len(u) + 1
    BY <2>1, <1>1, NextCutFacts
  <2> DEFINE lo == (n + 1) + 1
             hi == NextCut(u, n + 1) - 1
  <2>3. PartAfter(u, n + 1) = SubSeq(u, lo, hi)
    BY DEF PartAfter
  <2>4. lo \in Int /\ hi \in Int /\ hi - lo + 1 = Len(p) /\ (lo > hi <=> Len(p) = 0)
        /\ \A i \in lo..hi : i \in 1..Len(u)
    <3>1. lo = n + 2 /\ hi = n + 1 + Len(p)
      BY <2>2, <1>1
    <3> HIDE DEF lo, hi
    <3>2. lo \in Nat /\ hi \in Nat /\ lo >= 1
      BY <3>1, <1>1
    <3>3. hi - lo + 1 = Len(p) /\ (lo > hi <=> Len(p) = 0)
      BY <3>1, <1>1
    <3>4. hi = Len(u)
      BY <3>1, <1>1
    <3>5. QED
      BY <3>2, <3>3, <3>4
  <2>5. \A i \in lo..hi : u[i] \in Byte
    BY <2>4, <1>1, TextFacts
  <2>6. \A i \in 1..Len(p) : lo + i - 1 = n + 1 + i
    BY <1>1
  <2> HIDE DEF lo, hi
  <2>7. /\ SubSeq(u, lo, hi) \in Seq(Byte) /\ Len(SubSeq(u, lo, hi)) = Len(p)
        /\ \A i \in 1..Len(p) : SubSeq(u, lo, hi)[i] = u[lo + i - 1]
    <3>1. /\ SubSeq(u, lo, hi) \in Seq(Byte)
          /\ Len(SubSeq(u, lo, hi)) = IF lo <= hi THEN hi - lo + 1 ELSE 0
          /\ \A i \in 1..hi - lo + 1 : SubSeq(u, lo, hi)[i] = u[lo + i - 1]
      BY <2>4, <2>5, SubSeqProperties
    <3>2. QED
      BY <3>1, <2>4, <1>1
  <2>8. SubSeq(u, lo, hi) = p
    BY <2>6, <2>7, <1>1, SeqEqual
  <2>9. QED
    BY <2>3, <2>8
<1>5. PartsOf(u) = {PartAfter(u, cut) : cut \in Cuts(t)} \cup {PartAfter(u, n + 1)}
  BY <1>2 DEF PartsOf
<1>6. {PartAfter(u, cut) : cut \in Cuts(t)} = PartsOf(t)
  BY <1>3 DEF PartsOf
<1>7. QED
  BY <1>4, <1>5, <1>6 DEF u

(* A std::map from strings to strings *)
IsQueryMap(m) == /\ IsFiniteSet(DOMAIN m) /\ DOMAIN m \subseteq Seq(Byte)
                 /\ m \in [DOMAIN m -> Seq(Byte)]

(* A pair of the query is printable, is not split at an "&" of its name or *)
(* value, and has its only "=" between the two.                            *)
LEMMA PairFacts ==
  ASSUME NEW m, IsQueryMap(m), NEW k \in DOMAIN m
  PROVE  /\ Pair(m, k) \in Seq(Printable) /\ Pair(m, k) \in Seq(Byte)
         /\ NoAmpersand(Pair(m, k))
         /\ KeyIn(Pair(m, k)) = uriEncode(k)
         /\ ValueIn(Pair(m, k)) = uriEncode(m[k])
<1> DEFINE a == uriEncode(k)
           b == uriEncode(m[k])
           w == a \o <<Equals>>
           p == w \o b
           e == Len(a) + 1
<1>1. a \in Seq(Plain) /\ b \in Seq(Plain)
  BY EncodeIsPlain DEF IsQueryMap
<1> HIDE DEF a, b
<1>2. /\ Len(a) \in Nat /\ Len(b) \in Nat
      /\ \A i \in 1..Len(a) : a[i] \in Plain
      /\ \A i \in 1..Len(b) : b[i] \in Plain
  BY <1>1, LenProperties, ElementOfSeq
<1>3. a \in Seq(Printable) /\ b \in Seq(Printable) /\ <<Equals>> \in Seq(Printable)
      /\ Len(<<Equals>>) = 1 /\ <<Equals>>[1] = Equals
  <2>1. Plain \subseteq Printable /\ Equals \in Printable
    BY DEF Plain, Equals, Printable
  <2>2. QED
    BY <1>1, <2>1, SeqMonotonic
<1>4. w \in Seq(Printable) /\ Len(w) = e /\ w[e] = Equals
        /\ \A i \in 1..Len(a) : w[i] = a[i]
  BY <1>2, <1>3, ConcatProperties
<1> HIDE DEF w
<1>5. /\ p \in Seq(Printable) /\ Len(p) = Len(w) + Len(b)
      /\ \A i \in 1..Len(w) + Len(b) : p[i]
           = IF i <= Len(w) THEN w[i] ELSE b[i - Len(w)]
  <2>1. w \in Seq(Printable) /\ b \in Seq(Printable)
    BY <1>3, <1>4
  <2>2. QED
    BY <2>1, ConcatProperties
<1> HIDE DEF p
<1>6. /\ e \in Nat \ {0} /\ Len(p) = e + Len(b) /\ DOMAIN p = 1..e + Len(b)
      /\ \A i \in 1..e + Len(b) : p[i] = IF i <= e THEN w[i] ELSE b[i - e]
  BY <1>2, <1>4, <1>5, LenProperties
<1>7. /\ p[e] = Equals
      /\ \A i \in 1..e - 1 : p[i] = a[i] /\ p[i] \in Plain
  BY <1>2, <1>4, <1>6
<1>8. ASSUME NEW i \in 1..Len(b) PROVE p[e + i] = b[i] /\ p[e + i] \in Plain
  <2> DEFINE h == e + i
  <2>1. h \in 1..e + Len(b) /\ ~(h <= e) /\ h - e = i
    BY <1>2, <1>6
  <2> HIDE DEF h, e
  <2>2. p[h] = b[i]
    BY <2>1, <1>6
  <2>3. QED
    BY <2>2, <1>2 DEF h
<1> HIDE DEF e
<1>9. \A i \in DOMAIN p : i = e \/ p[i] \in Plain
  <2>1. SUFFICES ASSUME NEW i \in 1..e + Len(b), i # e PROVE p[i] \in Plain
    BY <1>6
  <2>2. CASE i < e
    BY <2>1, <2>2, <1>6, <1>7
  <2>3. CASE i > e
    <3> DEFINE h == i - e
    <3>1. h \in 1..Len(b) /\ e + h = i
      BY <2>3, <1>2, <1>6
    <3> HIDE DEF h
    <3>2. p[e + h] \in Plain
      BY <3>1, <1>8
    <3>3. QED
      BY <3>1, <3>2
  <2>4. QED
    BY <2>1, <2>2, <2>3, <1>6
<1>10. NoAmpersand(p)
  <2>1. Ampersand \notin Plain /\ Equals # Ampersand
    BY DEF Plain, Ampersand, Equals
  <2>2. QED
    BY <2>1, <1>7, <1>9 DEF NoAmpersand
<1>11. EqualsIn(p) = {e}
  <2>1. Equals \notin Plain
    BY DEF Plain
  <2>2. e \in DOMAIN p
    BY <1>2, <1>6
  <2>3. QED
    BY <2>1, <2>2, <1>7, <1>9 DEF EqualsIn
<1>12. Min({e}) = e
  BY <1>6 DEF Min
<1>13. KeyIn(p) = SubSeq(p, 1, e - 1) /\ ValueIn(p) = SubSeq(p, e + 1, Len(p))
  BY <1>11, <1>12 DEF KeyIn, ValueIn
<1>14. SubSeq(p, 1, e - 1) = a
  <2>1. e - 1 \in Int /\ e - 1 = Len(a) /\ (1 <= e - 1 <=> Len(a) # 0)
          /\ e - 1 - 1 + 1 = Len(a)
    BY <1>2, <1>6 DEF e
  <2> DEFINE q == SubSeq(p, 1, e - 1)
  <2>2. /\ q \in Seq(Plain) /\ Len(q) = IF 1 <= e - 1 THEN e - 1 - 1 + 1 ELSE 0
        /\ \A i \in 1..e - 1 - 1 + 1 : q[i] = p[1 + i - 1]
    BY <2>1, <1>7, SubSeqProperties
  <2> HIDE DEF q
  <2>3. Len(q) = Len(a) /\ \A i \in 1..Len(a) : q[i] = p[i]
    BY <2>1, <2>2, <1>2
  <2>4. \A i \in 1..Len(a) : q[i] = a[i]
    BY <2>1, <2>3, <1>7
  <2>5. q = a
    BY <2>2, <2>3, <2>4, <1>1, SeqEqual
  <2>6. QED
    BY <2>5 DEF q
<1>15. SubSeq(p, e + 1, Len(p)) = b
  <2> DEFINE lo == e + 1
             hi == Len(p)
             q == SubSeq(p, lo, hi)
  <2>1. lo \in Int /\ hi \in Int /\ hi - lo + 1 = Len(b) /\ (lo <= hi <=> Len(b) # 0)
    BY <1>2, <1>6
  <2>2. \A i \in 1..Len(b) : lo + i - 1 = e + i
    BY <1>6
  <2>3. \A i \in lo..hi : p[i] \in Plain
    <3>1. \A i \in lo..hi : i \in DOMAIN p /\ i # e
      BY <1>2, <1>6
    <3>2. QED
      BY <3>1, <1>9
  <2> HIDE DEF lo, hi
  <2>4. /\ q \in Seq(Plain) /\ Len(q) = IF lo <= hi THEN hi - lo + 1 ELSE 0
        /\ \A i \in 1..hi - lo + 1 : q[i] = p[lo + i - 1]
    BY <2>1, <2>3, SubSeqProperties
  <2> HIDE DEF q
  <2>5. Len(q) = Len(b) /\ \A i \in 1..Len(b) : q[i] = b[i]
    BY <2>1, <2>2, <2>4, <1>2, <1>8
  <2>6. q = b
    BY <2>4, <2>5, <1>1, SeqEqual
  <2>7. QED
    BY <2>6 DEF q, lo, hi
<1>16. Pair(m, k) = p
  BY DEF Pair, p, w, a, b
<1>17. p \in Seq(Byte)
  <2>1. Printable \subseteq Byte
    BY DEF Printable, Byte
  <2>2. QED
    BY <2>1, <1>5, SeqMonotonic
<1>18. QED
  BY <1>5, <1>10, <1>13, <1>14, <1>15, <1>16, <1>17 DEF a, b

(* The first j pairs of a query, and what is written for them *)
LeadPairs(m, ks, j) == {Pair(m, ks[i]) : i \in 1..j}
Lead(m, ks, j) == [i \in 1..j |-> Pair(m, ks[i]) \o <<Ampersand>>]

(* Printable text is text. *)
LEMMA PrintableIsByte ==
  Printable \subseteq Byte /\ Seq(Printable) \subseteq Seq(Byte)
    /\ <<Ampersand>> \in Seq(Printable)
<1>1. Printable \subseteq Byte
  BY DEF Printable, Byte
<1>2. Ampersand \in Printable
  BY DEF Ampersand, Printable
<1>3. QED
  BY <1>1, <1>2, SeqMonotonic

(* The loop of flattenQueryMap appends a pair and an "&" in every turn but *)
(* the last.                                                               *)
LEMMA LeadFacts ==
  ASSUME NEW m, IsQueryMap(m), NEW n \in Nat, NEW ks \in [1..n -> DOMAIN m],
         NEW j \in Nat, j <= n
  PROVE  /\ Lead(m, ks, j) \in Seq(Seq(Printable))
         /\ FlattenSeq(Lead(m, ks, j)) \in Seq(Printable)
         /\ j < n => FlattenSeq(Lead(m, ks, j + 1))
                       = (FlattenSeq(Lead(m, ks, j)) \o Pair(m,
                        ks[j + 1])) \o <<Ampersand>>
<1> DEFINE Item(i) == Pair(m, ks[i]) \o <<Ampersand>>
<1>1. ASSUME NEW i \in 1..n PROVE Pair(m, ks[i]) \in Seq(Printable)
               /\ Item(i) \in Seq(Printable)
  <2>1. Pair(m, ks[i]) \in Seq(Printable)
    BY PairFacts
  <2>2. QED
    BY <2>1, PrintableIsByte, ConcatProperties
<1>2. Lead(m, ks, j) \in Seq(Seq(Printable))
  BY <1>1 DEF Lead
<1>3. FlattenSeq(Lead(m, ks, j)) \in Seq(Printable)
  BY <1>2, FlattenOne
<1>4. ASSUME j < n
      PROVE  FlattenSeq(Lead(m, ks, j + 1))
               = (FlattenSeq(Lead(m, ks, j)) \o Pair(m, ks[j + 1])) \o <<Ampersand>>
  <2>1. j + 1 \in 1..n
    BY <1>4
  <2>2. Lead(m, ks, j + 1) = Append(Lead(m, ks, j), Item(j + 1))
    <3> HIDE DEF Item
    <3>1. Lead(m, ks, j + 1) = [i \in 1..j + 1 |-> Item(i)]
            /\ Lead(m, ks, j) = [i \in 1..j |-> Item(i)]
      BY DEF Lead, Item
    <3>2. QED
      BY <3>1
  <2>3. Item(j + 1) \in Seq(Printable) /\ Pair(m, ks[j + 1]) \in Seq(Printable)
    BY <1>1, <2>1
  <2>4. FlattenSeq(Append(Lead(m, ks, j), Item(j + 1))) = FlattenSeq(Lead(m, ks,
         j)) \o Item(j + 1)
    <3> HIDE DEF Item
    <3> QED BY <1>2, <2>3, FlattenAppend
  <2> DEFINE f == FlattenSeq(Lead(m, ks, j))
             p == Pair(m, ks[j + 1])
  <2>5. f \in Seq(Printable) /\ p \in Seq(Printable)
          /\ <<Ampersand>> \in Seq(Printable)
    BY <1>3, <2>3, PrintableIsByte
  <2> HIDE DEF f, p
  <2>6. f \o (p \o <<Ampersand>>) = (f \o p) \o <<Ampersand>>
    BY <2>5, ConcatAssociative
  <2>7. QED
    BY <2>2, <2>4, <2>6 DEF f, p
<1>5. QED
  BY <1>2, <1>3, <1>4

(* Behind j turns of that loop the parts are the first j pairs and what    *)
(* comes next.                                                             *)
LEMMA LeadParts ==
  ASSUME NEW m, IsQueryMap(m), NEW n \in Nat, NEW ks \in [1..n -> DOMAIN m]
  PROVE  \A j \in Nat : j <= n =>
            \A p \in Seq(Byte) : NoAmpersand(p) =>
                PartsOf(FlattenSeq(Lead(m, ks, j)) \o p) = LeadPairs(m, ks,
                 j) \cup {p}
<1> DEFINE F(j) == FlattenSeq(Lead(m, ks, j))
           S(j) == LeadPairs(m, ks, j)
           T == {j \in Nat : j <= n => \A p \in Seq(Byte) : NoAmpersand(p) =>
                                           PartsOf(F(j) \o p) = S(j) \cup {p}}
<1>1. 0 \in T
  <2>1. Lead(m, ks, 0) = <<>>
    BY DEF Lead
  <2>2. F(0) = <<>>
    BY <2>1, FlattenOne, EmptySeq
  <2>3. \A p \in Seq(Byte) : F(0) \o p = p
    BY <2>2, ConcatEmptySeq
  <2>4. S(0) = {}
    BY DEF LeadPairs
  <2> HIDE DEF F, S
  <2>5. QED
    BY <2>3, <2>4, PartsOfOne
<1>2. ASSUME NEW j \in Nat, j \in T PROVE j + 1 \in T
  <2>1. SUFFICES ASSUME j + 1 <= n, NEW p \in Seq(Byte), NoAmpersand(p)
                 PROVE  PartsOf(F(j + 1) \o p) = S(j + 1) \cup {p}
    OBVIOUS
  <2> DEFINE q == Pair(m, ks[j + 1])
             t == F(j) \o q
  <2>2. j < n /\ j <= n /\ j + 1 \in 1..n
    BY <2>1
  <2>3. F(j + 1) = t \o <<Ampersand>> /\ F(j) \in Seq(Byte)
    BY <2>2, LeadFacts, PrintableIsByte
  <2>4. q \in Seq(Byte) /\ NoAmpersand(q)
    BY <2>2, PairFacts
  <2>5. S(j + 1) = S(j) \cup {q}
    <3>1. 1..j + 1 = 1..j \cup {j + 1}
      OBVIOUS
    <3>2. QED
      BY <3>1 DEF LeadPairs
  <2> HIDE DEF F, S, q
  <2>6. t \in Seq(Byte)
    BY <2>3, <2>4, ConcatProperties
  <2>7. PartsOf(t) = S(j) \cup {q}
    BY <1>2, <2>2, <2>4
  <2> HIDE DEF t
  <2>8. PartsOf((t \o <<Ampersand>>) \o p) = PartsOf(t) \cup {p}
    BY <2>1, <2>6, PartsOfMore
  <2>9. QED
    BY <2>3, <2>5, <2>7, <2>8
<1>3. Nat \subseteq T
  <2> HIDE DEF T
  <2> QED BY <1>1, <1>2, NaturalsByInduction
<1>4. QED
  BY <1>3

(* The text of a query is printable, is empty for the empty map, and is    *)
(* split into the pairs of the map, each of them once and no other.        *)
LEMMA FlattenFacts ==
  ASSUME NEW m, IsQueryMap(m)
  PROVE  /\ flattenQueryMap(m) \in Seq(Printable)
         /\ DOMAIN m = {} => flattenQueryMap(m) = <<>>
         /\ DOMAIN m # {} => PartsOf(flattenQueryMap(m)) = {Pair(m,
             k) : k \in DOMAIN m}
<1> DEFINE n == Cardinality(DOMAIN m)
           ks == Ascending(DOMAIN m)
           Item(i) == Pair(m, ks[i]) \o IF i < n THEN <<Ampersand>> ELSE <<>>
<1>1. /\ n \in Nat /\ ks \in [1..n -> DOMAIN m]
      /\ \A k \in DOMAIN m : \E i \in 1..n : ks[i] = k
  BY AscendingEnumerates DEF IsQueryMap
<1> HIDE DEF n, ks
<1>2. DOMAIN ks = 1..n /\ Len(ks) = n
  BY <1>1
<1>3. flattenQueryMap(m) = FlattenSeq([i \in 1..n |-> Item(i)])
  <2>1. flattenQueryMap(m) = FlattenSeq([i \in DOMAIN ks |->
            Pair(m, ks[i]) \o IF i < Len(ks) THEN <<Ampersand>> ELSE <<>>])
    BY DEF flattenQueryMap, ks
  <2>2. QED
    BY <1>2, <2>1
<1>4. CASE n = 0
  <2>1. DOMAIN m = {}
    BY <1>1, <1>4, FS_EmptySet DEF n, IsQueryMap
  <2>2. [i \in 1..n |-> Item(i)] = <<>>
    BY <1>4
  <2>3. FlattenSeq(<<>>) = <<>>
    BY FlattenOne, EmptySeq
  <2>4. flattenQueryMap(m) = <<>>
    <3> HIDE DEF Item
    <3> QED BY <1>3, <2>2, <2>3
  <2>5. QED
    BY <2>1, <2>4, EmptySeq
<1>5. CASE n # 0
  <2> DEFINE j == n - 1
             q == Pair(m, ks[n])
             f == FlattenSeq(Lead(m, ks, j))
  <2>1. j \in Nat /\ j <= n /\ n \in 1..n /\ j + 1 = n
    BY <1>1, <1>5
  <2>2. q \in Seq(Printable) /\ q \in Seq(Byte) /\ NoAmpersand(q)
    BY <1>1, <2>1, PairFacts
  <2>3. Lead(m, ks, j) \in Seq(Seq(Printable)) /\ f \in Seq(Printable)
    BY <1>1, <2>1, LeadFacts
  <2>4. \A i \in 1..j : Item(i) = Pair(m, ks[i]) \o <<Ampersand>>
    BY <1>1
  <2>5. Item(n) = q
    BY <1>1, <2>2, ConcatEmptySeq
  <2> HIDE DEF Item, q, j
  <2>6. [i \in 1..n |-> Item(i)] = Append(Lead(m, ks, j), q)
    <3>1. Lead(m, ks, j) = [i \in 1..j |-> Item(i)]
      BY <2>4 DEF Lead
    <3>2. QED
      BY <3>1, <2>1, <2>5
  <2>7. flattenQueryMap(m) = f \o q
    BY <1>3, <2>2, <2>3, <2>6, FlattenAppend
  <2>8. PartsOf(f \o q) = {Pair(m, ks[i]) : i \in 1..j} \cup {q}
    <3>1. PartsOf(f \o q) = LeadPairs(m, ks, j) \cup {q}
      BY <1>1, <2>1, <2>2, LeadParts
    <3>2. QED
      BY <3>1 DEF LeadPairs
  <2>9. {Pair(m, ks[i]) : i \in 1..j} \cup {q} = {Pair(m, k) : k \in DOMAIN m}
    <3>1. \A i \in 1..j : ks[i] \in DOMAIN m
      BY <1>1, <2>1
    <3>2. ks[n] \in DOMAIN m
      BY <1>1, <2>1
    <3>3. ASSUME NEW k \in DOMAIN m
          PROVE  Pair(m, k) \in {Pair(m, ks[i]) : i \in 1..j} \cup {q}
      <4>1. PICK i \in 1..n : ks[i] = k
        BY <1>1
      <4>2. i \in 1..j \/ i = n
        BY <2>1
      <4>3. QED
        BY <4>1, <4>2 DEF q
    <3>4. QED
      BY <3>1, <3>2, <3>3 DEF q
  <2>10. DOMAIN m # {}
    BY <1>1, <2>1
  <2>11. f \o q \in Seq(Printable)
    <3> HIDE DEF f
    <3> QED BY <2>2, <2>3, ConcatProperties
  <2>12. QED
    BY <2>7, <2>8, <2>9, <2>10, <2>11
<1>6. QED
  BY <1>4, <1>5

(* The name of the part behind a cut, and the first cut with that name *)
KeyAfter(t, cut) == uriDecode(KeyIn(PartAfter(t, cut)))
FirstCut(t, k) == Min({cut \in Cuts(t) : KeyAfter(t, cut) = k})

(* The part a name is taken from has that name. *)
LEMMA FirstCutFacts ==
  ASSUME NEW t \in Seq(Byte), NEW k \in {KeyAfter(t, cut) : cut \in Cuts(t)}
  PROVE  FirstCut(t, k) \in Cuts(t) /\ KeyAfter(t, FirstCut(t, k)) = k
<1> DEFINE T == {cut \in Cuts(t) : KeyAfter(t, cut) = k}
<1>1. T \subseteq Nat /\ T # {}
  BY TextFacts DEF Cuts
<1>2. \E x \in T : \A y \in T : x <= y
  <2> HIDE DEF T
  <2> QED BY <1>1, LeastNatural
<1>3. Min(T) \in T
  <2> HIDE DEF T
  <2> QED BY <1>2 DEF Min
<1>4. QED
  BY <1>3 DEF FirstCut

(* generateQueryMap in the words of KeyAfter and FirstCut. *)
LEMMA GeneratedMap ==
  ASSUME NEW map, NEW t
  PROVE  generateQueryMap(map, t) =
           [k \in DOMAIN map \cup {KeyAfter(t, cut) : cut \in Cuts(t)} |->
              IF k \in DOMAIN map THEN map[k]
              ELSE uriDecode(ValueIn(PartAfter(t, FirstCut(t, k))))]
BY DEF generateQueryMap, KeyAfter, FirstCut

(* Name and value of a part are strings, with an "=" or without. *)
LEMMA SidesAreText ==
  ASSUME NEW p \in Seq(Byte)
  PROVE  KeyIn(p) \in Seq(Byte) /\ ValueIn(p) \in Seq(Byte)
<1>1. CASE EqualsIn(p) = {}
  BY <1>1 DEF KeyIn, ValueIn
<1>2. CASE EqualsIn(p) # {}
  <2> DEFINE T == EqualsIn(p)
             e == Min(T)
  <2>1. T \subseteq 1..Len(p) /\ T \subseteq Nat /\ Len(p) \in Nat
    BY TextFacts DEF EqualsIn
  <2>2. \E x \in T : \A y \in T : x <= y
    <3> HIDE DEF T
    <3> QED BY <1>2, <2>1, LeastNatural DEF T
  <2>3. e \in 1..Len(p)
    BY <2>1, <2>2 DEF Min
  <2> HIDE DEF e, T
  <2>4. KeyIn(p) = SubSeq(p, 1, e - 1) /\ ValueIn(p) = SubSeq(p, e + 1, Len(p))
    BY <1>2 DEF KeyIn, ValueIn, e, T
  <2>5. /\ e - 1 \in Int /\ e + 1 \in Int
        /\ \A i \in 1..e - 1 : p[i] \in Byte
        /\ \A i \in e + 1..Len(p) : p[i] \in Byte
    BY <2>1, <2>3, TextFacts
  <2>6. SubSeq(p, 1, e - 1) \in Seq(Byte)
    BY <2>5, SubSeqProperties
  <2>7. SubSeq(p, e + 1, Len(p)) \in Seq(Byte)
    BY <2>1, <2>5, SubSeqProperties
  <2>8. QED
    BY <2>4, <2>6, <2>7
<1>3. QED
  BY <1>1, <1>2

(* A map made of any text has strings for names and values. *)
LEMMA GeneratedIsText ==
  ASSUME NEW map, NEW t \in Seq(Byte), DOMAIN map \subseteq Seq(Byte),
         \A k \in DOMAIN map : map[k] \in Seq(Byte)
  PROVE  LET g == generateQueryMap(map, t)
         IN  DOMAIN g \subseteq Seq(Byte) /\ \A k \in DOMAIN g : g[k] \in Seq(Byte)
<1> DEFINE keys == {KeyAfter(t, cut) : cut \in Cuts(t)}
           g == generateQueryMap(map, t)
<1>1. \A cut \in Cuts(t) : KeyAfter(t, cut) \in Seq(Byte)
  BY PartIsText, SidesAreText, DecodeIsBytes DEF KeyAfter
<1>2. \A cut \in Cuts(t) : uriDecode(ValueIn(PartAfter(t, cut))) \in Seq(Byte)
  BY PartIsText, SidesAreText, DecodeIsBytes
<1>3. \A k \in keys : FirstCut(t, k) \in Cuts(t)
  BY FirstCutFacts
<1>4. g = [k \in DOMAIN map \cup keys |->
              IF k \in DOMAIN map THEN map[k]
              ELSE uriDecode(ValueIn(PartAfter(t, FirstCut(t, k))))]
  BY GeneratedMap
<1>5. keys \subseteq Seq(Byte)
  BY <1>1
<1> HIDE DEF keys, g
<1>6. DOMAIN g = DOMAIN map \cup keys
  BY <1>4
<1>7. ASSUME NEW k \in DOMAIN g PROVE g[k] \in Seq(Byte)
  <2>1. CASE k \in DOMAIN map
    BY <2>1, <1>4, <1>6
  <2>2. CASE k \notin DOMAIN map
    <3>1. k \in keys /\ g[k] = uriDecode(ValueIn(PartAfter(t, FirstCut(t, k))))
      BY <2>2, <1>4, <1>6
    <3>2. QED
      BY <3>1, <1>2, <1>3
  <2>3. QED
    BY <2>1, <2>2
<1>8. QED
  BY <1>5, <1>6, <1>7 DEF g

(* generateQueryMap gives back the map flattenQueryMap was given, whatever *)
(* bytes its names and values have: what the server parses out of a target *)
(* is what the client was told.                                            *)
THEOREM GenerateUndoesFlatten ==
  ASSUME NEW m, IsQueryMap(m), DOMAIN m # {}
  PROVE  generateQueryMap(EmptyMap, flattenQueryMap(m)) = m
<1> DEFINE t == flattenQueryMap(m)
           keys == {KeyAfter(t, cut) : cut \in Cuts(t)}
           g == generateQueryMap(EmptyMap, t)
<1>1. t \in Seq(Byte)
  BY FlattenFacts, PrintableIsByte
<1>2. PartsOf(t) = {Pair(m, k) : k \in DOMAIN m}
  BY FlattenFacts
<1>3. ASSUME NEW k \in DOMAIN m
      PROVE  uriDecode(KeyIn(Pair(m, k))) = k /\ uriDecode(ValueIn(Pair(m, k))) = m[k]
  <2>1. k \in Seq(Byte) /\ m[k] \in Seq(Byte)
    BY DEF IsQueryMap
  <2>2. KeyIn(Pair(m, k)) = uriEncode(k) /\ ValueIn(Pair(m, k)) = uriEncode(m[k])
    BY PairFacts
  <2>3. QED
    BY <2>1, <2>2, DecodeUndoesEncode
<1> HIDE DEF t
<1>4. ASSUME NEW cut \in Cuts(t)
      PROVE  /\ KeyAfter(t, cut) \in DOMAIN m
             /\ uriDecode(ValueIn(PartAfter(t, cut))) = m[KeyAfter(t, cut)]
  <2>1. PICK k \in DOMAIN m : PartAfter(t, cut) = Pair(m, k)
    BY <1>2 DEF PartsOf
  <2>2. QED
    BY <2>1, <1>3 DEF KeyAfter
<1>5. ASSUME NEW k \in DOMAIN m PROVE k \in keys
  <2>1. PICK cut \in Cuts(t) : PartAfter(t, cut) = Pair(m, k)
    BY <1>2 DEF PartsOf
  <2>2. KeyAfter(t, cut) = k
    BY <2>1, <1>3 DEF KeyAfter
  <2>3. QED
    BY <2>2
<1>6. keys = DOMAIN m
  BY <1>4, <1>5
<1>7. g = [k \in DOMAIN EmptyMap \cup keys |->
              IF k \in DOMAIN EmptyMap THEN EmptyMap[k]
              ELSE uriDecode(ValueIn(PartAfter(t, FirstCut(t, k))))]
  BY GeneratedMap
<1>8. ASSUME NEW k \in DOMAIN m
      PROVE  uriDecode(ValueIn(PartAfter(t, FirstCut(t, k)))) = m[k]
  <2>1. FirstCut(t, k) \in Cuts(t) /\ KeyAfter(t, FirstCut(t, k)) = k
    BY <1>1, <1>5, FirstCutFacts
  <2>2. QED
    BY <2>1, <1>4
<1>9. DOMAIN EmptyMap = {}
  BY DEF EmptyMap
<1> HIDE DEF keys, g
<1>10. g = [k \in DOMAIN m |-> uriDecode(ValueIn(PartAfter(t, FirstCut(t, k))))]
  BY <1>6, <1>7, <1>9
<1>11. g = [k \in DOMAIN m |-> m[k]]
  BY <1>8, <1>10
<1>12. m = [k \in DOMAIN m |-> m[k]]
  BY DEF IsQueryMap
<1>13. QED
  BY <1>11, <1>12 DEF g, t
=============================================================================
