---------------------------- MODULE CookiesProofs ---------------------------
(***************************************************************************)
(* Theorems about Cookies, for all names that are not attributes, all maps *)
(* and ages and every bound.                                               *)
(***************************************************************************)
EXTENDS Cookies, WellFoundedInduction, TLAPS

(***************************************************************************)
(* Texts and maps                                                          *)
(***************************************************************************)

(* A name has its place in the byte order. *)
LEMMA Positions ==
  ASSUME NEW n \in Ordered
  PROVE  Position(n) \in Int /\ Position(n) \in 1..19 /\ ByteOrder[Position(n)] = n
<1>1. DOMAIN ByteOrder = 1..19
  BY DEF ByteOrder
<1>2. Position(n) \in DOMAIN ByteOrder /\ ByteOrder[Position(n)] = n
  BY DEF Ordered, Position
<1>3. QED
  BY <1>1, <1>2

(* The names toString writes are in the order. *)
LEMMA OrderedNames ==
  {"", "Comment", "Domain", "HttpOnly", "Max-Age", "Path", "Priority", "SameSite",
   "Version", "domain", "expires", "path", "secure"} \subseteq Ordered
<1>1. DOMAIN ByteOrder = 1..19
  BY DEF ByteOrder
<1>2. \A i \in 1..19 : ByteOrder[i] \in Ordered
  BY <1>1 DEF Ordered
<1>3. /\ ByteOrder[1] = "" /\ ByteOrder[2] = "Comment" /\ ByteOrder[3] = "Domain"
      /\ ByteOrder[4] = "HttpOnly" /\ ByteOrder[6] = "Max-Age"
           /\ ByteOrder[7] = "Path"
      /\ ByteOrder[8] = "Priority" /\ ByteOrder[9] = "SameSite"
           /\ ByteOrder[10] = "Version"
      /\ ByteOrder[12] = "domain" /\ ByteOrder[13] = "expires"
           /\ ByteOrder[15] = "path"
      /\ ByteOrder[17] = "secure"
  BY DEF ByteOrder
<1>4. "" \in Ordered /\ "Comment" \in Ordered /\ "Domain" \in Ordered
        /\ "HttpOnly" \in Ordered
      /\ "Max-Age" \in Ordered
  <2>1. 1 \in 1..19 /\ 2 \in 1..19 /\ 3 \in 1..19 /\ 4 \in 1..19 /\ 6 \in 1..19
    OBVIOUS
  <2>2. QED
    BY <1>2, <1>3, <2>1
<1>5. "Path" \in Ordered /\ "Priority" \in Ordered /\ "SameSite" \in Ordered
        /\ "Version" \in Ordered
  <2>1. 7 \in 1..19 /\ 8 \in 1..19 /\ 9 \in 1..19 /\ 10 \in 1..19
    OBVIOUS
  <2>2. QED
    BY <1>2, <1>3, <2>1
<1>6. "domain" \in Ordered /\ "expires" \in Ordered /\ "path" \in Ordered
        /\ "secure" \in Ordered
  <2>1. 12 \in 1..19 /\ 13 \in 1..19 /\ 15 \in 1..19 /\ 17 \in 1..19
    OBVIOUS
  <2>2. QED
    BY <1>2, <1>3, <2>1
<1>7. QED
  BY <1>4, <1>5, <1>6

(* A name with no other behind it is the last. *)
LEMMA LastOfTwo ==
  ASSUME NEW names \in SUBSET Ordered, NEW n \in names,
         \A m \in names : Position(m) <= Position(n)
  PROVE  LastName(names) = n
<1> DEFINE k == LastName(names)
<1>1. k \in names /\ \A m \in names : Position(m) <= Position(k)
  BY DEF LastName
<1> HIDE DEF k
<1>2. Position(k) = Position(n)
  <2>1. Position(k) \in Int /\ Position(n) \in Int
    BY <1>1, Positions
  <2>2. QED
    BY <1>1, <2>1
<1>3. k = n
  BY <1>1, <1>2, Positions
<1>4. QED
  BY <1>3 DEF k

(* The attributes a Netscape header has beside the name of the cookie, and *)
(* those an RFC 2109 header has                                            *)
NetscapeNames(c) ==
    {n \in {"domain", "path", "Priority"} : Shown(c, n) # ""}
        \cup {n \in {"expires"} : c.maxAge # -1} \cup Flags(c)
RfcNames(c) ==
    {n \in {"Comment", "Domain", "Path", "Priority"} : Shown(c, n) # ""}
        \cup {n \in {"Max-Age"} : c.maxAge # -1} \cup Flags(c) \cup {"Version"}

(* What the text of a version 0 cookie says: name and value, and what is   *)
(* there of the attributes.                                                *)
LEMMA NetscapeFacts ==
  ASSUME NEW c
  PROVE  LET a == Netscape(c)
         IN  /\ DOMAIN a = {c.name} \cup NetscapeNames(c)
             /\ a[c.name] = c.value
             /\ \A n \in DOMAIN a : n # c.name => a[n] = Shown(c, n)
BY DEF Netscape, Written, NetscapeNames

(* The names in the text of a version 1 cookie *)
LEMMA RfcFacts ==
  ASSUME NEW c
  PROVE  LET a == Rfc2109(c)
         IN  DOMAIN a = {c.name} \cup RfcNames(c)
BY DEF Rfc2109, Written, RfcNames

(* The values of the attributes *)
LEMMA ShownFacts ==
  ASSUME NEW c
  PROVE  /\ Shown(c, "domain") = c.domain /\ Shown(c, "path") = c.path
         /\ Shown(c, "Priority") = c.priority /\ Shown(c, "SameSite") = c.sameSite
         /\ Shown(c, "expires") = Expires(c)
BY DEF Shown

(* The flags that are written are those that are set. *)
LEMMA FlagsFacts ==
  ASSUME NEW c
  PROVE  /\ Flags(c) \subseteq {"SameSite", "secure", "HttpOnly"}
         /\ "SameSite" \in Flags(c) <=> c.sameSite # "not specified"
         /\ "secure" \in Flags(c) <=> c.secure
         /\ "HttpOnly" \in Flags(c) <=> c.httpOnly
BY DEF Flags, FlagsAll, FlagsWithoutHttpOnly

(* A cookie with all its fields, called unlike an attribute *)
Proper(c) ==
    /\ c = [version |-> c.version, name |-> c.name, value |-> c.value,
        comment |-> c.comment,
            domain |-> c.domain, path |-> c.path, priority |-> c.priority,
             secure |-> c.secure,
            maxAge |-> c.maxAge, httpOnly |-> c.httpOnly, sameSite |-> c.sameSite]
    /\ c.name \in Ordered \ Known /\ c.maxAge \in Int
    /\ c.secure \in BOOLEAN /\ c.httpOnly \in BOOLEAN /\ c.sameSite \in SameSite

(* A map the constructor can read: stoi and get_time understand it. *)
IsInput(attrs) ==
    /\ DOMAIN attrs \subseteq Ordered
    /\ "expires" \in DOMAIN attrs => attrs["expires"] \in Int
    /\ "max-age" \in DOMAIN attrs => attrs["max-age"] \in Int

(* The cookie made of a map now is the cookie the map was written of, as   *)
(* far as WrittenIsRead says so.                                           *)
Recovers(attrs, c) ==
    LET d == OfMap(attrs)
    IN  c.version = 0 =>
            /\ d.domain = c.domain /\ d.path = c.path
            /\ d.secure = c.secure /\ d.httpOnly = c.httpOnly
            /\ d.sameSite = c.sameSite
            /\ \/ d.name = c.name /\ d.value = c.value
               \/ c.priority # "" /\ Position(c.name) < Position("Priority")

(* Which of the names toString writes the constructor knows: not           *)
(* "Priority".                                                             *)
LEMMA NamesApart ==
  /\ "not specified" \notin {"None", "Lax", "Strict"}
  /\ {"", "Comment", "Domain", "Max-Age", "Path", "Priority", "Version"}
        \cap Known = {}
  /\ {"domain", "path", "expires", "SameSite", "secure", "HttpOnly"} \subseteq Known
BY DEF Known

(* Ages: what an int keeps of a number is a number, *)
LEMMA IntsNarrow ==
  /\ Ints \subseteq Int
  /\ \A n \in Int : Narrow(n) \in Int
<1>1. IntSize \in Nat \ {0}
  BY CookiesAssumption
<1>2. Ints \subseteq Int
  BY <1>1 DEF Ints
<1>3. ASSUME NEW n \in Int PROVE Narrow(n) \in Int
  <2>1. (n + IntSize) % (2 * IntSize) \in Int
    BY <1>1
  <2>2. QED
    BY <2>1, <1>1 DEF Narrow
<1>4. QED
  BY <1>2, <1>3

(* and what localtime shows is one. *)
LEMMA SummerTimeIsInt == \A t : SummerTime(t) \in Int
<1>1. Hour \in Nat
  BY CookiesAssumption
<1>2. QED
  BY <1>1 DEF SummerTime

(* What toString writes is a map the constructor can read. *)
LEMMA AttributesAreInput ==
  ASSUME NEW c, Proper(c), now \in Int
  PROVE  IsInput(Attributes(c))
<1>1. c.name \in Ordered \ Known /\ c.maxAge \in Int
  BY DEF Proper
<1>2. Expires(c) \in Int
  <2>1. Expiry(c) \in Int
    BY <1>1 DEF Expiry
  <2>2. QED
    BY <2>1, SummerTimeIsInt DEF Expires
<1>3. CASE c.version = 0
  <2> DEFINE a == Netscape(c)
  <2>1. /\ DOMAIN a \subseteq {c.name}
                              \cup {"domain", "path", "Priority", "expires",
                               "SameSite", "secure", "HttpOnly"}
        /\ \A n \in DOMAIN a : n # c.name => a[n] = Shown(c, n)
    <3>1. \A n \in DOMAIN a : n # c.name => a[n] = Shown(c, n)
      BY NetscapeFacts
    <3>2. DOMAIN a = {c.name} \cup NetscapeNames(c)
      BY NetscapeFacts
    <3> HIDE DEF a
    <3>3. QED
      BY <3>1, <3>2, FlagsFacts DEF NetscapeNames
  <2> HIDE DEF a
  <2>2. "expires" # c.name /\ "max-age" # c.name
    BY <1>1 DEF Known
  <2>3. DOMAIN a \subseteq Ordered
    BY <1>1, <2>1, OrderedNames
  <2>4. "expires" \in DOMAIN a => a["expires"] \in Int
    BY <1>2, <2>1, <2>2, ShownFacts
  <2>5. "max-age" \notin DOMAIN a
    BY <2>1, <2>2
  <2>6. Attributes(c) = a
    BY <1>3 DEF Attributes, a
  <2>7. QED
    BY <2>3, <2>4, <2>5, <2>6 DEF IsInput
<1>4. CASE c.version # 0
  <2> DEFINE a == Rfc2109(c)
  <2>1. DOMAIN a \subseteq {c.name}
                           \cup {"Comment", "Domain", "Path", "Priority", "Max-Age",
                            "Version", "SameSite", "secure", "HttpOnly"}
    <3>1. DOMAIN a = {c.name} \cup RfcNames(c)
      BY RfcFacts
    <3> HIDE DEF a
    <3>2. QED
      BY <3>1, FlagsFacts DEF RfcNames
  <2> HIDE DEF a
  <2>2. "expires" # c.name /\ "max-age" # c.name
    BY <1>1 DEF Known
  <2>3. DOMAIN a \subseteq Ordered
    BY <1>1, <2>1, OrderedNames
  <2>4. "expires" \notin DOMAIN a /\ "max-age" \notin DOMAIN a
    BY <2>1, <2>2
  <2>5. Attributes(c) = a
    BY <1>4 DEF Attributes, a
  <2>6. QED
    BY <2>3, <2>4, <2>5 DEF IsInput
<1>5. QED
  BY <1>3, <1>4

(* What the constructor takes from a map, and what it takes for the name *)
Given(attrs, name, default) == IF name \in DOMAIN attrs THEN attrs[name] ELSE default
Named(attrs) ==
    IF DOMAIN attrs \subseteq Known THEN "" ELSE LastName(DOMAIN attrs \ Known)

(* The fields of a cookie that is made of a map *)
LEMMA OfMapFields ==
  ASSUME NEW attrs
  PROVE  LET d == OfMap(attrs)
         IN  /\ d = [version |-> d.version, name |-> d.name, value |-> d.value,
                 comment |-> d.comment,
                     domain |-> d.domain, path |-> d.path, priority |-> d.priority,
                      secure |-> d.secure,
                     maxAge |-> d.maxAge, httpOnly |-> d.httpOnly,
                      sameSite |-> d.sameSite]
             /\ d.name = Named(attrs) /\ d.value = Given(attrs, Named(attrs), "")
             /\ d.domain = Given(attrs, "domain", "")
                  /\ d.path = Given(attrs, "path", "")
             /\ d.maxAge = IF "expires" \in DOMAIN attrs
                  /\ "max-age" \notin DOMAIN attrs
                           THEN Remaining(attrs["expires"]) ELSE Given(attrs,
                            "max-age", -1)
             /\ d.sameSite = IF Given(attrs, "SameSite", "other") \in SameSite
                             THEN attrs["SameSite"] ELSE "not specified"
BY DEF OfMap, Given, Named

(* ... and its flags, which are Booleans *)
LEMMA OfMapFlags ==
  ASSUME NEW attrs
  PROVE  LET d == OfMap(attrs)
         IN  /\ d.secure \in BOOLEAN /\ d.httpOnly \in BOOLEAN
             /\ d.secure <=> "secure" \in DOMAIN attrs
             /\ d.httpOnly <=> "HttpOnly" \in DOMAIN attrs
<1>1. OfMap(attrs).secure \in BOOLEAN
  BY DEF OfMap
<1>2. OfMap(attrs).httpOnly \in BOOLEAN
  BY DEF OfMap
<1>3. OfMap(attrs).secure <=> "secure" \in DOMAIN attrs
  BY DEF OfMap
<1>4. OfMap(attrs).httpOnly <=> "HttpOnly" \in DOMAIN attrs
  BY DEF OfMap
<1>5. QED
  BY <1>1, <1>2, <1>3, <1>4

(* Booleans that are equivalent are equal. *)
LEMMA SameFlag ==
  ASSUME NEW x \in BOOLEAN, NEW y \in BOOLEAN, x <=> y
  PROVE  x = y
OBVIOUS

(* A map with a name that is no attribute has a last one. *)
LEMMA LastExists ==
  ASSUME NEW names \in SUBSET Ordered, names # {}
  PROVE  LastName(names) \in names
<1> DEFINE After(n) == 19 - Position(n)
           T == {After(n) : n \in names}
<1>1. \A n \in names : Position(n) \in Int /\ After(n) \in Nat
  BY Positions
<1>2. T \subseteq Nat /\ T # {}
  BY <1>1
<1>3. PICK x \in T : \A y \in T : <<y, x>> \notin OpToRel(<, Nat)
  <2> HIDE DEF T
  <2> QED BY <1>2, WFMin, NatLessThanWellFounded
<1>4. PICK n \in names : x = After(n)
  OBVIOUS
<1>5. ASSUME NEW m \in names PROVE Position(m) <= Position(n)
  <2>1. After(m) \in T /\ After(m) \in Nat /\ After(n) \in Nat
    BY <1>1
  <2> DEFINE y == After(m)
  <2>2. <<y, x>> \in Nat \X Nat /\ (y < x => <<y, x>> \in OpToRel(<, Nat))
    <3> HIDE DEF y
    <3> QED BY <2>1, <1>4 DEF OpToRel, y
  <2>3. ~(After(m) < After(n))
    BY <1>3, <1>4, <2>1, <2>2
  <2>4. QED
    BY <1>1, <2>3
<1>6. QED
  BY <1>5 DEF LastName

(* A cookie made of a map has no attribute's name. *)
LEMMA NamedIsName ==
  ASSUME NEW attrs, IsInput(attrs)
  PROVE  Named(attrs) \in Ordered \ Known
<1>1. CASE DOMAIN attrs \subseteq Known
  BY <1>1, OrderedNames, NamesApart DEF Named
<1>2. CASE ~(DOMAIN attrs \subseteq Known)
  <2> DEFINE names == DOMAIN attrs \ Known
  <2>1. names \in SUBSET Ordered /\ names # {}
    BY <1>2 DEF IsInput
  <2>2. LastName(names) \in names
    <3> HIDE DEF names
    <3> QED BY <2>1, LastExists
  <2>4. QED
    BY <1>2, <2>1, <2>2 DEF Named
<1>3. QED
  BY <1>1, <1>2

(* A map that can be read makes a proper cookie. *)
LEMMA OfMapIsProper ==
  ASSUME NEW attrs, IsInput(attrs), now \in Int
  PROVE  Proper(OfMap(attrs))
<1> DEFINE d == OfMap(attrs)
<1>1. d.name \in Ordered \ Known
  BY NamedIsName, OfMapFields
<1>2. d.maxAge \in Int
  <2>1. d.maxAge = IF "expires" \in DOMAIN attrs /\ "max-age" \notin DOMAIN attrs
                   THEN Remaining(attrs["expires"]) ELSE Given(attrs, "max-age", -1)
    BY OfMapFields
  <2>2. \A e \in Int : Remaining(e) \in Int
    <3>1. \A e \in Int : WholeSeconds(2 * e - now) \in Int
      BY DEF WholeSeconds
    <3>2. QED
      BY <3>1, IntsNarrow DEF Remaining, RemainingCut
  <2> HIDE DEF d
  <2>3. QED
    BY <2>1, <2>2 DEF Given, IsInput
<1>3. d.secure \in BOOLEAN /\ d.httpOnly \in BOOLEAN
  BY OfMapFlags
<1>4. d.sameSite \in SameSite
  <2>1. d.sameSite = IF Given(attrs, "SameSite", "other") \in SameSite
                     THEN attrs["SameSite"] ELSE "not specified"
    BY OfMapFields
  <2>2. "other" \notin SameSite /\ "not specified" \in SameSite
    BY DEF SameSite
  <2> HIDE DEF d
  <2>3. QED
    BY <2>1, <2>2 DEF Given
<1>5. d = [version |-> d.version, name |-> d.name, value |-> d.value,
       comment |-> d.comment,
           domain |-> d.domain, path |-> d.path, priority |-> d.priority,
            secure |-> d.secure,
           maxAge |-> d.maxAge, httpOnly |-> d.httpOnly, sameSite |-> d.sameSite]
  BY OfMapFields
<1> HIDE DEF d
<1>6. Proper(d)
  BY <1>1, <1>2, <1>3, <1>4, <1>5 DEF Proper
<1>7. QED
  BY <1>6 DEF d

(* What a map has to say of a cookie for the constructor to make it again. *)
(* Unlike Recovers it does not depend on the clock.                        *)
Carries(a, c) ==
    /\ c.name \in DOMAIN a /\ a[c.name] = c.value
    /\ "domain" \in DOMAIN a <=> c.domain # ""
    /\ "domain" \in DOMAIN a => a["domain"] = c.domain
    /\ "path" \in DOMAIN a <=> c.path # ""
    /\ "path" \in DOMAIN a => a["path"] = c.path
    /\ "secure" \in DOMAIN a <=> c.secure
    /\ "HttpOnly" \in DOMAIN a <=> c.httpOnly
    /\ "SameSite" \in DOMAIN a <=> c.sameSite # "not specified"
    /\ "SameSite" \in DOMAIN a => a["SameSite"] = c.sameSite
    /\ DOMAIN a \ Known \subseteq {c.name, "Priority"}
    /\ "Priority" \in DOMAIN a => c.name = "Priority" \/ c.priority # ""

(* The text of a version 0 cookie carries it. *)
LEMMA NetscapeCarries ==
  ASSUME NEW c, Proper(c), c.version = 0
  PROVE  Carries(Attributes(c), c)
<1> DEFINE a == Attributes(c)
<1>1. /\ DOMAIN a = {c.name} \cup NetscapeNames(c)
      /\ a[c.name] = c.value
      /\ \A n \in DOMAIN a : n # c.name => a[n] = Shown(c, n)
  BY NetscapeFacts DEF Attributes
<1> HIDE DEF a
<1>4. c.name \in Ordered /\ c.name \notin Known
  BY DEF Proper
<1>5. c.name \notin {"domain", "path", "secure", "HttpOnly", "SameSite", "expires"}
  BY <1>4 DEF Known
<1>6. /\ "domain" \in DOMAIN a <=> c.domain # ""
      /\ "domain" \in DOMAIN a => a["domain"] = c.domain
  <2>1. "domain" # c.name /\ "domain" \notin Flags(c) /\ Shown(c, "domain") = c.domain
    BY <1>5, ShownFacts, FlagsFacts
  <2>2. "domain" \in DOMAIN a <=> Shown(c, "domain") # ""
    BY <1>1, <2>1 DEF NetscapeNames
  <2>3. QED
    BY <1>1, <2>1, <2>2
<1>7. /\ "path" \in DOMAIN a <=> c.path # ""
      /\ "path" \in DOMAIN a => a["path"] = c.path
  <2>1. "path" # c.name /\ "path" \notin Flags(c) /\ Shown(c, "path") = c.path
    BY <1>5, ShownFacts, FlagsFacts
  <2>2. "path" \in DOMAIN a <=> Shown(c, "path") # ""
    BY <1>1, <2>1 DEF NetscapeNames
  <2>3. QED
    BY <1>1, <2>1, <2>2
<1>8. /\ "secure" \in DOMAIN a <=> c.secure
      /\ "HttpOnly" \in DOMAIN a <=> c.httpOnly
  BY <1>1, <1>5, FlagsFacts DEF NetscapeNames
<1>9. /\ "SameSite" \in DOMAIN a <=> c.sameSite # "not specified"
      /\ "SameSite" \in DOMAIN a => a["SameSite"] = c.sameSite
  BY <1>1, <1>5, ShownFacts, FlagsFacts DEF NetscapeNames
<1>10. DOMAIN a \ Known \subseteq {c.name, "Priority"}
  <2>1. Flags(c) \subseteq {"SameSite", "secure", "HttpOnly"}
    BY FlagsFacts
  <2>2. DOMAIN a \subseteq {c.name, "Priority"}
                           \cup {"domain", "path", "expires", "SameSite", "secure",
                            "HttpOnly"}
    BY <1>1, <2>1 DEF NetscapeNames
  <2>3. QED
    BY <2>2, NamesApart
<1>11. "Priority" \in DOMAIN a => c.name = "Priority" \/ c.priority # ""
  <2>1. "Priority" \notin Flags(c)
    BY FlagsFacts
  <2>2. "Priority" \in DOMAIN a => c.name = "Priority" \/ Shown(c, "Priority") # ""
    BY <1>1, <2>1 DEF NetscapeNames
  <2>3. QED
    BY <2>2, ShownFacts
<1>12. c.name \in DOMAIN a /\ a[c.name] = c.value
  BY <1>1
<1>13. Carries(a, c)
  BY <1>6, <1>7, <1>8, <1>9, <1>10, <1>11, <1>12 DEF Carries
<1>14. QED
  BY <1>13 DEF a

(* A map that carries a cookie makes that cookie, at any time; its name    *)
(* may be lost to "Priority", if that comes later.                         *)
LEMMA CarriedIsRead ==
  ASSUME NEW c, Proper(c), NEW a, IsInput(a), Carries(a, c)
  PROVE  Recovers(a, c)
<1> DEFINE d == OfMap(a)
<1>2. /\ d.name = Named(a) /\ d.value = Given(a, Named(a), "")
      /\ d.domain = Given(a, "domain", "") /\ d.path = Given(a, "path", "")
      /\ d.sameSite = IF Given(a, "SameSite", "other") \in SameSite
                      THEN a["SameSite"] ELSE "not specified"
  BY OfMapFields
<1>3. /\ d.secure \in BOOLEAN /\ d.httpOnly \in BOOLEAN
      /\ d.secure <=> "secure" \in DOMAIN a
      /\ d.httpOnly <=> "HttpOnly" \in DOMAIN a
  BY OfMapFlags
<1> HIDE DEF d
<1>4. c.name \in Ordered /\ c.name \notin Known
  BY DEF Proper
<1>10. d.domain = c.domain /\ d.path = c.path
  BY <1>2 DEF Given, Carries
<1>11. d.secure = c.secure /\ d.httpOnly = c.httpOnly
  <2>1. c.secure \in BOOLEAN /\ c.httpOnly \in BOOLEAN
    BY DEF Proper
  <2>2. d.secure <=> c.secure
    BY <1>3 DEF Carries
  <2>3. d.httpOnly <=> c.httpOnly
    BY <1>3 DEF Carries
  <2>4. QED
    BY <1>3, <2>1, <2>2, <2>3, SameFlag
<1>12. d.sameSite = c.sameSite
  <2>1. c.sameSite \in SameSite /\ "other" \notin SameSite
    BY DEF Proper, SameSite
  <2>2. QED
    BY <1>2, <2>1 DEF Given, Carries
<1>13. ASSUME c.priority = "" \/ ~(Position(c.name) < Position("Priority"))
       PROVE  d.name = c.name /\ d.value = c.value
  <2> DEFINE names == DOMAIN a \ Known
  <2>1. c.name \in names /\ names \subseteq Ordered
    BY <1>4 DEF Carries, IsInput
  <2>2. /\ names \subseteq {c.name, "Priority"}
        /\ "Priority" \in names => c.name = "Priority" \/ c.priority # ""
    BY DEF Carries
  <2> HIDE DEF names
  <2>3. \A m \in names : Position(m) <= Position(c.name)
    <3>1. Position(c.name) \in Int /\ Position("Priority") \in Int
      BY <1>4, Positions, OrderedNames
    <3>2. SUFFICES ASSUME NEW m \in names,
                           m # c.name PROVE Position(m) <= Position(c.name)
      BY <3>1
    <3>3. m = "Priority" /\ c.priority # ""
      BY <2>2, <3>2
    <3>4. ~(Position(c.name) < Position(m)) /\ Position(m) \in Int
      BY <1>13, <3>1, <3>3
    <3>5. QED
      BY <3>1, <3>4
  <2>4. LastName(names) = c.name
    BY <2>1, <2>3, LastOfTwo
  <2>5. Named(a) = c.name
    BY <2>1, <2>4 DEF Named, names
  <2>6. QED
    BY <1>2, <2>1, <2>5 DEF Given, Carries
<1>14. QED
  BY <1>10, <1>11, <1>12, <1>13 DEF Recovers, d

-----------------------------------------------------------------------------
(***************************************************************************)
(* Steps of a cookie                                                       *)
(***************************************************************************)

(* The text written last carries its cookie; and the age of a cookie that  *)
(* was made of a text is what was left at that moment, which is why        *)
(* ExpiryMovesByTimeKept goes on holding while the clock runs.             *)
TextsCarry ==
    \A t \in text : /\ IsInput(t.attrs) /\ Proper(t.of)
                    /\ t.of.version = 0 => Carries(t.attrs, t.of)
AgeOf(f) ==
    ("expires" \in DOMAIN f.attrs /\ "max-age" \notin DOMAIN f.attrs) =>
        /\ f.attrs["expires"] \in Int /\ f.at \in Int
        /\ cookie.maxAge = Narrow(WholeSeconds(2 * f.attrs["expires"] - f.at))
AgesRead == \A f \in from : AgeOf(f)

(* The inductive invariant *)
IInv == now \in Int /\ Proper(cookie) /\ TextsCarry /\ AgesRead /\ WrittenIsRead

(* A cookie made with a name and a value is proper, *)
LEMMA MadeIsProper ==
  ASSUME NEW n \in Names, NEW v
  PROVE  Proper(Made(n, v))
<1>1. n \in Ordered \ Known
  BY CookiesAssumption
<1> DEFINE c == Made(n, v)
<1>2. c = [version |-> c.version, name |-> c.name, value |-> c.value,
       comment |-> c.comment,
           domain |-> c.domain, path |-> c.path, priority |-> c.priority,
            secure |-> c.secure,
           maxAge |-> c.maxAge, httpOnly |-> c.httpOnly, sameSite |-> c.sameSite]
  BY DEF Made
<1>3. c.name = n /\ c.maxAge = -1 /\ c.sameSite \in SameSite
  BY DEF Made, SameSite
<1>4. c.secure = FALSE /\ c.httpOnly = FALSE
  BY DEF Made
<1> HIDE DEF c
<1>5. c.secure \in BOOLEAN /\ c.httpOnly \in BOOLEAN
  BY <1>4
<1>6. Proper(c)
  BY <1>1, <1>2, <1>3, <1>5 DEF Proper
<1>7. QED
  BY <1>6 DEF c

(* so the invariant holds at first. *)
LEMMA CookiesInit == Init => IInv
<1>1. SUFFICES ASSUME Init PROVE IInv
  OBVIOUS
<1>2. now = 0 /\ text = {} /\ from = {}
  BY <1>1 DEF Init
<1>3. Proper(cookie)
  BY <1>1, MadeIsProper DEF Init
<1>4. QED
  BY <1>2, <1>3 DEF IInv, TextsCarry, AgesRead, WrittenIsRead

(* A setter that leaves a proper cookie keeps the invariant: a cookie that *)
(* was set is not one that was made of a map.                              *)
LEMMA SetKeeps ==
  ASSUME IInv, NEW c, Proper(c), Set(c)
  PROVE  IInv'
<1>1. cookie' = c /\ from' = {} /\ now' = now /\ text' = text
  BY DEF Set
<1>2. TextsCarry'
  BY <1>1 DEF IInv, TextsCarry
<1>3. QED
  BY <1>1, <1>2 DEF IInv, AgesRead, WrittenIsRead

(* Each setter leaves a proper cookie: those of a text, *)
LEMMA TextKeeps ==
  ASSUME Proper(cookie), NEW f \in {"value", "comment", "domain", "path", "priority"}
  PROVE  Proper([cookie EXCEPT ![f] = "text"])
<1>1. CASE f = "value"
  <2>1. [cookie EXCEPT ![f] = "text"] = [cookie EXCEPT !.value = "text"]
    BY <1>1
  <2>2. Proper([cookie EXCEPT !.value = "text"])
    BY DEF Proper
  <2>3. QED
    BY <2>1, <2>2
<1>2. CASE f = "comment"
  <2>1. [cookie EXCEPT ![f] = "text"] = [cookie EXCEPT !.comment = "text"]
    BY <1>2
  <2>2. Proper([cookie EXCEPT !.comment = "text"])
    BY DEF Proper
  <2>3. QED
    BY <2>1, <2>2
<1>3. CASE f = "domain"
  <2>1. [cookie EXCEPT ![f] = "text"] = [cookie EXCEPT !.domain = "text"]
    BY <1>3
  <2>2. Proper([cookie EXCEPT !.domain = "text"])
    BY DEF Proper
  <2>3. QED
    BY <2>1, <2>2
<1>4. CASE f = "path"
  <2>1. [cookie EXCEPT ![f] = "text"] = [cookie EXCEPT !.path = "text"]
    BY <1>4
  <2>2. Proper([cookie EXCEPT !.path = "text"])
    BY DEF Proper
  <2>3. QED
    BY <2>1, <2>2
<1>5. CASE f = "priority"
  <2>1. [cookie EXCEPT ![f] = "text"] = [cookie EXCEPT !.priority = "text"]
    BY <1>5
  <2>2. Proper([cookie EXCEPT !.priority = "text"])
    BY DEF Proper
  <2>3. QED
    BY <2>1, <2>2
<1>6. QED
  BY <1>1, <1>2, <1>3, <1>4, <1>5

(* those of a flag, *)
LEMMA FlagKeeps ==
  ASSUME Proper(cookie), NEW f \in {"secure", "httpOnly"}, NEW b \in BOOLEAN
  PROVE  Proper([cookie EXCEPT ![f] = b])
<1>1. CASE f = "secure"
  <2>1. [cookie EXCEPT ![f] = b] = [cookie EXCEPT !.secure = b]
    BY <1>1
  <2>2. Proper([cookie EXCEPT !.secure = b])
    BY DEF Proper
  <2>3. QED
    BY <2>1, <2>2
<1>2. CASE f = "httpOnly"
  <2>1. [cookie EXCEPT ![f] = b] = [cookie EXCEPT !.httpOnly = b]
    BY <1>2
  <2>2. Proper([cookie EXCEPT !.httpOnly = b])
    BY DEF Proper
  <2>3. QED
    BY <2>1, <2>2
<1>3. QED
  BY <1>1, <1>2

(* setVersion, *)
LEMMA VersionKeeps ==
  ASSUME Proper(cookie), NEW v
  PROVE  Proper([cookie EXCEPT !.version = v])
BY DEF Proper

(* setName, *)
LEMMA NameKeeps ==
  ASSUME Proper(cookie), NEW n \in Names
  PROVE  Proper([cookie EXCEPT !.name = n])
BY CookiesAssumption DEF Proper

(* setMaxAge, *)
LEMMA AgeKeeps ==
  ASSUME Proper(cookie), NEW a \in MaxAges
  PROVE  Proper([cookie EXCEPT !.maxAge = a])
BY CookiesAssumption, IntsNarrow DEF Proper

(* and setSameSite. *)
LEMMA SameSiteKeeps ==
  ASSUME Proper(cookie), NEW s \in SameSite
  PROVE  Proper([cookie EXCEPT !.sameSite = s])
BY DEF Proper

(* The constructor keeps the invariant, of a text or another map. *)
LEMMA MakeKeeps ==
  ASSUME IInv, NEW attrs, IsInput(attrs), NEW of,
         \A c \in of : Proper(c) /\ (c.version = 0 => Carries(attrs, c)),
         makeOf(attrs, of)
  PROVE  IInv'
<1> DEFINE d == OfMap(attrs)
           f == [attrs |-> attrs, of |-> of, at |-> now]
<1>1. cookie' = d /\ from' = {f} /\ now' = now /\ text' = text
  BY DEF makeOf
<1>2. now \in Int /\ Proper(d)
  BY OfMapIsProper DEF IInv
<1>3. TextsCarry'
  BY <1>1 DEF IInv, TextsCarry
<1>4. ("expires" \in DOMAIN attrs /\ "max-age" \notin DOMAIN attrs) =>
        /\ attrs["expires"] \in Int
        /\ d.maxAge = Narrow(WholeSeconds(2 * attrs["expires"] - now))
  <2>1. d.maxAge = IF "expires" \in DOMAIN attrs /\ "max-age" \notin DOMAIN attrs
                   THEN Remaining(attrs["expires"]) ELSE Given(attrs, "max-age", -1)
    BY OfMapFields
  <2> HIDE DEF d
  <2>2. QED
    BY <2>1 DEF Remaining, RemainingCut, IsInput
<1>5. f.attrs = attrs /\ f.of = of /\ f.at = now
  OBVIOUS
<1> HIDE DEF f
<1>6. AgesRead'
  <2> HIDE DEF d
  <2> QED BY <1>1, <1>2, <1>4, <1>5 DEF AgesRead, AgeOf
<1>7. WrittenIsRead'
  <2>1. SUFFICES ASSUME NEW c \in of, c.version = 0
                 PROVE  /\ d.domain = c.domain /\ d.path = c.path
                        /\ d.secure = c.secure /\ d.httpOnly = c.httpOnly
                        /\ d.sameSite = c.sameSite
                        /\ \/ d.name = c.name /\ d.value = c.value
                           \/ c.priority # ""
                                /\ Position(c.name) < Position("Priority")
    <3> HIDE DEF d
    <3> QED BY <1>1, <1>5 DEF WrittenIsRead
  <2>2. Recovers(attrs, c)
    BY <2>1, CarriedIsRead
  <2>3. QED
    BY <2>1, <2>2 DEF Recovers
<1>8. QED
  BY <1>1, <1>2, <1>3, <1>6, <1>7 DEF IInv

(* Every step keeps it. *)
LEMMA CookiesStep == IInv /\ [Next]_vars => IInv'
<1> SUFFICES ASSUME IInv, [Next]_vars PROVE IInv'
  OBVIOUS
<1>1. Proper(cookie) /\ now \in Int
  BY DEF IInv
<1>2. ASSUME NEW f \in {"value", "comment", "domain", "path", "priority"},
              setText(f) PROVE IInv'
  BY <1>1, <1>2, TextKeeps, SetKeeps DEF setText
<1>3. ASSUME NEW v \in {0, 1}, setVersion(v) PROVE IInv'
  <2>1. Proper([cookie EXCEPT !.version = v])
    BY <1>1, VersionKeeps
  <2>2. QED
    BY <1>3, <2>1, SetKeeps DEF setVersion
<1>4. ASSUME NEW n \in Names, setName(n) PROVE IInv'
  BY <1>1, <1>4, NameKeeps, SetKeeps DEF setName
<1>5. ASSUME NEW f \in {"secure", "httpOnly"}, NEW b \in BOOLEAN, setFlag(f,
              b) PROVE IInv'
  BY <1>1, <1>5, FlagKeeps, SetKeeps DEF setFlag
<1>6. ASSUME NEW a \in MaxAges, setMaxAge(a) PROVE IInv'
  BY <1>1, <1>6, AgeKeeps, SetKeeps DEF setMaxAge
<1>7. ASSUME NEW s \in SameSite, setSameSite(s) PROVE IInv'
  BY <1>1, <1>7, SameSiteKeeps, SetKeeps DEF setSameSite
<1>8. CASE toString
  <2> DEFINE t == [attrs |-> Attributes(cookie), of |-> cookie]
  <2>1. text' = {t} /\ cookie' = cookie /\ now' = now /\ from' = from
    BY <1>8 DEF toString
  <2>2. t.attrs = Attributes(cookie) /\ t.of = cookie
    OBVIOUS
  <2>3. /\ IsInput(Attributes(cookie))
        /\ cookie.version = 0 => Carries(Attributes(cookie), cookie)
    BY <1>1, AttributesAreInput, NetscapeCarries
  <2> HIDE DEF t
  <2>4. TextsCarry'
    BY <1>1, <2>1, <2>2, <2>3 DEF TextsCarry
  <2>5. QED
    BY <2>1, <2>4 DEF IInv, AgesRead, AgeOf, WrittenIsRead
<1>9. CASE makeOfText
  <2>1. PICK t \in text : makeOf(t.attrs, {t.of})
    BY <1>9 DEF makeOfText
  <2>2. IsInput(t.attrs) /\ \A c \in {t.of} : Proper(c)
          /\ (c.version = 0 => Carries(t.attrs, c))
    BY <2>1 DEF IInv, TextsCarry
  <2>3. QED
    BY <2>1, <2>2, MakeKeeps
<1>10. CASE makeOfInput
  <2>1. PICK attrs \in Inputs : makeOf(attrs, {})
    BY <1>10 DEF makeOfInput
  <2>2. IsInput(attrs)
    BY CookiesAssumption, IntsNarrow DEF IsInput
  <2>3. QED
    BY <2>1, <2>2, MakeKeeps
<1>11. CASE Tick
  <2>1. cookie' = cookie /\ now' = now + 1 /\ text' = text /\ from' = from
    BY <1>11 DEF Tick
  <2>2. now' \in Int
    BY <2>1, <1>1
  <2>3. TextsCarry'
    BY <2>1 DEF IInv, TextsCarry
  <2>4. AgesRead'
    BY <2>1 DEF IInv, AgesRead, AgeOf
  <2>5. WrittenIsRead'
    BY <2>1 DEF IInv, WrittenIsRead
  <2>6. QED
    BY <2>1, <2>2, <2>3, <2>4, <2>5, <1>1 DEF IInv
<1>12. CASE UNCHANGED vars
  <2>1. cookie' = cookie /\ now' = now /\ text' = text /\ from' = from
    BY <1>12 DEF vars
  <2>2. QED
    BY <2>1 DEF IInv, TextsCarry, AgesRead, AgeOf, WrittenIsRead
<1>13. QED
  BY <1>2, <1>3, <1>4, <1>5, <1>6, <1>7, <1>8, <1>9, <1>10, <1>11, <1>12 DEF Next

(* The invariant holds in every state, for any names, maps, ages and       *)
(* bounds.                                                                 *)
THEOREM CookiesInvariant == Spec => []IInv
BY CookiesInit, CookiesStep, PTL DEF Spec

(* WrittenIsRead: toString and the constructor agree on a version 0        *)
(* cookie, its comment, priority and age apart, whenever it is read.       *)
THEOREM WrittenCookieIsRead == Spec => []WrittenIsRead
<1>1. IInv => WrittenIsRead
  BY DEF IInv
<1>2. QED
  BY <1>1, CookiesInvariant, PTL

(* ExpiryMovesByTimeKept: a cookie that is read and written again moves    *)
(* its expiry by the time it was kept, to the second, and by an hour if    *)
(* localtime shows summer time then, as long as its age is an int.         *)
THEOREM ExpiryMoves == Spec => []ExpiryMovesByTimeKept
<1>1. IInv => ExpiryMovesByTimeKept
  <2> DEFINE left(f) == 2 * f.attrs["expires"] - f.at
             later(f) == 2 * (Expires(cookie) - SummerTime(Expiry(cookie)) - f.attrs["expires"])
  <2>1. SUFFICES ASSUME IInv, NEW f \in from,
                        "expires" \in DOMAIN f.attrs, "max-age" \notin DOMAIN f.attrs,
                        WholeSeconds(left(f)) \in Ints
                 PROVE  IF cookie.maxAge = -1
                          THEN left(f) \in {-2, -3}
                          ELSE now - f.at - 2 <= later(f) /\ later(f) <= now - f.at + 1
    BY DEF ExpiryMovesByTimeKept
  <2> DEFINE e == f.attrs["expires"]
             m == cookie.maxAge
             at == f.at
  <2>2. e \in Int /\ at \in Int /\ now \in Int
    BY <2>1 DEF IInv, AgesRead, AgeOf
  <2>3. m = WholeSeconds(2 * e - at)
    BY <2>1 DEF IInv, AgesRead, AgeOf, Narrow
  <2>4. /\ m \in Int
        /\ 2 * e - at < 0 => 2 * m \in {2 * e - at, 2 * e - at + 1}
        /\ 2 * e - at >= 0 => 2 * m \in {2 * e - at, 2 * e - at - 1}
    <3> HIDE DEF e, m, at
    <3>1. CASE 2 * e - at < 0
      <4>1. m = -((-(2 * e - at)) \div 2)
        BY <2>3, <3>1 DEF WholeSeconds
      <4>2. QED
        BY <2>2, <3>1, <4>1
    <3>2. CASE ~(2 * e - at < 0)
      <4>1. m = (2 * e - at) \div 2
        BY <2>3, <3>2 DEF WholeSeconds
      <4>2. QED
        BY <2>2, <3>2, <4>1
    <3>3. QED
      BY <3>1, <3>2
  <2>5. later(f) = 2 * (((now + 2 * m) \div 2) - e)
    <3>1. Expiry(cookie) = (now + 2 * m) \div 2
      BY DEF Expiry
    <3>2. (now + 2 * m) \div 2 \in Int
      <4> HIDE DEF m
      <4> QED
        BY <2>2, <2>4
    <3>3. Expires(cookie) - SummerTime(Expiry(cookie)) = (now + 2 * m) \div 2
      BY <3>1, <3>2, SummerTimeIsInt DEF Expires
    <3>4. QED
      BY <3>3
  <2> HIDE DEF e, m, at
  <2>6. IF m = -1 THEN 2 * e - at \in {-2, -3}
                  ELSE /\ now - at - 2 <= 2 * (((now + 2 * m) \div 2) - e)
                       /\ 2 * (((now + 2 * m) \div 2) - e) <= now - at + 1
    BY <2>2, <2>4
  <2>7. QED
    BY <2>5, <2>6 DEF e, m, at
<1>2. QED
  BY <1>1, CookiesInvariant, PTL
=============================================================================
