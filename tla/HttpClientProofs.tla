-------------------------- MODULE HttpClientProofs --------------------------
(***************************************************************************)
(* Theorems about HttpClient, for every set of query maps and texts and    *)
(* every bound on the calls.                                               *)
(***************************************************************************)
EXTENDS HttpClient, UrlQueryProofs

(* TypeOK does not say that url is a record of these three, where the map  *)
(* a client was told is to be found, and where the handlers have theirs    *)
(* from: the target.                                                       *)
UrlIsRecord == url = [query |-> url.query, text |-> url.text, map |-> url.map]
WishIsText == wish \subseteq QueryMaps
  /\ \A m \in wish : url.text = flattenQueryMap(m)
HeardIsText == \A h \in heard : h = generateQueryMap(EmptyMap, url.text)

(* The inductive invariant *)
UrlInv == UrlIsRecord /\ {url.query, url.text} \subseteq Seq(Byte)
  /\ QueryMap(url.map)
IInv == /\ UrlInv /\ TypeOK /\ WishIsText /\ HeardIsText /\ MapDecodesText
  /\ ViewIsAlive

(* The maps an embedder gives are finite maps of strings. *)
LEMMA MapsAreQueryMaps ==
  ASSUME NEW m \in QueryMaps
  PROVE  IsQueryMap(m) /\ QueryMap(m)
<1>1. IsQueryMap(m)
  BY ClientAssumption DEF IsQueryMap
<1>2. \A k \in DOMAIN m : m[k] \in Seq(Byte)
  BY <1>1 DEF IsQueryMap
<1>3. QED
  BY <1>1, <1>2 DEF IsQueryMap, QueryMap

(* What a handler's getQuery gives is a map of strings, whatever text the  *)
(* target has.                                                             *)
LEMMA GeneratedIsQueryMap ==
  ASSUME NEW t \in Seq(Byte)
  PROVE  QueryMap(generateQueryMap(EmptyMap, t))
<1> DEFINE g == generateQueryMap(EmptyMap, t)
<1>1. DOMAIN EmptyMap = {}
  BY DEF EmptyMap
<1>2. DOMAIN g \subseteq Seq(Byte) /\ \A k \in DOMAIN g : g[k] \in Seq(Byte)
  BY <1>1, GeneratedIsText
<1> HIDE DEF g
<1>3. QueryMap(g)
  BY <1>2 DEF QueryMap
<1>4. QED
  BY <1>3 DEF g

(* So is the map of a client without a query. *)
LEMMA EmptyMapIsQueryMap == QueryMap(EmptyMap)
BY DEF QueryMap, EmptyMap

(* UrlImpl::setQuery keeps text and map in agreement, also when boost::url *)
(* refuses the text.                                                       *)
LEMMA SetQueryFacts ==
  ASSUME NEW u, NEW m \in QueryMaps, u.query \in Seq(Byte)
  PROVE  LET v == setQuery(u, m)
         IN  /\ v = [query |-> v.query, text |-> v.text, map |-> v.map]
             /\ {v.query, v.text} \subseteq Seq(Byte) /\ QueryMap(v.map)
             /\ v.text = flattenQueryMap(m) /\ v.map = m
<1> DEFINE t == flattenQueryMap(m)
<1>1. t \in Seq(Byte) /\ QueryMap(m)
  BY MapsAreQueryMaps, FlattenFacts, PrintableIsByte
<1>2. setQuery(u, m) = [query |-> IF Accepts(t) THEN t ELSE u.query, text |-> t,
       map |-> m]
  BY DEF setQuery, MapSet, MapReplaced
<1> HIDE DEF t
<1>3. (IF Accepts(t) THEN t ELSE u.query) \in Seq(Byte)
  BY <1>1
<1>4. QED
  BY <1>1, <1>2, <1>3 DEF t

(* A constructor with an encoded query makes the map of that text. *)
LEMMA SetEncodedQueryFacts ==
  ASSUME NEW t \in Seq(Byte)
  PROVE  LET v == setEncodedQuery(NewUrl, t)
         IN  /\ v = [query |-> v.query, text |-> v.text, map |-> v.map]
             /\ {v.query, v.text} \subseteq Seq(Byte) /\ QueryMap(v.map)
             /\ v.map = generateQueryMap(EmptyMap, v.text)
<1> DEFINE g == generateQueryMap(EmptyMap, t)
<1>1. QueryMap(g)
  BY GeneratedIsQueryMap
<1>2. setEncodedQuery(NewUrl, t) = [query |-> <<>>, text |-> t, map |-> g]
  <2>1. NewUrl.map = EmptyMap /\ NewUrl.query = <<>>
    BY DEF NewUrl
  <2>2. QED
    BY <2>1 DEF setEncodedQuery
<1> HIDE DEF g
<1>3. <<>> \in Seq(Byte)
  BY EmptySeq
<1>4. QED
  BY <1>1, <1>2, <1>3 DEF g

(* The fragment of a URL starts within it, or it has none. *)
LEMMA FragmentInUrl ==
  ASSUME NEW t \in Seq(Byte)
  PROVE  FragmentAt(t) \in 1..Len(t) + 1
<1> DEFINE T == {i \in DOMAIN t : t[i] = Hash} \cup {Len(t) + 1}
<1>1. Len(t) \in Nat /\ DOMAIN t = 1..Len(t)
  BY LenProperties
<1>2. T \subseteq 1..Len(t) + 1 /\ T \subseteq Nat /\ T # {}
  BY <1>1
<1>3. Min(T) \in T
  <2> HIDE DEF T
  <2>1. \E x \in T : \A y \in T : x <= y
    BY <1>2, LeastNatural
  <2>2. QED
    BY <2>1 DEF Min
<1>4. QED
  BY <1>2, <1>3 DEF FragmentAt

(* setURL changes the boost::url only. *)
LEMMA SetEncodedUrlFacts ==
  ASSUME NEW u, NEW t \in Seq(Byte), u.query \in Seq(Byte),
         u = [query |-> u.query, text |-> u.text, map |-> u.map]
  PROVE  LET v == setEncodedUrl(u, t)
         IN  /\ v = [query |-> v.query, text |-> v.text, map |-> v.map]
             /\ v.query \in Seq(Byte) /\ v.text = u.text /\ v.map = u.map
<1> DEFINE query == SubSeq(t, 1, FragmentAt(t) - 1)
           accepted == /\ Accepts(query)
                       /\ Accepts(SubSeq(t, FragmentAt(t) + 1, Len(t)))
<1>1. query \in Seq(Byte)
  <2>1. FragmentAt(t) - 1 \in 0..Len(t)
    BY FragmentInUrl, LenProperties
  <2> HIDE DEF query
  <2>2. QED
    BY <2>1, SubSeqProperties DEF query
<1>2. setEncodedUrl(u, t) =
        IF accepted THEN [u EXCEPT !.query = query] ELSE u
  BY DEF setEncodedUrl
<1> HIDE DEF query, accepted
<1>3. CASE accepted
  <2>1. setEncodedUrl(u, t) = [query |-> query, text |-> u.text, map |-> u.map]
    BY <1>2, <1>3
  <2>2. QED
    BY <1>1, <2>1
<1>4. CASE ~accepted
  BY <1>2, <1>4
<1>5. QED
  BY <1>3, <1>4

(* A new client, with or without a query, satisfies the invariant. *)
LEMMA ClientInit == Init => IInv
<1> SUFFICES ASSUME Init PROVE IInv
  OBVIOUS
<1>1. UrlInv /\ MapDecodesText
  <2>1. CASE url = NewUrl
    <3>1. url = [query |-> <<>>, text |-> <<>>, map |-> EmptyMap]
      BY <2>1 DEF NewUrl
    <3>2. QED
      BY <3>1, EmptySeq, EmptyMapIsQueryMap DEF UrlInv, UrlIsRecord, MapDecodesText
  <2>2. ASSUME NEW q \in Texts, url = setEncodedQuery(NewUrl, q) PROVE UrlInv
                 /\ MapDecodesText
    <3>1. q \in Seq(Byte)
      BY ClientAssumption
    <3>2. QED
      BY <2>2, <3>1, SetEncodedQueryFacts DEF UrlInv, UrlIsRecord, MapDecodesText
  <2>3. QED
    BY <2>1, <2>2 DEF Init
<1>2. TypeOK
  <2>1. MaxEnds \in Nat /\ MaxSets \in Nat
    BY ClientAssumption
  <2>2. {response, view, json} \subseteq 0..ends /\ ends \in 0..MaxEnds
          /\ sets \in 0..MaxSets
    BY <2>1 DEF Init
  <2>3. outcome \in Outcomes /\ rc \subseteq {0} /\ spoiled \in BOOLEAN /\ heard = {}
        /\ method \in Methods
    BY DEF Init, Outcomes
  <2>4. QED
    BY <1>1, <2>2, <2>3 DEF TypeOK, UrlInv
<1>3. QED
  BY <1>1, <1>2 DEF Init, IInv, WishIsText, HeardIsText, ViewIsAlive

(* The setters keep the invariant.  SetQuery is where the text and the map *)
(* have to agree: GenerateUndoesFlatten.                                   *)
LEMMA ClientSetters ==
  ASSUME IInv,
         \/ \E m \in QueryMaps : SetQuery(m)
         \/ \E q \in Texts : SetURL(q)
         \/ \E m \in Methods : SetMethod(m)
  PROVE  IInv'
<1>1. /\ UrlInv /\ TypeOK /\ WishIsText /\ HeardIsText /\ MapDecodesText
           /\ ViewIsAlive
  BY DEF IInv
<1>2. sets' \in 0..MaxSets /\ heard' = {} /\ UNCHANGED resultVars
  BY <1>1, ClientAssumption DEF SetQuery, SetURL, SetMethod, Setting, TypeOK,
      resultVars
<1>3. method' \in Methods
  BY <1>1 DEF SetQuery, SetURL, SetMethod, TypeOK
<1>4. UrlInv' /\ WishIsText' /\ MapDecodesText'
  <2>1. ASSUME NEW m \in QueryMaps, SetQuery(m) PROVE UrlInv' /\ WishIsText'
                 /\ MapDecodesText'
    <3>1. url' = setQuery(url, m) /\ wish' = {m}
      BY <2>1 DEF SetQuery
    <3>2. /\ url' = [query |-> url'.query, text |-> url'.text, map |-> url'.map]
          /\ {url'.query, url'.text} \subseteq Seq(Byte) /\ QueryMap(url'.map)
          /\ url'.text = flattenQueryMap(m) /\ url'.map = m
      BY <1>1, <3>1, SetQueryFacts DEF UrlInv
    <3>3. CASE DOMAIN m # {}
      <4>1. m = generateQueryMap(EmptyMap, flattenQueryMap(m))
        BY <3>3, MapsAreQueryMaps, GenerateUndoesFlatten
      <4>2. QED
        BY <3>1, <3>2, <4>1 DEF UrlInv, UrlIsRecord, WishIsText, MapDecodesText
    <3>4. CASE DOMAIN m = {}
      <4>1. m = EmptyMap
        BY <3>4, MapsAreQueryMaps DEF EmptyMap, IsQueryMap
      <4>2. flattenQueryMap(m) = <<>>
        BY <3>4, MapsAreQueryMaps, FlattenFacts
      <4>3. QED
        BY <3>1, <3>2, <4>1, <4>2 DEF UrlInv, UrlIsRecord, WishIsText, MapDecodesText
    <3>5. QED
      BY <3>3, <3>4
  <2>2. ASSUME NEW q \in Texts, SetURL(q) PROVE UrlInv' /\ WishIsText'
                 /\ MapDecodesText'
    <3>1. url' = setEncodedUrl(url, q) /\ wish' = wish /\ q \in Seq(Byte)
      BY <2>2, ClientAssumption DEF SetURL
    <3>2. /\ url' = [query |-> url'.query, text |-> url'.text, map |-> url'.map]
          /\ url'.query \in Seq(Byte) /\ url'.text = url.text /\ url'.map = url.map
      BY <1>1, <3>1, SetEncodedUrlFacts DEF UrlInv, UrlIsRecord
    <3>3. QED
      BY <1>1, <3>1, <3>2 DEF UrlInv, UrlIsRecord, WishIsText, MapDecodesText
  <2>3. ASSUME NEW m \in Methods, SetMethod(m) PROVE UrlInv' /\ WishIsText'
                 /\ MapDecodesText'
    BY <1>1, <2>3 DEF SetMethod, UrlInv, UrlIsRecord, WishIsText, MapDecodesText
  <2>4. QED
    BY <2>1, <2>2, <2>3
<1>5. TypeOK'
  BY <1>1, <1>2, <1>3, <1>4 DEF TypeOK, UrlInv, resultVars
<1>6. ViewIsAlive'
  BY <1>1, <1>2 DEF ViewIsAlive, resultVars
<1>7. HeardIsText'
  BY <1>2 DEF HeardIsText
<1>8. QED
  BY <1>4, <1>5, <1>6, <1>7 DEF IInv

(* end() keeps the invariant, however it turns out. *)
LEMMA ClientEnd ==
  ASSUME IInv, End
  PROVE  IInv'
<1>1. /\ UrlInv /\ TypeOK /\ WishIsText /\ HeardIsText /\ MapDecodesText
           /\ ViewIsAlive
  BY DEF IInv
<1>2. /\ ends < MaxEnds /\ ends' = ends + 1 /\ outcome' \in Outcomes
      /\ UNCHANGED urlVars
  BY DEF End, EndUnconnected, EndBroken, EndNotOk, EndOk, Ending, Outcomes
<1>3. UrlInv' /\ WishIsText' /\ MapDecodesText'
  BY <1>1, <1>2 DEF urlVars, UrlInv, UrlIsRecord, WishIsText, MapDecodesText
<1> DEFINE g == generateQueryMap(EmptyMap, url.text)
<1>4. heard' = {} \/ heard' = Heard
  BY DEF End, EndUnconnected, EndBroken, EndNotOk, EndOk
<1>5. \A h \in Heard : h = g
  BY DEF Heard, target
<1>6. QueryMap(g)
  BY <1>1, GeneratedIsQueryMap DEF UrlInv
<1>7. url' = url /\ \A h \in heard' : h = g
  BY <1>2, <1>4, <1>5 DEF urlVars
<1>8. HeardIsText'
  BY <1>7 DEF HeardIsText
<1> HIDE DEF g
<1>9. \A h \in heard' : QueryMap(h)
  BY <1>6, <1>7
<1>10. /\ {response', view', json'} \subseteq 0..ends' /\ rc' \subseteq {0}
            /\ spoiled' \in BOOLEAN
       /\ ViewIsAlive'
  <2>1. /\ {response, view, json} \subseteq 0..ends /\ ends \in Nat
             /\ spoiled \in BOOLEAN
        /\ (~spoiled => view \in {0, response}) /\ json \in {0, view}
    BY <1>1, ClientAssumption DEF TypeOK, ViewIsAlive
  <2>2. CASE EndUnconnected
    BY <2>1, <2>2, <1>2 DEF EndUnconnected, ResponseUnconnected, ViewIsAlive
  <2>3. CASE EndBroken
    BY <2>1, <2>3, <1>2 DEF EndBroken, ViewIsAlive
  <2>4. CASE EndNotOk
    BY <2>1, <2>4, <1>2 DEF EndNotOk, ViewIsAlive
  <2>5. ASSUME NEW body \in {"json", "text", "empty"}, EndOk(body)
        PROVE  /\ {response', view', json'} \subseteq 0..ends' /\ rc' \subseteq {0}
               /\ spoiled' \in BOOLEAN /\ ViewIsAlive'
    <3>1. /\ response' = ends + 1 /\ view' \in {0, ends + 1}
               /\ json' \in {0, ends + 1}
          /\ body = "empty" => view' = 0 /\ json' = 0
          /\ body # "empty" => view' = ends + 1
          /\ spoiled' = FALSE /\ rc' = {0}
      BY <2>5 DEF EndOk
    <3>2. 0 \in 0..ends' /\ ends + 1 \in 0..ends'
      BY <2>1, <1>2
    <3>3. {response', view', json'} \subseteq 0..ends'
      BY <3>1, <3>2
    <3>4. ViewIsAlive'
      BY <3>1 DEF ViewIsAlive
    <3>5. QED
      BY <3>1, <3>3, <3>4
  <2>6. QED
    BY <2>2, <2>3, <2>4, <2>5 DEF End
<1>11. TypeOK'
  <2>1. ends' \in 0..MaxEnds
    BY <1>1, <1>2, ClientAssumption DEF TypeOK
  <2>2. method' \in Methods /\ sets' \in 0..MaxSets
    BY <1>1, <1>2 DEF TypeOK, urlVars
  <2>3. QED
    BY <1>2, <1>3, <1>9, <1>10, <2>1, <2>2 DEF TypeOK, UrlInv
<1>12. QED
  BY <1>3, <1>8, <1>10, <1>11 DEF IInv

-----------------------------------------------------------------------------
(***************************************************************************)
(* The theorems                                                            *)
(***************************************************************************)

(* The invariant holds in every state of a client, for all maps, texts and *)
(* bounds.                                                                 *)
THEOREM ClientInvariant == Spec => []IInv
<1>1. IInv /\ [Next]_vars => IInv'
  <2>1. SUFFICES ASSUME IInv, [Next]_vars PROVE IInv'
    OBVIOUS
  <2>2. CASE End
    BY <2>1, <2>2, ClientEnd
  <2>3. CASE \/ \E m \in QueryMaps : SetQuery(m)
             \/ \E q \in Texts : SetURL(q)
             \/ \E m \in Methods : SetMethod(m)
    BY <2>1, <2>3, ClientSetters
  <2>4. CASE UNCHANGED vars
    BY <2>1, <2>4 DEF vars, urlVars, resultVars, IInv, UrlInv, UrlIsRecord, TypeOK,
                      WishIsText, HeardIsText, MapDecodesText, ViewIsAlive
  <2>5. QED
    BY <2>1, <2>2, <2>3, <2>4 DEF Next
<1>2. QED
  BY <1>1, ClientInit, PTL DEF Spec

(* TypeOK: every variable keeps its type, and whatever ill-formed text a   *)
(* target has, the handlers see a map of strings.                          *)
THEOREM ClientTypeOK == Spec => []TypeOK
<1>1. IInv => TypeOK
  BY DEF IInv
<1>2. QED
  BY <1>1, ClientInvariant, PTL

(* HandlersHearQuery: what was told to setQuery is what the server's       *)
(* handlers read, for every map of any bytes.                              *)
THEOREM HandlersHear == Spec => []HandlersHearQuery
<1>1. IInv => HandlersHearQuery
  <2>1. SUFFICES ASSUME IInv, NEW m \in wish, NEW h \in heard, DOMAIN m # {}
                 PROVE  h = m
    BY DEF HandlersHearQuery
  <2>2. m \in QueryMaps /\ h = generateQueryMap(EmptyMap, flattenQueryMap(m))
    BY <2>1 DEF IInv, WishIsText, HeardIsText
  <2>3. QED
    BY <2>1, <2>2, MapsAreQueryMaps, GenerateUndoesFlatten
<1>2. QED
  BY <1>1, ClientInvariant, PTL

(* TargetIsPrintable: a target made of a map is one word of the request    *)
(* line, for every map of any bytes (uriEncode).                           *)
THEOREM TargetPrintable == Spec => []TargetIsPrintable
<1>1. IInv => TargetIsPrintable
  <2>1. SUFFICES ASSUME IInv, NEW m \in wish
                 PROVE  \A i \in DOMAIN target(url) : target(url)[i] \in 33..126
    BY DEF TargetIsPrintable
  <2>2. target(url) = flattenQueryMap(m) /\ m \in QueryMaps
    BY <2>1 DEF IInv, WishIsText, target
  <2>3. target(url) \in Seq(Printable)
    BY <2>2, MapsAreQueryMaps, FlattenFacts
  <2>4. QED
    BY <2>3, LenProperties, ElementOfSeq DEF Printable
<1>2. QED
  BY <1>1, ClientInvariant, PTL

(* MapDecodesText: the decoded map is what the encoded text says, for      *)
(* every order of setQuery, setURL and constructors.                       *)
THEOREM MapDecodes == Spec => []MapDecodesText
<1>1. IInv => MapDecodesText
  BY DEF IInv
<1>2. QED
  BY <1>1, ClientInvariant, PTL

(* ViewIsAlive: responseStr views a body that exists and responseJsonDoc   *)
(* is of the same response, for every sequence of requests that end in any *)
(* way, except after a response that was not 200 or broke off.             *)
THEOREM ViewAlive == Spec => []ViewIsAlive
<1>1. IInv => ViewIsAlive
  BY DEF IInv
<1>2. QED
  BY <1>1, ClientInvariant, PTL
=============================================================================
