----------------------------- MODULE HttpClient -----------------------------
(***************************************************************************)
(* One ClientImpl, used for any number of requests by one thread: setters, *)
(* end() with all the ways it can turn out, and what getResponseStr and    *)
(* getResponseJson give afterwards.  responseStr is a std::string_view     *)
(* into the body of the response it was taken from; a response is named by *)
(* the number of the end() that made it.  On the other side, the server    *)
(* parses the target into a fresh RequestImpl for its handlers.            *)
(***************************************************************************)
EXTENDS UrlQuery

CONSTANTS QueryMaps,  \* maps an embedder may give to setQuery
          Texts,      \* encoded queries, of a constructor or in a URL
          MaxEnds,    \* bound on the calls of end
          MaxSets     \* bound on the calls of setters

ASSUME ClientAssumption ==
    /\ Texts \subseteq Seq(Byte)
    /\ \A m \in QueryMaps : /\ IsFiniteSet(DOMAIN m) /\ DOMAIN m \subseteq Seq(Byte)
                            /\ m \in [DOMAIN m -> Seq(Byte)]
    /\ MaxEnds \in Nat /\ MaxSets \in Nat

VARIABLES
    url,        \* UrlImpl
    method,     \* what the embedder set, "" standing for all but POST
    response,   \* the end() whose response responseBeast is, 0 for none
    view,       \* the response whose body responseStr views, 0 if it is empty
    json,       \* the response responseJsonDoc was parsed from, 0 for none
    ends, sets, \* calls so far
    (* what the last end() did *)
    outcome,    \* "none", "unconnected", "broken", "notOk", "ok"
    rc,         \* what it returned, {} if it threw
    (* history *)
    wish,       \* the map given to setQuery, {} if it was not what came last
    spoiled,    \* since the last 200, a response was replaced
    heard       \* the map the server's handlers saw of it, {} if it saw none

urlVars == <<url, method, wish, sets>>
resultVars == <<response, view, json, outcome, rc, spoiled, ends>>
vars == <<urlVars, resultVars, heard>>

Methods == {"", "POST"}
Outcomes == {"none", "unconnected", "broken", "notOk", "ok"}

(* newClient({...}), with or without a query *)
Init ==
    /\ url \in {NewUrl} \cup {setEncodedQuery(NewUrl, q) : q \in Texts}
    /\ method \in Methods
    /\ response = 0 /\ view = 0 /\ json = 0
    /\ ends = 0 /\ sets = 0
    /\ outcome = "none" /\ rc = {} /\ wish = {} /\ spoiled = FALSE /\ heard = {}

-----------------------------------------------------------------------------
(* The setters of Client *)

Setting == sets < MaxSets /\ sets' = sets + 1 /\ heard' = {}

(* ClientImpl::setQuery does not look at what UrlImpl::setQuery returns. *)
SetQuery(m) ==
    /\ Setting
    /\ url' = setQuery(url, m)
    /\ wish' = {m}
    /\ UNCHANGED <<method, resultVars>>

SetURL(q) ==
    /\ Setting
    /\ url' = setEncodedUrl(url, q)
    /\ UNCHANGED <<method, wish, resultVars>>

SetMethod(m) ==
    /\ Setting
    /\ method' = m
    /\ UNCHANGED <<url, wish, resultVars>>

-----------------------------------------------------------------------------
(* end() *)

Ending(o) == /\ ends < MaxEnds /\ ends' = ends + 1
             /\ outcome' = o
             /\ UNCHANGED urlVars

(* When the response object of this request takes the place of the last    *)
(* one: after the connection is there.                                     *)
ResponseBeforeConnect == ends + 1
ResponseUnconnected == response

(* resolve, connect or the handshake throws *)
EndUnconnected ==
    /\ Ending("unconnected")
    /\ response' = ResponseUnconnected
    /\ rc' = {}
    /\ heard' = {}
    /\ UNCHANGED <<view, json, spoiled>>

(* Every method but POST is sent as GET, and Connection::run refuses all   *)
(* others, and a target with ".."; then RequestImpl::parseRequest, whose   *)
(* target has a "?".                                                       *)
Dot == 46
HasDots(t) == \E i \in 1..Len(t) - 1 : t[i] = Dot /\ t[i + 1] = Dot
Heard == IF method = "POST" \/ HasDots(target(url)) THEN {}
         ELSE {generateQueryMap(EmptyMap, target(url))}

(* http::write or http::read throws; the request may have arrived *)
EndBroken ==
    /\ Ending("broken")
    /\ response' = ends + 1
    /\ spoiled' = TRUE
    /\ heard' \in {{}, Heard}
    /\ rc' = {}
    /\ UNCHANGED <<view, json>>

(* another status than 200: neither result is touched *)
EndNotOk ==
    /\ Ending("notOk")
    /\ response' = ends + 1
    /\ spoiled' = TRUE
    /\ heard' = Heard
    /\ rc' = {0}
    /\ UNCHANGED <<view, json>>

(* 200: the body is viewed and parsed; responseJsonDoc is reset if it is   *)
(* not JSON.                                                               *)
EndOk(body) ==
    /\ Ending("ok")
    /\ response' = ends + 1
    /\ view' = IF body = "empty" THEN 0 ELSE ends + 1
    /\ json' = IF body = "json" THEN ends + 1 ELSE 0
    /\ spoiled' = FALSE
    /\ heard' = Heard
    /\ rc' = {0}

End == \/ EndUnconnected \/ EndBroken \/ EndNotOk
       \/ \E body \in {"json", "text", "empty"} : EndOk(body)

Next == \/ \E m \in QueryMaps : SetQuery(m)
        \/ \E q \in Texts : SetURL(q)
        \/ \E m \in Methods : SetMethod(m)
        \/ End

Spec == Init /\ [][Next]_vars

-----------------------------------------------------------------------------
(* Properties *)

(* Every variable has its type; names and values are strings of bytes,     *)
(* whatever escapes a text has.                                            *)
QueryMap(m) == DOMAIN m \cup {m[k] : k \in DOMAIN m} \subseteq Seq(Byte)
TypeOK ==
    /\ {url.query, url.text} \subseteq Seq(Byte) /\ QueryMap(url.map)
    /\ method \in Methods
    /\ {response, view, json} \subseteq 0..ends
    /\ ends \in 0..MaxEnds /\ sets \in 0..MaxSets
    /\ outcome \in Outcomes /\ rc \subseteq {0} /\ spoiled \in BOOLEAN
    /\ \A h \in heard : QueryMap(h)

(* What a client was told with setQuery is what getQuery of the server's   *)
(* handlers says: whatever bytes names and values have, "&", "=" and "%"   *)
(* among them, and whatever constructor, setURL and refusals by boost::url *)
(* came in between (flattenQueryMap, target, parseRequest); if they see    *)
(* it, for a POST they do not.  A map without names is out: of its empty   *)
(* text, generateQueryMap makes one empty name.                            *)
HandlersHearQuery ==
    \A m \in wish, h \in heard : DOMAIN m # {} => h = m

(* ... and its target has no blank, no control character and no byte above *)
(* 127, so that it is one word of the request line (uriEncode).            *)
TargetIsPrintable ==
    wish # {} => \A i \in DOMAIN target(url) : target(url)[i] \in 33..126

(* "query string is stored encoded, then decoded as needed" (UrlQuery.cpp):*)
(* the decoded map is what the encoded text says, for every order of       *)
(* setters.  (Without a query there is no text and an empty map.)          *)
MapDecodesText ==
    \/ url.map = generateQueryMap(EmptyMap, url.text)
    \/ url.map = EmptyMap /\ url.text = <<>>

(* getResponseStr gives a view into a body that exists, also after a       *)
(* request that could not connect, and getResponseJson speaks of the same  *)
(* response; it takes a response that arrived and was not 200, or broke    *)
(* off, for the body to go.                                                *)
ViewIsAlive ==
    /\ ~spoiled => view \in {0, response}
    /\ json \in {0, view}
=============================================================================
