------------------------------- MODULE Cookies -------------------------------
(***************************************************************************)
(* CookieImpl: a cookie that is set, written as the text of a Set-Cookie   *)
(* header, and made again from a map of attributes, such as that text      *)
(* gives, at another moment.  Nothing in the module calls it yet           *)
(* (setCookie of the client is empty, getCookie returns an empty cookie):  *)
(* its caller, and the splitting of a text at its semicolons, is the       *)
(* embedder's.                                                             *)
(*                                                                         *)
(* The clock counts half seconds: the code adds and subtracts whole        *)
(* seconds to a finer clock and cuts off what is left.  The moments are    *)
(* those system_clock can represent.  A text of a date stands for the      *)
(* second that mktime takes it for, which is what a clock that shows       *)
(* standard time reads in it; a text of a number for what stoi gives.      *)
(* A map of attributes is a function on names; std::map goes through it in *)
(* the order of the names' bytes.                                          *)
(***************************************************************************)
EXTENDS Integers, Sequences

CONSTANTS Names,     \* names a cookie is given
          Inputs,    \* maps of attributes the embedder has
          MaxAges,   \* what setMaxAge is called with
          Summer,    \* the seconds in which localtime shows summer time
          Hour,      \* by how much it then is ahead, in seconds
          IntSize,   \* an int is one of -IntSize..IntSize-1
          MaxNow,    \* bound on the clock
          MaxSteps   \* bound on the calls

VARIABLES
    cookie, \* the CookieImpl
    now,    \* the clock, in half seconds
    text,   \* {} or {what toString wrote last, and of which cookie}
    from,   \* {} or {the map the cookie was made of, and when}, until it is set
    steps   \* calls so far

vars == <<cookie, now, text, from, steps>>

SameSite == {"not specified", "None", "Lax", "Strict"}

(* Upper case comes first.  ID and sid stand for a name before and after   *)
(* most attributes.                                                        *)
ByteOrder == <<"", "Comment", "Domain", "HttpOnly", "ID", "Max-Age", "Path",
               "Priority", "SameSite", "Version", "comment", "domain", "expires",
               "max-age", "path", "priority", "secure", "sid", "version">>

(* CookieImpl(name, value); the other constructors leave one or both empty. *)
Made(name, value) ==
    [version |-> 0, name |-> name, value |-> value, comment |-> "", domain |-> "",
     path |-> "", priority |-> "", secure |-> FALSE, maxAge |-> -1,
     httpOnly |-> FALSE, sameSite |-> "not specified"]

-----------------------------------------------------------------------------
(* CookieImpl(map) *)

(* duration_cast cuts off towards zero. *)
WholeSeconds(halves) == IF halves < 0 THEN -((-halves) \div 2) ELSE halves \div 2

(* setMaxAge takes an int, and the count of the seconds is a longer one.   *)
Ints == -IntSize..(IntSize - 1)
Narrow(n) == IF n \in Ints THEN n ELSE ((n + IntSize) % (2 * IntSize)) - IntSize

(* mktime is given the date without daylight saving time (tm_isdst is 0).  *)
RemainingUp(e) == Narrow((2 * e - now + 3) \div 2)
RemainingCut(e) == Narrow(WholeSeconds(2 * e - now))
Remaining(e) == RemainingCut(e)

Position(name) == CHOOSE i \in DOMAIN ByteOrder : ByteOrder[i] = name

(* The names the constructor knows, in exactly these letters; it takes     *)
(* another for the name of the cookie.                                     *)
Known == {"comment", "domain", "path", "priority", "max-age", "secure",
          "expires", "SameSite", "version", "HttpOnly"}

(* A cookie is not called like an attribute; stoi and get_time read what   *)
(* they are given.                                                         *)
Ordered == {ByteOrder[i] : i \in DOMAIN ByteOrder}
ASSUME CookiesAssumption ==
    /\ Names \subseteq Ordered \ Known
    /\ \A attrs \in Inputs :
        /\ DOMAIN attrs \subseteq Ordered
        /\ "expires" \in DOMAIN attrs => attrs["expires"] \in Int
        /\ "max-age" \in DOMAIN attrs => attrs["max-age"] \in Ints
    /\ MaxAges \subseteq Ints /\ MaxNow \in Nat
    /\ IntSize \in Nat \ {0} /\ Hour \in Nat

(* The loop meets each name of the map once, in the map's order: of two    *)
(* that set the same field, the last one counts.                           *)
LastName(names) == CHOOSE n \in names : \A m \in names : Position(m) <= Position(n)

OfMap(attrs) ==
    LET Given(name, default) == IF name \in DOMAIN attrs THEN attrs[name] ELSE default
        named == IF DOMAIN attrs \subseteq Known THEN "" ELSE LastName(DOMAIN attrs \ Known)
    IN  [version |-> Given("version", 0), name |-> named, value |-> Given(named, ""),
         comment |-> Given("comment", ""), domain |-> Given("domain", ""),
         path |-> Given("path", ""), priority |-> Given("priority", ""),
         secure |-> "secure" \in DOMAIN attrs,
         maxAge |-> IF "expires" \in DOMAIN attrs /\ "max-age" \notin DOMAIN attrs
                    THEN Remaining(attrs["expires"]) ELSE Given("max-age", -1),
         httpOnly |-> "HttpOnly" \in DOMAIN attrs,
         sameSite |-> IF Given("SameSite", "other") \in SameSite
                      THEN attrs["SameSite"] ELSE "not specified"]

-----------------------------------------------------------------------------
(* toString, as the map of what it writes *)

(* An empty text, an age of -1 and a flag that is not set leave no name.   *)
FlagsWithoutHttpOnly(c) ==
    {n \in {"SameSite"} : c.sameSite # "not specified"} \cup {n \in {"secure"} : c.secure}
FlagsAll(c) == FlagsWithoutHttpOnly(c) \cup {n \in {"HttpOnly"} : c.httpOnly}
Flags(c) == FlagsAll(c)

(* The moment it expires, and what localtime shows then. *)
Expiry(c) == (now + 2 * c.maxAge) \div 2
SummerTime(t) == IF t \in Summer THEN Hour ELSE 0
Expires(c) == Expiry(c) + SummerTime(Expiry(c))

Shown(c, name) ==
    CASE name \in {"domain", "Domain"} -> c.domain
      [] name \in {"path", "Path"} -> c.path
      [] name = "Priority" -> c.priority
      [] name = "Comment" -> c.comment
      [] name = "SameSite" -> c.sameSite
      [] name \in {"secure", "HttpOnly"} -> ""
      [] name = "expires" -> Expires(c)
      [] name = "Max-Age" -> "digits"
      [] name = "Version" -> "1"

Written(c, names) ==
    [n \in {c.name} \cup names |-> IF n = c.name THEN c.value ELSE Shown(c, n)]

Netscape(c) ==
    Written(c, {n \in {"domain", "path", "Priority"} : Shown(c, n) # ""}
               \cup {n \in {"expires"} : c.maxAge # -1} \cup Flags(c))

Rfc2109(c) ==
    Written(c, {n \in {"Comment", "Domain", "Path", "Priority"} : Shown(c, n) # ""}
               \cup {n \in {"Max-Age"} : c.maxAge # -1} \cup Flags(c) \cup {"Version"})

Attributes(c) == IF c.version = 0 THEN Netscape(c) ELSE Rfc2109(c)

-----------------------------------------------------------------------------

Call == steps < MaxSteps /\ steps' = steps + 1

Init ==
    /\ \E n \in Names, v \in {"", "value"} : cookie = Made(n, v)
    /\ now = 0 /\ text = {} /\ from = {} /\ steps = 0

Set(c) == Call /\ cookie' = c /\ from' = {} /\ UNCHANGED <<now, text>>

setText(field) == Set([cookie EXCEPT ![field] = "text"])
setVersion(version) == Set([cookie EXCEPT !.version = version])
setName(name) == Set([cookie EXCEPT !.name = name])
setFlag(field, flag) == Set([cookie EXCEPT ![field] = flag])
setMaxAge(maxAge) == Set([cookie EXCEPT !.maxAge = maxAge])
setSameSite(value) == Set([cookie EXCEPT !.sameSite = value])

toString ==
    /\ Call
    /\ text' = {[attrs |-> Attributes(cookie), of |-> cookie]}
    /\ UNCHANGED <<cookie, now, from>>

(* Made from the text, or from a map the embedder has. *)
makeOf(attrs, of) ==
    /\ Call
    /\ cookie' = OfMap(attrs)
    /\ from' = {[attrs |-> attrs, of |-> of, at |-> now]}
    /\ UNCHANGED <<now, text>>
makeOfText == \E t \in text : makeOf(t.attrs, {t.of})
makeOfInput == \E attrs \in Inputs : makeOf(attrs, {})

Tick == now < MaxNow /\ now' = now + 1 /\ UNCHANGED <<cookie, text, from, steps>>

Next == \/ \E f \in {"value", "comment", "domain", "path", "priority"} : setText(f)
        \/ \E v \in {0, 1} : setVersion(v)
        \/ \E n \in Names : setName(n)
        \/ \E f \in {"secure", "httpOnly"}, b \in BOOLEAN : setFlag(f, b)
        \/ \E a \in MaxAges : setMaxAge(a)
        \/ \E s \in SameSite : setSameSite(s)
        \/ toString \/ makeOfText \/ makeOfInput
        \/ Tick

Spec == Init /\ [][Next]_vars

-----------------------------------------------------------------------------
(* Properties *)

(* A version 0 cookie that is written and read again is the same cookie,   *)
(* its comment, priority and age apart.  Its name and value are lost only  *)
(* if it had a priority, which is written as "Priority" and read as        *)
(* "priority", and a name that comes before that.                          *)
WrittenIsRead ==
    \A f \in from : \A c \in f.of : c.version = 0 =>
        /\ cookie.domain = c.domain /\ cookie.path = c.path
        /\ cookie.secure = c.secure /\ cookie.httpOnly = c.httpOnly
        /\ cookie.sameSite = c.sameSite
        /\ \/ cookie.name = c.name /\ cookie.value = c.value
           \/ c.priority # "" /\ Position(c.name) < Position("Priority")

(* A cookie made of a text that expires, when it is written again, expires *)
(* at most as much later as it was kept in between, to the second (it      *)
(* keeps an age, and not a moment), and an hour more if it then is summer  *)
(* time, of which it is written and not read; unless it was read in the    *)
(* second second after it expired, when its age is the -1 of a session     *)
(* cookie.  This is so of ages that are an int.                            *)
ExpiryMovesByTimeKept ==
    \A f \in from :
        LET left == 2 * f.attrs["expires"] - f.at
            later == 2 * (Expires(cookie) - SummerTime(Expiry(cookie)) - f.attrs["expires"])
        IN  (/\ "expires" \in DOMAIN f.attrs /\ "max-age" \notin DOMAIN f.attrs
             /\ WholeSeconds(left) \in Ints) =>
                IF cookie.maxAge = -1
                  THEN left \in {-2, -3}
                  ELSE now - f.at - 2 <= later /\ later <= now - f.at + 1
=============================================================================
