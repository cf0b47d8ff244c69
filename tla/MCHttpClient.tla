---------------------------- MODULE MCHttpClient ----------------------------
(***************************************************************************)
(* HttpClient for TLC, with every kind of byte that the two loops of the   *)
(* encoding and the parsing of a query tell apart.                         *)
(***************************************************************************)
EXTENDS HttpClient

(* tab, "#", "%", "&", ".", "=", "F", 0xFF *)
Chars == {9, 35, 37, 38, 46, 61, 70, 255}
Strings(n) == BoundedSeq(Chars, n)

(* One pair of any two strings; several, with separators in the names; no  *)
(* pair                                                                    *)
MCQueryMaps ==
    [{<<37>>, <<38, 9>>, <<38>>} -> {<<>>}] \cup UNION {[{k} -> Strings(1)] : k \in Strings(1)}
        \cup [{<<>>, <<38>>} -> {<<61>>, <<255>>, <<46, 46>>}] \cup {EmptyMap}

(* "", "%", "&", "F", "=", "%FF", "%F%", "F&F", "F==", "F=&F=%", "F#" and  *)
(* "..F"                                                                   *)
MCTexts == {<<>>, <<37>>, <<38>>, <<70>>, <<61>>, <<37, 70, 70>>, <<37, 70, 37>>,
            <<70, 38, 70>>, <<70, 61, 61>>, <<70, 61, 38, 70, 61, 37>>, <<70, 35>>,
            <<46, 46, 70>>}
=============================================================================
