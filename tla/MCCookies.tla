----------------------------- MODULE MCCookies -----------------------------
(* Cookies for TLC: the names, and the maps an embedder may have.          *)
EXTENDS Cookies, TLC

NamesDef == {"ID", "sid"}
MaxAgesDef == {-1, 0, 2}
SummerDef == {4, 5}
InputsDef == {[n \in {"sid", "expires"} |-> IF n = "sid" THEN "value" ELSE 2],
              ("expires" :> 11) @@ ("ID" :> "value"),
              ("expires" :> 3) @@ ("max-age" :> 1) @@ ("ID" :> "value"),
              ("SameSite" :> "other") @@ ("version" :> 1) @@ ("comment" :> "text")}
=============================================================================
