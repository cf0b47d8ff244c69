--------------------------- MODULE MCRouteDispatch --------------------------
(* RouteDispatch for TLC: RouteSingle.cfg, RouteThreads.cfg and            *)
(* RouteEndLost.cfg give the constants.  Handlers and requests are told    *)
(* apart by the refinement's Before and by the liveness property, so there *)
(* is no symmetry to use.                                                  *)
EXTENDS RouteDispatch
=============================================================================
