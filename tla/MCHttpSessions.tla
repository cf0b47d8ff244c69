--------------------------- MODULE MCHttpSessions ---------------------------
(***************************************************************************)
(* HttpSessions for TLC: one client pipelines, the other sends one request *)
(* while the first one's may hold the io thread.                           *)
(***************************************************************************)
EXTENDS HttpSessions

CONSTANTS c1, c2

OnePipelines == [c \in Conns |-> IF c = c1 THEN 2 ELSE 1]
OneEach == [c \in Conns |-> 1]
=============================================================================
