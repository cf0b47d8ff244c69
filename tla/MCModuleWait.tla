---------------------------- MODULE MCModuleWait ----------------------------
(* ModuleWait, within the example that uses it, for TLC: Wait.cfg and      *)
(* WaitLost.cfg give the constants.                                        *)
EXTENDS OAuthExample

CONSTANTS main, w2

(* The main thread's script has three waits; the other thread has one. *)
ThreeAndOne == [w \in Waiters |-> IF w = main THEN 3 ELSE 1]
OneThread == [w \in Waiters |-> Handles]
TwoThreads == [w \in Waiters |-> IF w = main THEN Handles ELSE {"auth"}]
=============================================================================
