------------------------- MODULE MCServerLifecycle -------------------------
(* Values of the constants of ServerLifecycle for TLC. *)
EXTENDS ServerLifecycle

Doc(port) == [server |-> TRUE, address |-> {"127.0.0.1"}, port |-> port]

(* settings.json, one with another port, one without a port, one with a    *)
(* port out of range and one without a server member                       *)
MCDocuments == {Doc({8081}), Doc({3000}), Doc({}), Doc({70000}), NoServerMember}
FewDocuments == {Doc({8081}), Doc({3000})}
MCStray == {0, -1}
MCCertificates == [name : {"old", "new"}, match : {TRUE}]
                      \cup {[name |-> "new", match |-> FALSE]}
MCNoCert == [name |-> "none", match |-> FALSE]
=============================================================================
