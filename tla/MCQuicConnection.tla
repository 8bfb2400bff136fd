--------------------------- MODULE MCQuicConnection ---------------------------
(* Instances of the QUIC connection for TLC. *)
EXTENDS QuicConnection

(* The server knows the client's version or not and validates addresses or not;
   the client has the options it can be given. *)
Plain == [known |-> TRUE, preferred |-> FALSE, validate |-> FALSE,
          resume |-> FALSE, options |-> {}, full |-> {}, accepts |-> 1]
Validating == [Plain EXCEPT !.validate = TRUE, !.options = {"delay", "key", "addr"}]
Resuming == [Plain EXCEPT !.resume = TRUE, !.validate = TRUE]
Twice == [Plain EXCEPT !.accepts = 2]
OldVersion == [Plain EXCEPT !.known = FALSE, !.preferred = TRUE]
FullClient == [Plain EXCEPT !.full = {"client"}]
FullServer == [Plain EXCEPT !.full = {"server"}]
AllConfigs == {FullClient, FullServer, Validating, Resuming, Twice, OldVersion}
PlainOnly == {Plain}
===============================================================================
