--------------------------- MODULE MCHttpExchange ---------------------------
(* Plans for TLC. *)
EXTENDS HttpExchange

\* A server that keeps connections alive, unless a request asks to close, or one
\* that never does; one client that makes three requests, or two that make two
\* and may ask to close; and bodies that read like messages: one client, two
\* requests.
OneOrTwoClients ==
  {p \in [clients : {{1}, {1, 2}}, requests : {2, 3}, keepalive : BOOLEAN,
          closes : {BOOLEAN, {FALSE}}, bodies : {BOOLEAN, {TRUE}}, mimics : {FALSE}] :
     /\ p.clients = {1} <=> p.requests = 3
     /\ p.clients = {1} <=> p.bodies = BOOLEAN
     /\ p.clients = {1, 2} /\ p.keepalive <=> p.closes = BOOLEAN}
  \cup {[clients |-> {1}, requests |-> 2, keepalive |-> TRUE, closes |-> {FALSE},
         bodies |-> {TRUE}, mimics |-> TRUE]}

=============================================================================
