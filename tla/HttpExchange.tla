---------------------------- MODULE HttpExchange ----------------------------
(***************************************************************************)
(* Requests and responses between the clients of an HttpConnectionPool and *)
(* an HttpServer: the pool that keeps connections for reuse, the receive   *)
(* loops on both ends, timeouts and closes.                                *)
(*                                                                         *)
(* A message on the wire is a sequence of parts: its head up to the name   *)
(* of the Content-Length header, that header's value with the end of the   *)
(* head, and the body.  A read returns any prefix of what has arrived, so  *)
(* a head is cut in that header or nowhere, and it fits into the buffer.   *)
(* What the parsers do with a header whose name and value come in          *)
(* different reads is module HttpParser's result: it is dropped.  Then the *)
(* body may stay in the socket, where the next message is looked for.  It  *)
(* is an error there, unless it reads like the beginning of a message: of  *)
(* a request, of a response, or of the header of a chunk.                  *)
(***************************************************************************)
EXTENDS Naturals, Sequences, FiniteSets, FiniteSetsExt

CONSTANTS
  Clients,       \* fibers that use the pool
  Plans,         \* how often the pool is used, and how; see PlanType
  MaxRequest     \* m_maxRequest of the pool

\* A plan: the clients, how many requests they make together (a bound), whether
\* the server keeps connections alive (m_isKeepalive), whether a request may ask
\* to close and may have a body, and whether bodies may read like messages.
PlanType == [clients : SUBSET Clients, requests : Nat, keepalive : BOOLEAN,
             closes : SUBSET BOOLEAN, bodies : SUBSET BOOLEAN, mimics : BOOLEAN]

\* One of the plans makes the most requests.
ASSUME ExchangeAssumption ==
  /\ Plans \subseteq PlanType /\ MaxRequest \in Nat \ {0}
  /\ \E p \in Plans : \A q \in Plans : q.requests <= p.requests

None == [nr |-> 0]

\* Numbers of connections: no more exist than requests have been made.
Conns == 1 .. Max({p.requests : p \in Plans})

VARIABLES
  plan,        \* chosen once
  conns,       \* m_conns: connections kept for reuse
  total,       \* m_total
  used,        \* used[c]: m_request of connection c
  csock,       \* csock[c]: the client's socket, "open" or "closed"
  toServer,    \* toServer[c], toClient[c]: parts sent and not read
  toClient,
  session,     \* session[c]: where the server's handleClient is
  srx,         \* srx[c]: its parser, the request it has read
  pc,          \* pc[k]: where the client's doRequest is
  held,        \* held[k]: its connection, 0 for none
  asked,       \* requests made so far
  request,     \* request[k]: the latest request of the client
  rx,          \* rx[k]: its parser
  outcome,     \* outcome[k]: the result of its latest request
  faults,      \* what has gone wrong so far
  stray        \* history: connections on which a body was taken for a message

poolVars == <<conns, total, used>>
wireVars == <<toServer, toClient>>
sessionVars == <<session, srx>>
clientVars == <<pc, held, asked, request, rx, outcome>>
vars == <<plan, poolVars, wireVars, sessionVars, clientVars, csock, faults, stray>>

\* Definitions named Bad... are faulty variants of the definition that follows
\* them; no specification uses them.

\* ---- messages ------------------------------------------------------------

\* HttpRequest::dump, HttpResponse::dump: a message with a body announces it,
\* one without is a short head.
Message(r, body) ==
  LET part(p) == [of |-> r, part |-> p] IN
  IF body THEN <<part("head"), part("value"), part("body")>>
  ELSE <<part("short")>>

\* A parser that has seen nothing.
Fresh == [of |-> None, length |-> FALSE]

\* What has arrived is the rest of an earlier message.
Leftover(p, ts) == p.of = None /\ ts[1].part \notin {"head", "short"}

\* One round of recvRequest or recvResponse: parts ts have been read, the
\* parser has state p.  The next state of the parser, and whether the head is
\* incomplete, in error, complete with the body still to come, or the message
\* is complete; bytes beyond the message are dropped with the buffer.
Parse(p, ts) ==
  LET length == p.length \/ \E i \in 2 .. Len(ts) :
                              ts[i-1].part = "head" /\ ts[i].part = "value"
      ends == {i \in 1 .. Len(ts) : ts[i].part \in {"value", "short"}}
      head == [of |-> IF p.of = None THEN ts[1].of ELSE p.of, length |-> length]
  IN IF Leftover(p, ts) THEN [p |-> p, status |-> "error"]
     ELSE [p |-> head,
           status |-> IF ends = {} THEN "head"
                      ELSE IF length /\ Len(ts) \in ends THEN "body" ELSE "done"]

\* A Content-Length header in two reads.
Cut(ts) == ts[Len(ts)].part = "head"

\* ---- the pool and its users ----------------------------------------------

Go(k, l) == pc' = [pc EXCEPT ![k] = l]

Finish(k, result) == outcome' = [outcome EXCEPT ![k] = result]
Failed == [of |-> None, result |-> "error"]

Usable(c) == csock[c] = "open"

\* A number for a new connection: one whose ends have both gone.
Free(c) == csock[c] = "closed" /\ session[c] = "closed" /\ \A k \in Clients : held[k] # c

\* getConnection(), under the lock: drop dead connections, take the first.
\* (The age test never discards, m_createTime stays 0; the pool's maximal size
\* is not looked at.  m_total is changed after the lock, by the number of dead
\* ones, which is 0: only their owner closes connections, and then they are not
\* put back.)
GetConnection(k, close, body) ==
  LET live == {i \in 1 .. Len(conns) : Usable(conns[i])}
      n == IF live = {} THEN Len(conns) + 1 ELSE CHOOSE i \in live : \A j \in live : i <= j
  IN /\ pc[k] = "idle" /\ k \in plan.clients /\ asked < plan.requests
     /\ request' = [request EXCEPT ![k] =
                       [nr |-> asked + 1, close |-> close, body |-> body]]
     /\ asked' = asked + 1
     /\ faults' = IF close THEN faults \cup {"end"} ELSE faults
     /\ conns' = SubSeq(conns, n + 1, Len(conns))
     /\ total' = total - (n - 1)
     /\ held' = [held EXCEPT ![k] = IF live = {} THEN 0 ELSE conns[n]]
     /\ Finish(k, [of |-> None, result |-> "none"])
     /\ Go(k, IF live = {} THEN "connect" ELSE "send")
     /\ UNCHANGED <<plan, used, csock, wireVars, sessionVars, rx, stray>>

\* After the lock: connect a new one, or give up.
Connect(k) ==
  /\ pc[k] = "connect"
  /\ \/ \E c \in Conns :
          /\ Free(c) /\ \A d \in Conns : Free(d) => c <= d
          /\ csock' = [csock EXCEPT ![c] = "open"]
          /\ held' = [held EXCEPT ![k] = c]
          /\ session' = [session EXCEPT ![c] = "recv"]
          /\ total' = total + 1
          /\ stray' = stray \ {c}
          /\ Go(k, "send")
          /\ UNCHANGED <<outcome, faults>>
     \/ /\ Finish(k, Failed)
        /\ faults' = faults \cup {"end"}
        /\ Go(k, "idle")
        /\ UNCHANGED <<csock, held, session, total, stray>>
  /\ UNCHANGED <<plan, conns, used, wireVars, srx, asked, request, rx>>

\* sendRequest().  A session that has ended takes nothing: the bytes are lost
\* or the call fails, and then the connection is not closed.  No send timeout is
\* set, so a peer that does not read may hold the call here for ever.
Send(k) ==
  LET c == held[k] IN
  /\ pc[k] = "send"
  /\ \/ /\ toServer' = [toServer EXCEPT ![c] = IF session[c] = "closed" THEN @
                                               ELSE @ \o Message(request[k], request[k].body)]
        /\ Go(k, "recv")
        /\ UNCHANGED outcome
     \/ /\ session[c] = "closed"
        /\ Finish(k, Failed)
        /\ Go(k, "release")
        /\ UNCHANGED toServer
  /\ UNCHANGED <<plan, poolVars, csock, toClient, sessionVars, held, asked, request, rx, faults,
                 stray>>

BadGiveUp(k) ==
  /\ UNCHANGED <<csock, toClient>>
  /\ Finish(k, Failed)
  /\ Go(k, "release")

\* close() of the connection, and recvResponse() returns nothing.
GiveUp(k) ==
  /\ csock' = [csock EXCEPT ![held[k]] = "closed"]
  /\ toClient' = [toClient EXCEPT ![held[k]] = <<>>]
  /\ Finish(k, Failed)
  /\ Go(k, "release")

\* recvResponse(): the next read of the head, or of the body ...
Recv(k) ==
  LET c == held[k] IN
  /\ pc[k] \in {"recv", "body"} /\ toClient[c] # <<>> /\ c \notin stray
  /\ \E n \in 1 .. (IF pc[k] = "body" THEN 1 ELSE Len(toClient[c])) :
       LET ts == SubSeq(toClient[c], 1, n)
           r == IF pc[k] = "body" THEN [p |-> rx[k], status |-> "done"] ELSE Parse(rx[k], ts)
           rest == [toClient EXCEPT ![c] = SubSeq(@, n + 1, Len(@))]
       IN /\ rx' = [rx EXCEPT ![k] = r.p]
          /\ faults' = IF Cut(ts) THEN faults \cup {"cut"} ELSE faults
          /\ CASE r.status = "error" -> GiveUp(k)
               [] r.status = "done" ->
                    /\ Finish(k, [of |-> r.p.of, result |-> IF r.p.length THEN "whole" ELSE "bare"])
                    /\ Go(k, "release") /\ toClient' = rest /\ UNCHANGED csock
               [] r.status = "body" -> Go(k, "body") /\ toClient' = rest /\ UNCHANGED <<csock, outcome>>
               [] OTHER -> toClient' = rest /\ UNCHANGED <<pc, csock, outcome>>
  /\ UNCHANGED <<plan, poolVars, toServer, sessionVars, held, asked, request, stray>>

\* ... or a body left in the socket reads like a response or a chunk.  From then
\* on messages begin and end anywhere: what the parser makes of them is open.
RecvStray(k) ==
  LET c == held[k] IN
  /\ pc[k] \in {"recv", "body"} /\ toClient[c] # <<>>
  /\ c \in stray \/ (plan.mimics /\ pc[k] = "recv" /\ Leftover(rx[k], toClient[c]))
  /\ stray' = stray \cup {c} /\ faults' = faults \cup {"stray"}
  /\ rx' = [rx EXCEPT ![k] = [of |-> toClient[c][1].of, length |-> FALSE]]
  /\ \/ GiveUp(k)
     \/ /\ \E n \in 1 .. Len(toClient[c]) :
             toClient' = [toClient EXCEPT ![c] = SubSeq(@, n + 1, Len(@))]
        /\ \/ Finish(k, [of |-> toClient[c][1].of, result |-> "stray"]) /\ Go(k, "release")
           \/ (\E l \in {pc[k], "body"} : Go(k, l)) /\ UNCHANGED outcome
        /\ UNCHANGED csock
  /\ UNCHANGED <<plan, poolVars, toServer, sessionVars, held, asked, request>>

BadRecvFails(k) ==
  /\ pc[k] \in {"recv", "body"} /\ toClient[held[k]] = <<>>
  /\ session[held[k]] = "closed" /\ faults' = faults
  /\ GiveUp(k)
  /\ UNCHANGED <<plan, poolVars, toServer, sessionVars, held, asked, request, rx, stray>>

\* ... or the server has closed, or the receive timeout is over.
RecvFails(k) ==
  LET c == held[k] IN
  /\ pc[k] \in {"recv", "body"} /\ toClient[c] = <<>>
  /\ GiveUp(k)
  /\ faults' = IF session[c] = "closed" THEN faults ELSE faults \cup {"end"}
  /\ UNCHANGED <<plan, poolVars, toServer, sessionVars, held, asked, request, rx, stray>>

BadDiscard(c) == used[c] + 1 >= MaxRequest

\* ReleasePtr(), when the last reference is gone: is it kept?
Discard(c) == ~Usable(c) \/ used[c] + 1 >= MaxRequest

BadRelease(k) ==
  /\ pc[k] = "release"
  /\ conns' = IF Discard(held[k]) THEN conns ELSE Append(conns, held[k])
  /\ csock' = [csock EXCEPT ![held[k]] = IF Discard(held[k]) THEN "closed" ELSE @]
  /\ held' = [held EXCEPT ![k] = 0]
  /\ Go(k, "idle")
  /\ UNCHANGED <<plan, total, used, wireVars, sessionVars, asked, request, rx, outcome,
                 faults, stray>>

Release(k) ==
  LET c == held[k] IN
  /\ pc[k] = "release"
  /\ IF Discard(c)
     THEN /\ csock' = [csock EXCEPT ![c] = "closed"]
          /\ toClient' = [toClient EXCEPT ![c] = <<>>]
          /\ used' = [used EXCEPT ![c] = 0]
          /\ total' = total - 1
          /\ UNCHANGED conns
     ELSE /\ conns' = Append(conns, c)
          /\ used' = [used EXCEPT ![c] = @ + 1]
          /\ UNCHANGED <<csock, toClient, total>>
  /\ held' = [held EXCEPT ![k] = 0]
  /\ rx' = [rx EXCEPT ![k] = Fresh]
  /\ Go(k, "idle")
  /\ UNCHANGED <<plan, toServer, sessionVars, asked, request, outcome, faults, stray>>

\* ---- the server ----------------------------------------------------------

To(c, l) == session' = [session EXCEPT ![c] = l]

\* close() of the session's socket: what was not read is gone.
Hangup(c) ==
  /\ To(c, "closed")
  /\ srx' = [srx EXCEPT ![c] = Fresh]
  /\ toServer' = [toServer EXCEPT ![c] = <<>>]

\* recvRequest() of the next request.
ServerRecv(c) ==
  /\ session[c] \in {"recv", "body"} /\ toServer[c] # <<>> /\ c \notin stray
  /\ \E n \in 1 .. (IF session[c] = "body" THEN 1 ELSE Len(toServer[c])) :
       LET ts == SubSeq(toServer[c], 1, n)
           r == IF session[c] = "body" THEN [p |-> srx[c], status |-> "done"] ELSE Parse(srx[c], ts)
       IN /\ faults' = IF Cut(ts) THEN faults \cup {"cut"} ELSE faults
          /\ IF r.status = "error" THEN Hangup(c)
             ELSE /\ srx' = [srx EXCEPT ![c] = r.p]
                  /\ toServer' = [toServer EXCEPT ![c] = SubSeq(@, n + 1, Len(@))]
                  /\ To(c, CASE r.status = "done" -> "handle" [] r.status = "body" -> "body"
                             [] OTHER -> "recv")
  /\ UNCHANGED <<plan, poolVars, toClient, clientVars, csock, stray>>

\* The same with the rest of an earlier request that reads like a request.
ServerRecvStray(c) ==
  /\ session[c] \in {"recv", "body"} /\ toServer[c] # <<>>
  /\ c \in stray \/ (plan.mimics /\ session[c] = "recv" /\ Leftover(srx[c], toServer[c]))
  /\ stray' = stray \cup {c} /\ faults' = faults \cup {"stray"}
  /\ \/ Hangup(c)
     \/ \E n \in 1 .. Len(toServer[c]), close \in BOOLEAN :
          /\ srx' = [srx EXCEPT ![c] = [of |-> [toServer[c][1].of EXCEPT !.close = close],
                                        length |-> FALSE]]
          /\ toServer' = [toServer EXCEPT ![c] = SubSeq(@, n + 1, Len(@))]
          /\ \E l \in {session[c], "body", "handle"} : To(c, l)
  /\ UNCHANGED <<plan, poolVars, toClient, clientVars, csock>>

BadServerRecvFails(c) ==
  /\ session[c] \in {"recv", "body"} /\ toServer[c] = <<>> /\ csock[c] = "open"
  /\ Hangup(c) /\ faults' = faults \cup {"end"}
  /\ UNCHANGED <<plan, poolVars, toClient, clientVars, csock, stray>>

\* The client has closed, or the session's receive timeout is over.
ServerRecvFails(c) ==
  /\ session[c] \in {"recv", "body"} /\ toServer[c] = <<>>
  /\ Hangup(c)
  /\ faults' = IF csock[c] = "closed" THEN faults ELSE faults \cup {"end"}
  /\ UNCHANGED <<plan, poolVars, toClient, clientVars, csock, stray>>

BadLast(c) == plan.keepalive \/ srx[c].of.close

\* handleClient() leaves its loop after this answer.
Last(c) == ~plan.keepalive \/ srx[c].of.close

\* The servlet has answered: sendResponse(), whose failure is ignored, and the
\* next round of the loop with a new parser, or the end of it.
Respond(c) ==
  /\ session[c] = "handle"
  /\ toClient' = [toClient EXCEPT ![c] = IF csock[c] = "closed" THEN @
                                         ELSE @ \o Message(srx[c].of, TRUE)]
  /\ srx' = [srx EXCEPT ![c] = Fresh]
  /\ To(c, IF Last(c) THEN "last" ELSE "recv")
  /\ UNCHANGED <<plan, poolVars, toServer, clientVars, csock, faults, stray>>

CloseSession(c) ==
  /\ session[c] = "last" /\ Hangup(c)
  /\ UNCHANGED <<plan, poolVars, toClient, clientVars, csock, faults, stray>>

\* ---- the specification ---------------------------------------------------

Init ==
  /\ plan \in Plans
  /\ conns = <<>> /\ total = 0 /\ used = [c \in Conns |-> 0]
  /\ csock = [c \in Conns |-> "closed"]
  /\ toServer = [c \in Conns |-> <<>>] /\ toClient = [c \in Conns |-> <<>>]
  /\ session = [c \in Conns |-> "closed"] /\ srx = [c \in Conns |-> Fresh]
  /\ pc = [k \in Clients |-> "idle"] /\ held = [k \in Clients |-> 0]
  /\ asked = 0 /\ request = [k \in Clients |-> None]
  /\ rx = [k \in Clients |-> Fresh]
  /\ outcome = [k \in Clients |-> [of |-> None, result |-> "none"]]
  /\ faults = {} /\ stray = {}

\* Steps of a client but for those that may be held up for ever.
ClientStep(k) ==
  \/ Connect(k) \/ Recv(k) \/ RecvStray(k) \/ RecvFails(k) \/ Release(k)

SessionStep(c) ==
  ServerRecv(c) \/ ServerRecvStray(c) \/ ServerRecvFails(c) \/ CloseSession(c)

Next ==
  \/ \E k \in Clients : ClientStep(k) \/ Send(k)
  \/ \E k \in Clients, close \in plan.closes, body \in plan.bodies :
       GetConnection(k, close, body)
  \/ \E c \in Conns : SessionStep(c) \/ Respond(c)

Spec == Init /\ [][Next]_vars

\* Fibers run and a read that nothing ends is ended by the receive timeout of
\* its socket (module HookIO, for one worker: with several a timeout may be
\* lost).  A servlet need not return, nor a send to a peer that does not read.
Fairness ==
  /\ \A k \in Clients : WF_vars(ClientStep(k))
  /\ \A c \in Conns : WF_vars(SessionStep(c))

FairSpec == Spec /\ Fairness

\* ---- properties ----------------------------------------------------------

\* What a request of the pool gets is the answer to it, never that to an
\* earlier request of the same connection, and all of it unless a head arrived
\* in pieces.  (Then the body may stay in the socket, for the connection's next
\* user to fail on.)  The exception, a result of its own: on this connection a
\* body left in the socket was taken for a message, here or at the server.
OwnAnswer == \A k \in Clients :
  /\ outcome[k].result \in {"whole", "bare"} => outcome[k].of = request[k]
  /\ outcome[k].result = "bare" => "cut" \in faults
  /\ outcome[k].result = "stray" => "cut" \in faults /\ plan.mimics

\* A request fails for a reason: while the server keeps connections and nothing
\* was cut, refused, closed or late, every request is answered.  (A server that
\* does not keep them makes requests on reused connections fail: the pool does
\* not look at the answer's "connection: close".)
FailsForCause == \A k \in Clients :
  outcome[k].result = "error" => faults # {} \/ ~plan.keepalive

\* A connection has one owner, the pool or a client, and m_total, "the number of
\* connections", counts those that have one.
TotalIsExact ==
  /\ total = Cardinality({c \in Conns : \/ \E k \in Clients : held[k] = c
                                        \/ \E i \in 1 .. Len(conns) : conns[i] = c})
  /\ \A c \in Conns : csock[c] = "open" =>
       Cardinality({k \in Clients : held[k] = c})
         + Cardinality({i \in 1 .. Len(conns) : conns[i] = c}) = 1

\* doRequest() returns, whatever server and network do, or is held up in its
\* sendRequest() by a peer that does not read.
RequestReturns == \A k \in Clients : pc[k] # "idle" ~> pc[k] \in {"idle", "send"}

\* When a client has closed its end, the server's session ends, unless a servlet
\* does not return.
SessionEnds == \A c \in Conns :
  csock[c] = "closed" ~> session[c] \in {"closed", "handle"}

=============================================================================
