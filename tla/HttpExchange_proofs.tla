-------------------------- MODULE HttpExchange_proofs --------------------------
(***************************************************************************)
(* Proofs about requests and responses, for any clients, plans and limits  *)
(* on the use of a connection.                                             *)
(***************************************************************************)
EXTENDS HttpExchange, FiniteSetTheorems, SequenceTheorems, TLAPS

Requests == [nr : Nat \ {0}, close : BOOLEAN, body : BOOLEAN]
Parts == [of : Requests, part : {"head", "value", "body", "short"}]
ParserStates == [of : Requests \cup {None}, length : BOOLEAN]
Outcomes == [of : Requests \cup {None}, result : {"none", "error", "whole", "bare", "stray"}]
Waits == {"recv", "body"}
HasConnection == {"send", "recv", "body", "release"}

TypeInv ==
  /\ plan \in Plans /\ conns \in Seq(Conns) /\ total \in Int
  /\ used \in [Conns -> Nat] /\ csock \in [Conns -> {"open", "closed"}]
  /\ toServer \in [Conns -> Seq(Parts)] /\ toClient \in [Conns -> Seq(Parts)]
  /\ session \in [Conns -> {"closed", "recv", "body", "handle", "last"}]
  /\ srx \in [Conns -> ParserStates]
  /\ pc \in [Clients -> {"idle", "connect", "send", "recv", "body", "release"}]
  /\ held \in [Clients -> Conns \cup {0}] /\ asked \in Nat
  /\ request \in [Clients -> Requests \cup {None}] /\ rx \in [Clients -> ParserStates]
  /\ outcome \in [Clients -> Outcomes] /\ faults \subseteq {"end", "cut", "stray"}
  /\ stray \subseteq Conns

\* What goes with the places of clients and sessions.
PlaceInv ==
  /\ \A k \in Clients : /\ held[k] # 0 <=> pc[k] \in HasConnection
                        /\ pc[k] # "idle" => request[k] \in Requests
                        /\ pc[k] \in {"idle", "connect", "send"} => rx[k] = Fresh
                        /\ pc[k] = "body" => rx[k].of \in Requests
  /\ \A c \in Conns : session[c] \in {"body", "handle"} => srx[c].of \in Requests

\* ---- owners of connections -------------------------------------------------

Owned == {c \in Conns : \/ \E k \in Clients : held[k] = c
                        \/ \E i \in 1 .. Len(conns) : conns[i] = c}

OneHolder == \A k, l \in Clients : held[k] = held[l] /\ held[k] # 0 => k = l
OneEntry == \A i, j \in 1 .. Len(conns) : conns[i] = conns[j] => i = j
HeldOrKept == \A k \in Clients, i \in 1 .. Len(conns) : held[k] # conns[i]
KeptAreOpen == \A i \in 1 .. Len(conns) : csock[conns[i]] = "open"
OpenAreOwned == \A c \in Conns : csock[c] = "open" => c \in Owned
UsedAreOpen == \A k \in Clients : pc[k] \in {"send", "recv", "body"} => csock[held[k]] = "open"

OwnerInv ==
  /\ OneHolder /\ OneEntry /\ HeldOrKept /\ KeptAreOpen /\ OpenAreOwned /\ UsedAreOpen
  /\ total = Cardinality(Owned)

\* ---- whose answer -----------------------------------------------------------

\* The part by which a parser knows a message.
Begins(t) == t.part \in {"head", "short"}
NoneBegins(s) == \A i \in 1 .. Len(s) : ~Begins(s[i])
OnlyBegins(s, r) ==
  \A i \in 1 .. Len(s) : Begins(s[i]) => s[i].of = r /\ \A j \in 1 .. Len(s) : Begins(s[j]) => j = i

Quiet(c) == NoneBegins(toServer[c]) /\ srx[c].of = None /\ NoneBegins(toClient[c])

\* The request of k is on connection c in one place, and no other is.
Carries(c, k) ==
  /\ OnlyBegins(toServer[c], request[k])
  /\ srx[c].of # None => srx[c].of = request[k] /\ NoneBegins(toServer[c])
  /\ OnlyBegins(toClient[c], request[k])
  /\ ~NoneBegins(toClient[c]) => NoneBegins(toServer[c]) /\ srx[c].of = None
  /\ rx[k].of # None => rx[k].of = request[k] /\ Quiet(c)

Waiting(k, c) == held[k] = c /\ pc[k] \in Waits

CarryOf(c) ==
  /\ csock[c] = "closed" => toClient[c] = <<>>
  /\ session[c] = "closed" => toServer[c] = <<>> /\ srx[c] = Fresh
  /\ csock[c] = "open" /\ c \notin stray =>
       /\ \A k \in Clients : Waiting(k, c) => Carries(c, k)
       /\ (\A k \in Clients : ~Waiting(k, c)) => Quiet(c)

CarryInv == \A c \in Conns : CarryOf(c)

\* ---- how much of it ----------------------------------------------------------

\* Answers have a body, whose length follows the head.
Announced(s) ==
  \A i \in 1 .. Len(s) : /\ s[i].part # "short"
                         /\ s[i].part = "head" => i < Len(s) /\ s[i + 1].part = "value"

LengthInv ==
  /\ \A c \in Conns : Announced(toClient[c])
  /\ \A k \in Clients : rx[k].of # None /\ ~rx[k].length => "cut" \in faults

\* ---- while no head is cut ---------------------------------------------------

OneBody(s) == Len(s) = 1 /\ s[1].part = "body"

Answer(r) == Message(r, TRUE)

\* The session has nothing to do, or is no more.
Listens(c) ==
  session[c] \in {"recv", "last", "closed"} /\ srx[c] = Fresh /\ toServer[c] = <<>>

AtRest(c) == Listens(c) /\ toClient[c] = <<>>

UnderWay(c, k) ==
  LET r == request[k] IN
  \/ /\ pc[k] = "recv" /\ rx[k] = Fresh /\ session[c] \in {"recv", "last"} /\ srx[c] = Fresh
     /\ toServer[c] = Message(r, r.body) /\ toClient[c] = <<>>
  \/ /\ pc[k] = "recv" /\ rx[k] = Fresh /\ session[c] = "body" /\ srx[c].of = r
     /\ OneBody(toServer[c]) /\ toClient[c] = <<>>
  \/ /\ pc[k] = "recv" /\ rx[k] = Fresh /\ session[c] = "handle" /\ srx[c].of = r
     /\ toServer[c] = <<>> /\ toClient[c] = <<>>
  \/ pc[k] = "recv" /\ rx[k] = Fresh /\ Listens(c) /\ toClient[c] \in {<<>>, Answer(r)}
  \/ pc[k] = "body" /\ Listens(c) /\ OneBody(toClient[c])

FlowOf(c) == csock[c] = "open" =>
  /\ c \notin stray
  /\ \A k \in Clients : Waiting(k, c) => UnderWay(c, k)
  /\ (\A k \in Clients : ~Waiting(k, c)) => AtRest(c)

FlowInv == "cut" \notin faults => \A c \in Conns : FlowOf(c)

StrayInv == stray # {} => plan.mimics

\* ---- while nothing goes wrong ------------------------------------------------

SmoothClient(k) == outcome[k].result # "error" /\ (pc[k] # "idle" => ~request[k].close)

SmoothConn(c) == csock[c] = "open" => session[c] \notin {"last", "closed"}

SmoothInv == faults = {} /\ plan.keepalive =>
  (\A k \in Clients : SmoothClient(k)) /\ \A c \in Conns : SmoothConn(c)

-----------------------------------------------------------------------------
(* Lemmas about messages and connections.                                  *)

LEMMA ConnsFinite == Conns \subseteq Nat \ {0} /\ IsFiniteSet(Conns)
<1> DEFINE S == {p.requests : p \in Plans}
<1>1. \A p \in Plans : p.requests \in Nat
  BY ExchangeAssumption DEF PlanType
<1>2. \E m \in S : \A n \in S : m >= n
  <2>1. PICK p \in Plans : \A q \in Plans : q.requests <= p.requests
    BY ExchangeAssumption
  <2> QED
    BY <1>1, <2>1
<1>3. Max(S) \in S
  <2> HIDE DEF S
  <2> QED
    BY <1>2, Zenon DEF Max
<1>4. Max(S) \in Nat
  BY <1>1, <1>3
<1>5. Conns = 1 .. Max(S)
  BY DEF Conns
<1> HIDE DEF S
<1>6. IsFiniteSet(1 .. Max(S))
  BY <1>4, FS_Interval
<1> QED
  BY <1>4, <1>5, <1>6

LEMMA NoneIsNoRequest == None \notin Requests
BY DEF None, Requests

LEMMA MessageType ==
  ASSUME NEW r \in Requests, NEW body \in BOOLEAN
  PROVE  /\ Message(r, body) \in Seq(Parts)
         /\ body => /\ Len(Message(r, body)) = 3 /\ Message(r, body)[1].part = "head"
                    /\ Message(r, body)[2].part = "value" /\ Message(r, body)[3].part = "body"
         /\ ~body => Len(Message(r, body)) = 1 /\ Message(r, body)[1].part = "short"
         /\ \A i \in 1 .. Len(Message(r, body)) : Message(r, body)[i].of = r
<1> DEFINE part(p) == [of |-> r, part |-> p]
<1>1. CASE body
  <2>1. Message(r, body) = <<part("head"), part("value"), part("body")>>
    BY <1>1 DEF Message
  <2>2. part("head") \in Parts /\ part("value") \in Parts /\ part("body") \in Parts
    BY DEF Parts
  <2>3. /\ part("head").part = "head" /\ part("value").part = "value"
        /\ part("body").part = "body" /\ \A p : part(p).of = r
    OBVIOUS
  <2> HIDE DEF part
  <2>4. /\ Message(r, body) \in Seq(Parts) /\ Len(Message(r, body)) = 3
        /\ Message(r, body)[1] = part("head") /\ Message(r, body)[2] = part("value")
        /\ Message(r, body)[3] = part("body")
    BY <2>1, <2>2
  <2>5. \A i \in 1 .. 3 : Message(r, body)[i].of = r
    BY <2>3, <2>4
  <2> QED
    BY <1>1, <2>3, <2>4, <2>5
<1>2. CASE ~body
  <2>1. Message(r, body) = <<part("short")>>
    BY <1>2 DEF Message
  <2>2. part("short") \in Parts /\ part("short").part = "short" /\ part("short").of = r
    BY DEF Parts
  <2> HIDE DEF part
  <2> QED
    BY <1>2, <2>1, <2>2
<1> QED
  BY <1>1, <1>2

LEMMA AnswerType ==
  ASSUME NEW r \in Requests
  PROVE  /\ Message(r, TRUE) \in Seq(Parts) /\ Len(Message(r, TRUE)) = 3
         /\ Message(r, TRUE)[1].part = "head" /\ Message(r, TRUE)[2].part = "value"
         /\ Message(r, TRUE)[3].part = "body"
<1>1. ASSUME NEW b \in BOOLEAN, b = TRUE
      PROVE  /\ Message(r, b) \in Seq(Parts) /\ Len(Message(r, b)) = 3
             /\ Message(r, b)[1].part = "head" /\ Message(r, b)[2].part = "value"
             /\ Message(r, b)[3].part = "body"
  BY <1>1, MessageType
<1>2. TRUE \in BOOLEAN
  OBVIOUS
<1> QED
  BY <1>1, <1>2, Zenon

\* What is left of a sequence of parts, and what has been read of it.
LEMMA SplitType ==
  ASSUME NEW s \in Seq(Parts), NEW n \in 1 .. Len(s)
  PROVE  /\ SubSeq(s, 1, n) \in Seq(Parts) /\ Len(SubSeq(s, 1, n)) = n
         /\ \A i \in 1 .. n : SubSeq(s, 1, n)[i] = s[i]
         /\ SubSeq(s, n + 1, Len(s)) \in Seq(Parts) /\ Len(SubSeq(s, n + 1, Len(s))) = Len(s) - n
         /\ \A i \in 1 .. Len(s) - n : SubSeq(s, n + 1, Len(s))[i] = s[n + i]
<1>1. n \in Int /\ n + 1 \in Int /\ Len(s) \in Int /\ 1 \in Int /\ \A i \in 1 .. Len(s) : s[i] \in Parts
  OBVIOUS
<1>2. /\ SubSeq(s, 1, n) \in Seq(Parts) /\ Len(SubSeq(s, 1, n)) = n
      /\ \A i \in 1 .. n : SubSeq(s, 1, n)[i] = s[i]
  <2>1. \A i \in 1 .. n : s[i] \in Parts
    BY <1>1
  <2> QED
    BY <1>1, <2>1, SubSeqProperties
<1>3. /\ SubSeq(s, n + 1, Len(s)) \in Seq(Parts)
      /\ Len(SubSeq(s, n + 1, Len(s))) = IF n + 1 <= Len(s) THEN Len(s) - (n + 1) + 1 ELSE 0
      /\ \A i \in 1 .. Len(s) - (n + 1) + 1 : SubSeq(s, n + 1, Len(s))[i] = s[n + 1 + i - 1]
  <2>1. \A i \in n + 1 .. Len(s) : s[i] \in Parts
    BY <1>1
  <2> QED
    BY <1>1, <2>1, SubSeqProperties
<1> QED
  BY <1>1, <1>2, <1>3

\* A parser begins with the part a message begins with, and then keeps the
\* message; it never forgets a length it has seen.
LEMMA ParseFacts ==
  ASSUME NEW p \in ParserStates, NEW ts \in Seq(Parts), ts # <<>>
  PROVE  /\ Parse(p, ts).p \in ParserStates
         /\ Parse(p, ts).status \in {"error", "head", "body", "done"}
         /\ Parse(p, ts).status = "error" <=> p.of = None /\ ~Begins(ts[1])
         /\ Parse(p, ts).status = "error" => Parse(p, ts).p = p
         /\ Parse(p, ts).status # "error" =>
              /\ Parse(p, ts).p.of = IF p.of = None THEN ts[1].of ELSE p.of
              /\ Parse(p, ts).p.of \in Requests
              /\ p.length => Parse(p, ts).p.length
              /\ Len(ts) > 1 /\ ts[1].part = "head" /\ ts[2].part = "value" =>
                   Parse(p, ts).p.length
<1> DEFINE length == p.length \/ \E i \in 2 .. Len(ts) :
                        ts[i-1].part = "head" /\ ts[i].part = "value"
           ends == {i \in 1 .. Len(ts) : ts[i].part \in {"value", "short"}}
           head == [of |-> IF p.of = None THEN ts[1].of ELSE p.of, length |-> length]
           status == IF ends = {} THEN "head"
                     ELSE IF length /\ Len(ts) \in ends THEN "body" ELSE "done"
<1>1. Parse(p, ts) = IF p.of = None /\ ~Begins(ts[1]) THEN [p |-> p, status |-> "error"]
                     ELSE [p |-> head, status |-> status]
  BY DEF Parse, Leftover, Begins
<1>2. ts[1] \in Parts /\ p.of \in Requests \cup {None} /\ p.length \in BOOLEAN
  BY DEF ParserStates
<1>3. status \in {"head", "body", "done"} /\ length \in BOOLEAN
  OBVIOUS
<1>4. Len(ts) > 1 /\ ts[1].part = "head" /\ ts[2].part = "value" => length
  <2>1. ASSUME Len(ts) > 1, ts[1].part = "head", ts[2].part = "value"
        PROVE  length
    <3>1. 2 \in 2 .. Len(ts) /\ ts[2 - 1] = ts[1]
      BY <2>1
    <3> QED
      BY <2>1, <3>1
  <2> QED
    BY <2>1
<1>5. head.of = (IF p.of = None THEN ts[1].of ELSE p.of) /\ head.length = length
  OBVIOUS
<1>6. head.of \in Requests /\ head \in ParserStates
  BY <1>2, <1>3 DEF Parts, ParserStates
<1>7. p.length => length
  OBVIOUS
<1> HIDE DEF head, status, length
<1> QED
  BY <1>1, <1>3, <1>4, <1>5, <1>6, <1>7

-----------------------------------------------------------------------------
(* What a read does.                                                       *)

\* The client's parser is in error, or it has read n parts and goes on.
ReadBy(k, c, n, p) ==
  /\ n \in 1 .. Len(toClient[c]) /\ (pc[k] = "body" => n = 1)
  /\ p \in ParserStates
  /\ rx' = [rx EXCEPT ![k] = p]
  /\ faults' = IF toClient[c][n].part = "head" THEN faults \cup {"cut"} ELSE faults
  /\ \/ /\ pc[k] = "recv" /\ rx[k].of = None /\ ~Begins(toClient[c][1])
        /\ p = rx[k] /\ GiveUp(k)
     \/ /\ p.of = IF rx[k].of = None THEN toClient[c][1].of ELSE rx[k].of
        /\ p.of \in Requests
        /\ rx[k].of = None => Begins(toClient[c][1])
        /\ rx[k].length => p.length
        /\ rx[k].of = None /\ n > 1 /\ Announced(toClient[c]) => p.length
        /\ toClient' = [toClient EXCEPT ![c] = SubSeq(@, n + 1, Len(@))]
        /\ csock' = csock
        /\ \/ /\ Finish(k, [of |-> p.of, result |-> IF p.length THEN "whole" ELSE "bare"])
              /\ Go(k, "release")
           \/ pc[k] = "recv" /\ Go(k, "body") /\ outcome' = outcome
           \/ pc[k] = "recv" /\ pc' = pc /\ outcome' = outcome

LEMMA RecvCases ==
  ASSUME TypeInv, PlaceInv, NEW k \in Clients, Recv(k)
  PROVE  /\ held[k] \in Conns /\ pc[k] \in Waits /\ held[k] \notin stray
         /\ UNCHANGED <<plan, poolVars, toServer, sessionVars, held, asked, request, stray>>
         /\ \E n \in Nat, p \in ParserStates : ReadBy(k, held[k], n, p)
<1> DEFINE c == held[k]
           s == toClient[c]
<1>1. c \in Conns /\ pc[k] \in Waits
  BY DEF Recv, PlaceInv, HasConnection, TypeInv, Waits
<1>2. s \in Seq(Parts) /\ s # <<>> /\ rx[k] \in ParserStates
  BY <1>1 DEF TypeInv, Recv
<1>3. held[k] \notin stray
      /\ UNCHANGED <<plan, poolVars, toServer, sessionVars, held, asked, request, stray>>
  BY DEF Recv
<1> DEFINE ts(n) == SubSeq(s, 1, n)
           r(n) == IF pc[k] = "body" THEN [p |-> rx[k], status |-> "done"] ELSE Parse(rx[k], ts(n))
           rest(n) == [toClient EXCEPT ![c] = SubSeq(@, n + 1, Len(@))]
<1>4. PICK n \in 1 .. (IF pc[k] = "body" THEN 1 ELSE Len(s)) :
        /\ rx' = [rx EXCEPT ![k] = r(n).p]
        /\ faults' = IF Cut(ts(n)) THEN faults \cup {"cut"} ELSE faults
        /\ CASE r(n).status = "error" -> GiveUp(k)
             [] r(n).status = "done" ->
                  /\ Finish(k, [of |-> r(n).p.of,
                                result |-> IF r(n).p.length THEN "whole" ELSE "bare"])
                  /\ Go(k, "release") /\ toClient' = rest(n) /\ UNCHANGED csock
             [] r(n).status = "body" ->
                  Go(k, "body") /\ toClient' = rest(n) /\ UNCHANGED <<csock, outcome>>
             [] OTHER -> toClient' = rest(n) /\ UNCHANGED <<pc, csock, outcome>>
  BY DEF Recv
<1>5. n \in 1 .. Len(s) /\ n \in Nat /\ (pc[k] = "body" => n = 1)
  BY <1>2, <1>4
<1>6. ts(n) \in Seq(Parts) /\ Len(ts(n)) = n /\ \A i \in 1 .. n : ts(n)[i] = s[i]
  BY <1>2, <1>5, SplitType
<1>7. ts(n) # <<>> /\ ts(n)[1] = s[1] /\ ts(n)[n] = s[n] /\ (n > 1 => ts(n)[2] = s[2])
  BY <1>5, <1>6
<1>8. /\ r(n).p \in ParserStates
      /\ r(n).status = "error" =>
           pc[k] = "recv" /\ rx[k].of = None /\ ~Begins(s[1]) /\ r(n).p = rx[k]
      /\ r(n).status # "error" =>
           /\ r(n).p.of = IF rx[k].of = None THEN s[1].of ELSE rx[k].of
           /\ r(n).p.of \in Requests
           /\ rx[k].of = None => Begins(s[1])
           /\ rx[k].length => r(n).p.length
           /\ rx[k].of = None /\ n > 1 /\ Announced(s) => r(n).p.length
      /\ r(n).status # "done" => pc[k] = "recv"
  <2>1. CASE pc[k] = "body"
    <3>1. r(n).p = rx[k] /\ r(n).status = "done" /\ rx[k].of \in Requests
      BY <2>1 DEF PlaceInv
    <3> QED
      BY <1>2, <3>1, NoneIsNoRequest
  <2>2. CASE pc[k] # "body"
    <3>1. r(n) = Parse(rx[k], ts(n)) /\ pc[k] = "recv"
      BY <1>1, <2>2 DEF Waits
    <3>2. Announced(s) /\ n > 1 /\ Begins(s[1]) => s[1].part = "head" /\ s[2].part = "value"
      BY <1>2, <1>5 DEF Announced, Begins
    <3> HIDE DEF ts, r, s
    <3> QED
      BY <1>2, <1>6, <1>7, <3>1, <3>2, ParseFacts
  <2> QED
    BY <2>1, <2>2
<1>9. Cut(ts(n)) <=> s[n].part = "head"
  BY <1>6, <1>7 DEF Cut
<1>10. ReadBy(k, c, n, r(n).p)
  <2> HIDE DEF r, ts
  <2>1. CASE r(n).status = "error"
    <3>1. GiveUp(k)
      BY <1>4, <2>1
    <3> QED
      BY <1>4, <1>5, <1>8, <1>9, <2>1, <3>1 DEF ReadBy
  <2>2. CASE r(n).status = "done"
    BY <1>4, <1>5, <1>8, <1>9, <2>2 DEF ReadBy
  <2>3. CASE r(n).status = "body"
    BY <1>4, <1>5, <1>8, <1>9, <2>3 DEF ReadBy
  <2>4. CASE r(n).status \notin {"error", "done", "body"}
    <3>1. toClient' = rest(n) /\ UNCHANGED <<pc, csock, outcome>>
      BY <1>4, <2>4
    <3> QED
      BY <1>4, <1>5, <1>8, <1>9, <2>4, <3>1 DEF ReadBy
  <2> QED
    BY <2>1, <2>2, <2>3, <2>4
<1> QED
  BY <1>1, <1>3, <1>5, <1>8, <1>10

\* The same of the server's parser.
ServedBy(c, n, p) ==
  /\ n \in 1 .. Len(toServer[c]) /\ (session[c] = "body" => n = 1)
  /\ faults' = IF toServer[c][n].part = "head" THEN faults \cup {"cut"} ELSE faults
  /\ \/ /\ session[c] = "recv" /\ srx[c].of = None /\ ~Begins(toServer[c][1])
        /\ Hangup(c)
     \/ /\ p.of = IF srx[c].of = None THEN toServer[c][1].of ELSE srx[c].of
        /\ p.of \in Requests
        /\ srx[c].of = None => Begins(toServer[c][1])
        /\ srx' = [srx EXCEPT ![c] = p]
        /\ toServer' = [toServer EXCEPT ![c] = SubSeq(@, n + 1, Len(@))]
        /\ \/ To(c, "handle")
           \/ session[c] = "recv" /\ \E l \in {"recv", "body"} : To(c, l)

LEMMA ServerRecvCases ==
  ASSUME TypeInv, PlaceInv, NEW c \in Conns, ServerRecv(c)
  PROVE  /\ session[c] \in Waits
         /\ UNCHANGED <<plan, poolVars, toClient, clientVars, csock, stray>>
         /\ \E n \in Nat, p \in ParserStates : ServedBy(c, n, p)
<1> DEFINE s == toServer[c]
           ts(n) == SubSeq(s, 1, n)
           r(n) == IF session[c] = "body" THEN [p |-> srx[c], status |-> "done"]
                   ELSE Parse(srx[c], ts(n))
<1>1. session[c] \in Waits
  BY DEF ServerRecv, Waits
<1>2. s \in Seq(Parts) /\ s # <<>> /\ srx[c] \in ParserStates
  BY DEF TypeInv, ServerRecv
<1>3. UNCHANGED <<plan, poolVars, toClient, clientVars, csock, stray>>
  BY DEF ServerRecv
<1>4. PICK n \in 1 .. (IF session[c] = "body" THEN 1 ELSE Len(s)) :
        /\ faults' = IF Cut(ts(n)) THEN faults \cup {"cut"} ELSE faults
        /\ IF r(n).status = "error" THEN Hangup(c)
           ELSE /\ srx' = [srx EXCEPT ![c] = r(n).p]
                /\ toServer' = [toServer EXCEPT ![c] = SubSeq(@, n + 1, Len(@))]
                /\ To(c, CASE r(n).status = "done" -> "handle" [] r(n).status = "body" -> "body"
                           [] OTHER -> "recv")
  BY DEF ServerRecv
<1>5. n \in 1 .. Len(s) /\ n \in Nat /\ (session[c] = "body" => n = 1)
  BY <1>2, <1>4
<1>6. ts(n) \in Seq(Parts) /\ Len(ts(n)) = n /\ \A i \in 1 .. n : ts(n)[i] = s[i]
  BY <1>2, <1>5, SplitType
<1>7. ts(n) # <<>> /\ ts(n)[1] = s[1] /\ ts(n)[n] = s[n]
  BY <1>5, <1>6
<1>8. /\ r(n).p \in ParserStates /\ r(n).status \in {"error", "head", "body", "done"}
      /\ r(n).status = "error" => session[c] = "recv" /\ srx[c].of = None /\ ~Begins(s[1])
      /\ r(n).status # "error" =>
           /\ r(n).p.of = IF srx[c].of = None THEN s[1].of ELSE srx[c].of
           /\ r(n).p.of \in Requests
           /\ srx[c].of = None => Begins(s[1])
      /\ r(n).status # "done" => session[c] = "recv"
  <2>1. CASE session[c] = "body"
    <3>1. r(n).p = srx[c] /\ r(n).status = "done" /\ srx[c].of \in Requests
      BY <2>1 DEF PlaceInv
    <3> QED
      BY <1>2, <3>1, NoneIsNoRequest
  <2>2. CASE session[c] # "body"
    <3>1. r(n) = Parse(srx[c], ts(n)) /\ session[c] = "recv"
      BY <1>1, <2>2 DEF Waits
    <3> HIDE DEF ts, r, s
    <3> QED
      BY <1>2, <1>6, <1>7, <3>1, ParseFacts
  <2> QED
    BY <2>1, <2>2
<1>9. Cut(ts(n)) <=> s[n].part = "head"
  BY <1>6, <1>7 DEF Cut
<1>10. ServedBy(c, n, r(n).p)
  <2> HIDE DEF r, ts
  <2>1. CASE r(n).status = "error"
    <3>1. Hangup(c)
      BY <1>4, <2>1
    <3> QED
      BY <1>4, <1>5, <1>8, <1>9, <2>1, <3>1 DEF ServedBy
  <2>2. CASE r(n).status = "done"
    <3>1. To(c, "handle")
      BY <1>4, <2>2
    <3> QED
      BY <1>4, <1>5, <1>8, <1>9, <2>2, <3>1 DEF ServedBy
  <2>3. CASE r(n).status = "body"
    <3>1. To(c, "body")
      BY <1>4, <2>3
    <3> QED
      BY <1>4, <1>5, <1>8, <1>9, <2>3, <3>1 DEF ServedBy
  <2>4. CASE r(n).status = "head"
    <3>1. To(c, "recv")
      BY <1>4, <2>4
    <3> QED
      BY <1>4, <1>5, <1>8, <1>9, <2>4, <3>1 DEF ServedBy
  <2> QED
    BY <1>8, <2>1, <2>2, <2>3, <2>4
<1> QED
  BY <1>1, <1>3, <1>5, <1>8, <1>10

\* What is left of a body is taken for an answer by the client ...
LEMMA StrayCases ==
  ASSUME TypeInv, PlaceInv, NEW k \in Clients, NEW c, c = held[k], RecvStray(k)
  PROVE  /\ c \in Conns /\ pc[k] \in Waits
         /\ UNCHANGED <<plan, poolVars, toServer, sessionVars, held, asked, request>>
         /\ stray' = stray \cup {c} /\ faults' = faults \cup {"stray"}
         /\ \E p \in ParserStates : rx' = [rx EXCEPT ![k] = p] /\ p.of \in Requests
         /\ \/ GiveUp(k)
            \/ /\ csock' = csock
               /\ \E n \in 1 .. Len(toClient[c]) :
                    toClient' = [toClient EXCEPT ![c] = SubSeq(@, n + 1, Len(@))]
               /\ \/ \E r \in Requests : Finish(k, [of |-> r, result |-> "stray"]) /\ Go(k, "release")
                  \/ \E l \in Waits : Go(k, l) /\ outcome' = outcome
<1>1. c \in Conns /\ pc[k] \in Waits
  BY DEF RecvStray, PlaceInv, HasConnection, TypeInv, Waits
<1>2. toClient[c] \in Seq(Parts) /\ toClient[c] # <<>>
  BY <1>1 DEF RecvStray, TypeInv
<1>a. \A q \in Parts : q.of \in Requests
  BY DEF Parts
<1>3. toClient[c][1].of \in Requests
  <2>1. toClient[c][1] \in Parts
    BY <1>2
  <2> QED
    BY <1>a, <2>1
<1>4. [of |-> toClient[c][1].of, length |-> FALSE] \in ParserStates
  BY <1>3 DEF ParserStates
<1>5. \E p \in ParserStates : rx' = [rx EXCEPT ![k] = p] /\ p.of \in Requests
  <2>1. rx' = [rx EXCEPT ![k] = [of |-> toClient[c][1].of, length |-> FALSE]]
    BY DEF RecvStray
  <2> QED
    BY <1>3, <1>4, <2>1
<1>6. /\ UNCHANGED <<plan, poolVars, toServer, sessionVars, held, asked, request>>
      /\ stray' = stray \cup {c} /\ faults' = faults \cup {"stray"}
  BY DEF RecvStray
<1>7. CASE ~GiveUp(k)
  <2>1. /\ csock' = csock
        /\ \E n \in 1 .. Len(toClient[c]) :
             toClient' = [toClient EXCEPT ![c] = SubSeq(@, n + 1, Len(@))]
        /\ \/ Finish(k, [of |-> toClient[c][1].of, result |-> "stray"]) /\ Go(k, "release")
           \/ (\E l \in {pc[k], "body"} : Go(k, l)) /\ UNCHANGED outcome
    BY <1>7 DEF RecvStray
  <2>2. \A l \in {pc[k], "body"} : l \in Waits
    BY <1>1 DEF Waits
  <2> QED
    BY <1>1, <1>3, <1>5, <1>6, <2>1, <2>2
<1> QED
  BY <1>1, <1>5, <1>6, <1>7

\* ... or for a request by the session.
LEMMA ServerStrayCases ==
  ASSUME TypeInv, PlaceInv, NEW c \in Conns, ServerRecvStray(c)
  PROVE  /\ session[c] \in Waits
         /\ UNCHANGED <<plan, poolVars, toClient, clientVars, csock>>
         /\ stray' = stray \cup {c} /\ faults' = faults \cup {"stray"}
         /\ \/ Hangup(c)
            \/ \E n \in 1 .. Len(toServer[c]), p \in ParserStates, l \in {"recv", "body", "handle"} :
                 /\ p.of \in Requests /\ srx' = [srx EXCEPT ![c] = p]
                 /\ toServer' = [toServer EXCEPT ![c] = SubSeq(@, n + 1, Len(@))]
                 /\ To(c, l)
<1>1. /\ session[c] \in Waits
      /\ UNCHANGED <<plan, poolVars, toClient, clientVars, csock>>
      /\ stray' = stray \cup {c} /\ faults' = faults \cup {"stray"}
  BY DEF ServerRecvStray, Waits
<1>2. toServer[c] \in Seq(Parts) /\ toServer[c] # <<>>
  BY DEF ServerRecvStray, TypeInv
<1>a. \A q \in Parts : q.of \in Requests
  BY DEF Parts
<1>3. toServer[c][1].of \in Requests
  <2>1. toServer[c][1] \in Parts
    BY <1>2
  <2> QED
    BY <1>a, <2>1
<1>4. CASE ~Hangup(c)
  <2> DEFINE parser(close) == [of |-> [toServer[c][1].of EXCEPT !.close = close], length |-> FALSE]
  <2>1. PICK n \in 1 .. Len(toServer[c]), close \in BOOLEAN :
          /\ srx' = [srx EXCEPT ![c] = parser(close)]
          /\ toServer' = [toServer EXCEPT ![c] = SubSeq(@, n + 1, Len(@))]
          /\ \E l \in {session[c], "body", "handle"} : To(c, l)
    BY <1>4 DEF ServerRecvStray
  <2>2. [toServer[c][1].of EXCEPT !.close = close] \in Requests
    BY <1>3 DEF Requests
  <2>3. parser(close) \in ParserStates /\ parser(close).of \in Requests
    BY <2>2 DEF ParserStates
  <2>4. \E l \in {"recv", "body", "handle"} : To(c, l)
    BY <1>1, <2>1 DEF Waits
  <2> HIDE DEF parser
  <2> QED
    BY <1>1, <2>1, <2>3, <2>4
<1> QED
  BY <1>1, <1>4

\* The steps of a client on its connection.
OnConnection(k) == Send(k) \/ Recv(k) \/ RecvStray(k) \/ RecvFails(k) \/ Release(k)

LEMMA HoldsOne ==
  ASSUME TypeInv, PlaceInv, NEW k \in Clients, OnConnection(k)
  PROVE  held[k] \in Conns
BY DEF OnConnection, Send, Recv, RecvStray, RecvFails, Release, HasConnection, PlaceInv, TypeInv

-----------------------------------------------------------------------------
(* Types and places.                                                       *)

BaseInv == TypeInv /\ PlaceInv /\ OwnerInv

\* The pool keeps no dead connection, so that getConnection takes the first one
\* and drops none.
LEMMA GetCases ==
  ASSUME BaseInv, NEW k \in Clients, NEW close \in BOOLEAN, NEW body \in BOOLEAN,
         GetConnection(k, close, body)
  PROVE  /\ pc[k] = "idle" /\ held[k] = 0 /\ total' = total
         /\ request' = [request EXCEPT ![k] = [nr |-> asked + 1, close |-> close, body |-> body]]
         /\ request'[k] \in Requests
         /\ \/ /\ conns = <<>> /\ conns' = conns /\ held' = held /\ Go(k, "connect")
            \/ /\ conns # <<>> /\ conns[1] \in Conns
               /\ conns' \in Seq(Conns) /\ Len(conns') = Len(conns) - 1
               /\ \A i \in 1 .. Len(conns) - 1 : conns'[i] = conns[i + 1]
               /\ held' = [held EXCEPT ![k] = conns[1]] /\ Go(k, "send")
<1> USE DEF BaseInv, TypeInv
<1> DEFINE live == {i \in 1 .. Len(conns) : Usable(conns[i])}
           n == IF live = {} THEN Len(conns) + 1 ELSE CHOOSE i \in live : \A j \in live : i <= j
<1>1. live = 1 .. Len(conns)
  BY DEF OwnerInv, KeptAreOpen, Usable
<1>2. /\ conns' = SubSeq(conns, n + 1, Len(conns)) /\ total' = total - (n - 1)
      /\ held' = [held EXCEPT ![k] = IF live = {} THEN 0 ELSE conns[n]]
      /\ Go(k, IF live = {} THEN "connect" ELSE "send")
      /\ pc[k] = "idle"
      /\ request' = [request EXCEPT ![k] = [nr |-> asked + 1, close |-> close, body |-> body]]
  BY Zenon DEF GetConnection
<1>b. Len(conns) \in Nat /\ (Len(conns) = 0 <=> conns = <<>>)
  OBVIOUS
<1>c. live = {} => Len(conns) = 0
  <2> HIDE DEF live
  <2>1. Len(conns) # 0 => 1 \in 1 .. Len(conns)
    BY <1>b
  <2> QED
    BY <1>1, <2>1
<1>3. n = 1
  <2>1. CASE live = {}
    <3> HIDE DEF live
    <3> QED
      BY <1>c, <2>1
  <2>2. CASE live # {}
    <3>1. 1 \in live /\ \A j \in live : 1 <= j
      BY <1>1, <2>2
    <3>2. \A i \in live : (\A j \in live : i <= j) => i = 1
      BY <1>1, <3>1
    <3> HIDE DEF live
    <3>3. (CHOOSE i \in live : \A j \in live : i <= j) = 1
      BY <3>1, <3>2
    <3> QED
      BY <2>2, <3>3
  <2> QED
    BY <2>1, <2>2
<1>4. live = {} <=> conns = <<>>
  <2> HIDE DEF live
  <2> QED
    BY <1>1, <1>b, <1>c
<1> HIDE DEF live, n
<1>5. total' = total /\ conns' = SubSeq(conns, 2, Len(conns))
  BY <1>2, <1>3
<1>6. held[k] = 0
  BY <1>2 DEF PlaceInv, HasConnection
<1>7. request'[k] \in Requests
  BY <1>2 DEF Requests
<1>8. CASE conns = <<>>
  <2>1. conns' = conns
    BY <1>5, <1>8, SubSeqEmpty
  <2>2. held' = held
    BY <1>2, <1>4, <1>6, <1>8
  <2> QED
    BY <1>2, <1>4, <1>5, <1>6, <1>7, <1>8, <2>1, <2>2
<1>9. CASE conns # <<>>
  <2>1. conns[1] \in Conns
    BY <1>9
  <2>2. conns' = Tail(conns)
    BY <1>5, <1>9, TailIsSubSeq
  <2>3. conns' \in Seq(Conns) /\ Len(conns') = Len(conns) - 1
        /\ \A i \in 1 .. Len(conns) - 1 : conns'[i] = conns[i + 1]
    BY <1>9, <2>2, HeadTailProperties
  <2> QED
    BY <1>2, <1>3, <1>4, <1>5, <1>6, <1>7, <1>9, <2>1, <2>3
<1> QED
  BY <1>8, <1>9

LEMMA TypeInit == Init => TypeInv /\ PlaceInv
BY NoneIsNoRequest, ConnsFinite, ExchangeAssumption
   DEF Init, TypeInv, PlaceInv, HasConnection, Fresh, ParserStates, Outcomes

LEMMA FreshType == Fresh \in ParserStates /\ Fresh.of = None
BY DEF Fresh, ParserStates

\* A failed request: the connection is closed, what has arrived on it is gone.
LEMMA GiveUpType ==
  ASSUME TypeInv, NEW k \in Clients, held[k] \in Conns, GiveUp(k)
  PROVE  /\ csock' \in [Conns -> {"open", "closed"}] /\ toClient' \in [Conns -> Seq(Parts)]
         /\ outcome' \in [Clients -> Outcomes] /\ pc' = [pc EXCEPT ![k] = "release"]
BY DEF TypeInv, GiveUp, Finish, Go, Failed, Outcomes

LEMMA ReadType ==
  ASSUME TypeInv, NEW k \in Clients, held[k] \in Conns, NEW n \in Nat, NEW p \in ParserStates,
         ReadBy(k, held[k], n, p)
  PROVE  /\ csock' \in [Conns -> {"open", "closed"}] /\ toClient' \in [Conns -> Seq(Parts)]
         /\ outcome' \in [Clients -> Outcomes] /\ rx' \in [Clients -> ParserStates]
         /\ pc' \in {[pc EXCEPT ![k] = "release"], [pc EXCEPT ![k] = "body"], pc}
         /\ faults' \subseteq {"end", "cut", "stray"}
         /\ pc'[k] = "body" => pc[k] = "recv" /\ rx'[k].of \in Requests
<1> DEFINE c == held[k]
<1>1. toClient[c] \in Seq(Parts) /\ SubSeq(toClient[c], n + 1, Len(toClient[c])) \in Seq(Parts)
  BY SplitType DEF ReadBy, TypeInv
<1>2. rx' \in [Clients -> ParserStates] /\ faults' \subseteq {"end", "cut", "stray"} /\ rx'[k] = p
  BY DEF ReadBy, TypeInv
<1>3. CASE GiveUp(k)
  BY <1>2, <1>3, GiveUpType DEF TypeInv
<1>4. CASE toClient' = [toClient EXCEPT ![c] = SubSeq(@, n + 1, Len(@))] /\ csock' = csock
           /\ p.of \in Requests
  <2>1. csock' \in [Conns -> {"open", "closed"}] /\ toClient' \in [Conns -> Seq(Parts)]
    BY <1>1, <1>4 DEF TypeInv
  <2>2. CASE /\ Finish(k, [of |-> p.of, result |-> IF p.length THEN "whole" ELSE "bare"])
             /\ Go(k, "release")
    BY <1>2, <1>4, <2>1, <2>2 DEF TypeInv, Finish, Go, Outcomes
  <2>3. CASE Go(k, "body") /\ outcome' = outcome /\ pc[k] = "recv"
    BY <1>2, <1>4, <2>1, <2>3 DEF TypeInv, Go
  <2>4. CASE pc' = pc /\ outcome' = outcome /\ pc[k] = "recv"
    BY <1>2, <1>4, <2>1, <2>4 DEF TypeInv
  <2> QED
    BY <1>3, <1>4, <2>2, <2>3, <2>4 DEF ReadBy
<1> QED
  BY <1>3, <1>4 DEF ReadBy

LEMMA TypeStep == BaseInv /\ [Next]_vars => (TypeInv /\ PlaceInv)'
<1> SUFFICES ASSUME BaseInv, [Next]_vars
             PROVE  (TypeInv /\ PlaceInv)'
  OBVIOUS
<1>0. TypeInv /\ PlaceInv
  BY DEF BaseInv
<1> USE DEF Go, To, Finish, poolVars, wireVars, sessionVars, clientVars
<1>a. 0 \notin Conns /\ Conns \subseteq Nat /\ None \notin Requests
  BY ConnsFinite, NoneIsNoRequest
<1>1. ASSUME NEW k \in Clients, NEW close \in plan.closes, NEW body \in plan.bodies,
             GetConnection(k, close, body)
      PROVE  (TypeInv /\ PlaceInv)'
  <2>0. close \in BOOLEAN /\ body \in BOOLEAN
    BY <1>0, ExchangeAssumption DEF TypeInv, PlanType
  <2>1. GetConnection(k, close, body) /\ request'[k] \in Requests
    BY <1>1, <2>0, GetCases
  <2>2. /\ asked' = asked + 1 /\ faults' \subseteq faults \cup {"end"}
        /\ Finish(k, [of |-> None, result |-> "none"])
        /\ UNCHANGED <<plan, used, csock, wireVars, sessionVars, rx, stray>>
    BY <1>1 DEF GetConnection
  <2>3. /\ pc[k] = "idle" /\ held[k] = 0 /\ total' = total
        /\ request' = [request EXCEPT ![k] = [nr |-> asked + 1, close |-> close, body |-> body]]
        /\ \/ /\ conns' = conns /\ held' = held /\ pc' = [pc EXCEPT ![k] = "connect"]
           \/ /\ conns[1] \in Conns /\ conns' \in Seq(Conns)
              /\ held' = [held EXCEPT ![k] = conns[1]] /\ pc' = [pc EXCEPT ![k] = "send"]
    BY <1>1, <2>0, GetCases
  <2>4. outcome' \in [Clients -> Outcomes]
    BY <1>0, <2>2 DEF TypeInv, Outcomes
  <2>5. request' \in [Clients -> Requests \cup {None}]
    BY <1>0, <2>1, <2>3 DEF TypeInv
  <2>6. TypeInv'
    <3>1. /\ conns' \in Seq(Conns) /\ held' \in [Clients -> Conns \cup {0}]
          /\ pc' \in [Clients -> {"idle", "connect", "send", "recv", "body", "release"}]
      BY <1>0, <2>3 DEF TypeInv
    <3>2. asked' \in Nat /\ total' \in Int /\ faults' \subseteq {"end", "cut", "stray"}
      BY <1>0, <2>2, <2>3 DEF TypeInv
    <3> QED
      BY <1>0, <2>2, <2>4, <2>5, <3>1, <3>2 DEF TypeInv
  <2>7. PlaceInv'
    BY <1>0, <1>a, <2>1, <2>2, <2>3 DEF TypeInv, PlaceInv, HasConnection
  <2> QED
    BY <2>6, <2>7
<1>2. ASSUME NEW k \in Clients, Connect(k)
      PROVE  (TypeInv /\ PlaceInv)'
  <2>1. CASE \E c \in Conns :
               /\ csock' = [csock EXCEPT ![c] = "open"] /\ held' = [held EXCEPT ![k] = c]
               /\ session' = [session EXCEPT ![c] = "recv"] /\ total' = total + 1
               /\ stray' = stray \ {c} /\ Go(k, "send") /\ UNCHANGED <<outcome, faults>>
    <3>1. TypeInv'
      BY <1>0, <1>2, <2>1 DEF Connect, TypeInv
    <3>2. PlaceInv'
      BY <1>0, <1>2, <1>a, <2>1 DEF Connect, TypeInv, PlaceInv, HasConnection
    <3> QED
      BY <3>1, <3>2
  <2>2. CASE Finish(k, Failed) /\ faults' = faults \cup {"end"} /\ Go(k, "idle")
             /\ UNCHANGED <<csock, held, session, total, stray>>
    BY <1>0, <1>2, <2>2 DEF Connect, TypeInv, PlaceInv, HasConnection, Failed, Outcomes
  <2> QED
    BY <1>2, <2>1, <2>2 DEF Connect
<1>3. ASSUME NEW k \in Clients, Send(k)
      PROVE  (TypeInv /\ PlaceInv)'
  <2>1. held[k] \in Conns /\ request[k] \in Requests /\ request[k].body \in BOOLEAN
    BY <1>0, <1>3 DEF Send, TypeInv, PlaceInv, HasConnection, Requests
  <2>2. toServer[held[k]] \o Message(request[k], request[k].body) \in Seq(Parts)
    BY <1>0, <2>1, MessageType DEF TypeInv
  <2>3. CASE /\ toServer' = [toServer EXCEPT ![held[k]] = IF session[held[k]] = "closed" THEN @
                                   ELSE @ \o Message(request[k], request[k].body)]
             /\ Go(k, "recv") /\ UNCHANGED outcome
    BY <1>0, <1>3, <2>1, <2>2, <2>3 DEF Send, TypeInv, PlaceInv, HasConnection
  <2>4. CASE Finish(k, Failed) /\ Go(k, "release") /\ UNCHANGED toServer
    BY <1>0, <1>3, <2>1, <2>4 DEF Send, TypeInv, PlaceInv, HasConnection, Failed, Outcomes
  <2> QED
    BY <1>3, <2>3, <2>4 DEF Send
<1>4. ASSUME NEW k \in Clients, Recv(k)
      PROVE  (TypeInv /\ PlaceInv)'
  <2>1. PICK n \in Nat, p \in ParserStates : ReadBy(k, held[k], n, p)
    BY <1>0, <1>4, RecvCases
  <2>2. /\ held[k] \in Conns /\ pc[k] \in Waits
        /\ UNCHANGED <<plan, poolVars, toServer, sessionVars, held, asked, request, stray>>
    BY <1>0, <1>4, RecvCases
  <2>3. /\ csock' \in [Conns -> {"open", "closed"}] /\ toClient' \in [Conns -> Seq(Parts)]
        /\ outcome' \in [Clients -> Outcomes] /\ rx' \in [Clients -> ParserStates]
        /\ pc' \in {[pc EXCEPT ![k] = "release"], [pc EXCEPT ![k] = "body"], pc}
        /\ faults' \subseteq {"end", "cut", "stray"}
        /\ pc'[k] = "body" => rx'[k].of \in Requests
    BY <1>0, <2>1, <2>2, ReadType
  <2>4. \A l \in Clients \ {k} : rx'[l] = rx[l]
    BY <1>0, <2>1 DEF ReadBy, TypeInv
  <2>5. TypeInv'
    BY <1>0, <2>2, <2>3 DEF TypeInv
  <2>6. PlaceInv'
    <3>1. ASSUME NEW l \in Clients
          PROVE  (/\ held[l] # 0 <=> pc[l] \in HasConnection
                  /\ pc[l] # "idle" => request[l] \in Requests
                  /\ pc[l] \in {"idle", "connect", "send"} => rx[l] = Fresh
                  /\ pc[l] = "body" => rx[l].of \in Requests)'
      <4>1. CASE l = k
        BY <1>0, <1>a, <2>2, <2>3, <4>1 DEF TypeInv, PlaceInv, HasConnection, Waits
      <4>2. CASE l # k
        <5>1. pc'[l] = pc[l]
          BY <1>0, <2>3, <4>2 DEF TypeInv
        <5> QED
          BY <1>0, <2>2, <2>4, <4>2, <5>1 DEF PlaceInv
      <4> QED
        BY <4>1, <4>2
    <3>2. \A c \in Conns : session'[c] \in {"body", "handle"} => srx'[c].of \in Requests
      BY <1>0, <2>2 DEF PlaceInv
    <3> QED
      BY <3>1, <3>2 DEF PlaceInv
  <2> QED
    BY <2>5, <2>6
<1>5. ASSUME NEW k \in Clients, RecvFails(k)
      PROVE  (TypeInv /\ PlaceInv)'
  <2>1. held[k] \in Conns
    BY <1>0, <1>5 DEF RecvFails, PlaceInv, HasConnection, TypeInv
  <2>2. /\ csock' \in [Conns -> {"open", "closed"}] /\ toClient' \in [Conns -> Seq(Parts)]
        /\ outcome' \in [Clients -> Outcomes] /\ pc' = [pc EXCEPT ![k] = "release"]
    BY <1>0, <1>5, <2>1, GiveUpType DEF RecvFails
  <2>3. faults' \subseteq {"end", "cut", "stray"}
    BY <1>0, <1>5 DEF RecvFails, TypeInv
  <2>4. /\ pc[k] \in Waits
        /\ UNCHANGED <<plan, poolVars, toServer, sessionVars, held, asked, request, rx, stray>>
    BY <1>5 DEF RecvFails, Waits
  <2> QED
    BY <1>0, <2>1, <2>2, <2>3, <2>4 DEF TypeInv, PlaceInv, HasConnection, Waits
<1>6. ASSUME NEW k \in Clients, Release(k)
      PROVE  (TypeInv /\ PlaceInv)'
  <2>1. held[k] \in Conns
    BY <1>0, <1>6 DEF Release, PlaceInv, HasConnection, TypeInv
  <2>2. conns' \in Seq(Conns) /\ used' \in [Conns -> Nat] /\ total' \in Int
    <3>1. Append(conns, held[k]) \in Seq(Conns)
      BY <1>0, <2>1 DEF TypeInv
    <3>2. CASE Discard(held[k])
      <4>1. conns' = conns /\ total' = total - 1 /\ used' = [used EXCEPT ![held[k]] = 0]
        BY <1>6, <3>2 DEF Release
      <4> QED
        BY <1>0, <2>1, <4>1 DEF TypeInv
    <3>3. CASE ~Discard(held[k])
      <4>1. conns' \in Seq(Conns) /\ total' = total
        BY <1>6, <3>1, <3>3 DEF Release
      <4>2. used' = [used EXCEPT ![held[k]] = @ + 1]
        BY <1>6, <3>3 DEF Release
      <4> QED
        BY <1>0, <2>1, <4>1, <4>2 DEF TypeInv
    <3> QED
      BY <3>2, <3>3
  <2>3. csock' \in [Conns -> {"open", "closed"}] /\ toClient' \in [Conns -> Seq(Parts)]
    <3>1. CASE Discard(held[k])
      <4>1. /\ csock' = [csock EXCEPT ![held[k]] = "closed"]
            /\ toClient' = [toClient EXCEPT ![held[k]] = <<>>]
        BY <1>6, <3>1 DEF Release
      <4>2. <<>> \in Seq(Parts)
        OBVIOUS
      <4> QED
        BY <1>0, <2>1, <4>1, <4>2 DEF TypeInv
    <3>2. CASE ~Discard(held[k])
      BY <1>0, <1>6, <3>2 DEF Release, TypeInv
    <3> QED
      BY <3>1, <3>2
  <2>4. /\ held' = [held EXCEPT ![k] = 0] /\ rx' = [rx EXCEPT ![k] = Fresh]
        /\ pc' = [pc EXCEPT ![k] = "idle"] /\ pc[k] = "release"
        /\ UNCHANGED <<plan, toServer, sessionVars, asked, request, outcome, faults, stray>>
    BY <1>6 DEF Release
  <2> QED
    BY <1>0, <2>2, <2>3, <2>4, FreshType DEF TypeInv, PlaceInv, HasConnection
<1>7. ASSUME NEW c \in Conns, ServerRecv(c)
      PROVE  (TypeInv /\ PlaceInv)'
  <2>1. PICK n \in Nat, p \in ParserStates : ServedBy(c, n, p)
    BY <1>0, <1>7, ServerRecvCases
  <2>2. UNCHANGED <<plan, poolVars, toClient, clientVars, csock, stray>>
    BY <1>0, <1>7, ServerRecvCases
  <2>3. faults' \subseteq {"end", "cut", "stray"}
    BY <1>0, <2>1 DEF ServedBy, TypeInv
  <2>4. SubSeq(toServer[c], n + 1, Len(toServer[c])) \in Seq(Parts)
    BY <1>0, <2>1, SplitType DEF ServedBy, TypeInv
  <2>5. CASE Hangup(c)
    BY <1>0, <2>2, <2>3, <2>5, FreshType DEF Hangup, TypeInv, PlaceInv
  <2>6. CASE ~Hangup(c)
    <3>1. PICK l \in {"recv", "body", "handle"} : session' = [session EXCEPT ![c] = l]
      BY <2>1, <2>6 DEF ServedBy
    <3>2. /\ p.of \in Requests /\ srx' = [srx EXCEPT ![c] = p]
          /\ toServer' = [toServer EXCEPT ![c] = SubSeq(@, n + 1, Len(@))]
      BY <2>1, <2>6 DEF ServedBy
    <3>3. toServer' \in [Conns -> Seq(Parts)]
      BY <1>0, <2>4, <3>2 DEF TypeInv
    <3> QED
      BY <1>0, <2>2, <2>3, <3>1, <3>2, <3>3 DEF TypeInv, PlaceInv
  <2> QED
    BY <2>5, <2>6
<1>8. ASSUME NEW c \in Conns, ServerRecvFails(c) \/ CloseSession(c)
      PROVE  (TypeInv /\ PlaceInv)'
  <2>1. faults' \subseteq {"end", "cut", "stray"} /\ Hangup(c)
        /\ UNCHANGED <<plan, poolVars, toClient, clientVars, csock, stray>>
    BY <1>0, <1>8 DEF ServerRecvFails, CloseSession, TypeInv
  <2> QED
    BY <1>0, <2>1, FreshType DEF Hangup, TypeInv, PlaceInv
<1>9. ASSUME NEW c \in Conns, Respond(c)
      PROVE  (TypeInv /\ PlaceInv)'
  <2>1. toClient[c] \o Message(srx[c].of, TRUE) \in Seq(Parts)
    <3>1. srx[c].of \in Requests /\ toClient[c] \in Seq(Parts)
      BY <1>0, <1>9 DEF Respond, TypeInv, PlaceInv
    <3>2. Message(srx[c].of, TRUE) \in Seq(Parts)
      BY <3>1, MessageType
    <3> QED
      BY <3>1, <3>2, ConcatProperties
  <2>2. toClient' \in [Conns -> Seq(Parts)]
    BY <1>0, <1>9, <2>1 DEF Respond, TypeInv
  <2>3. PICK l \in {"last", "recv"} : session' = [session EXCEPT ![c] = l]
    BY <1>9 DEF Respond
  <2>4. srx' = [srx EXCEPT ![c] = Fresh]
        /\ UNCHANGED <<plan, poolVars, toServer, clientVars, csock, faults, stray>>
    BY <1>9 DEF Respond
  <2> QED
    BY <1>0, <2>2, <2>3, <2>4, FreshType DEF TypeInv, PlaceInv
<1>10. CASE UNCHANGED vars
  BY <1>0, <1>10 DEF vars, TypeInv, PlaceInv
<1>11. ASSUME NEW k \in Clients, RecvStray(k)
       PROVE  (TypeInv /\ PlaceInv)'
  <2> DEFINE c == held[k]
  <2>1. /\ c \in Conns /\ pc[k] \in Waits
        /\ UNCHANGED <<plan, poolVars, toServer, sessionVars, held, asked, request>>
        /\ stray' = stray \cup {c} /\ faults' = faults \cup {"stray"}
    BY <1>0, <1>11, StrayCases
  <2>2. PICK p \in ParserStates : rx' = [rx EXCEPT ![k] = p] /\ p.of \in Requests
    BY <1>0, <1>11, StrayCases
  <2>3. /\ csock' \in [Conns -> {"open", "closed"}] /\ toClient' \in [Conns -> Seq(Parts)]
        /\ outcome' \in [Clients -> Outcomes]
        /\ \E l \in {"recv", "body", "release"} : pc' = [pc EXCEPT ![k] = l]
    <3>1. CASE GiveUp(k)
      BY <1>0, <2>1, <3>1, GiveUpType
    <3>2. CASE ~GiveUp(k)
      <4>1. /\ csock' = csock
            /\ \E n \in 1 .. Len(toClient[c]) :
                 toClient' = [toClient EXCEPT ![c] = SubSeq(@, n + 1, Len(@))]
            /\ \/ \E r \in Requests : Finish(k, [of |-> r, result |-> "stray"]) /\ Go(k, "release")
               \/ \E l \in Waits : Go(k, l) /\ outcome' = outcome
        BY <1>0, <1>11, <3>2, StrayCases
      <4>2. PICK n \in 1 .. Len(toClient[c]) :
              toClient' = [toClient EXCEPT ![c] = SubSeq(@, n + 1, Len(@))]
        BY <4>1
      <4>3. SubSeq(toClient[c], n + 1, Len(toClient[c])) \in Seq(Parts)
        BY <1>0, <2>1, SplitType DEF TypeInv
      <4>4. csock' \in [Conns -> {"open", "closed"}] /\ toClient' \in [Conns -> Seq(Parts)]
        BY <1>0, <2>1, <4>1, <4>2, <4>3 DEF TypeInv
      <4>5. CASE \E r \in Requests : Finish(k, [of |-> r, result |-> "stray"]) /\ Go(k, "release")
        BY <1>0, <4>4, <4>5 DEF TypeInv, Outcomes
      <4>6. CASE \E l \in Waits : Go(k, l) /\ outcome' = outcome
        BY <1>0, <4>4, <4>6 DEF TypeInv, Waits
      <4> QED
        BY <4>1, <4>5, <4>6
    <3> QED
      BY <3>1, <3>2
  <2>4. TypeInv'
    <3>1. rx' \in [Clients -> ParserStates] /\ stray' \subseteq Conns
      BY <1>0, <2>1, <2>2 DEF TypeInv
    <3>2. pc' \in [Clients -> {"idle", "connect", "send", "recv", "body", "release"}]
      BY <1>0, <2>3 DEF TypeInv
    <3>3. faults' \subseteq {"end", "cut", "stray"}
      BY <1>0, <2>1 DEF TypeInv
    <3> QED
      BY <1>0, <2>1, <2>3, <3>1, <3>2, <3>3 DEF TypeInv
  <2>5. PlaceInv'
    <3>1. PICK l \in {"recv", "body", "release"} : pc' = [pc EXCEPT ![k] = l]
      BY <2>3
    <3> QED
      BY <1>0, <2>1, <2>2, <3>1 DEF TypeInv, PlaceInv, HasConnection, Waits
  <2> QED
    BY <2>4, <2>5
<1>12. ASSUME NEW c \in Conns, ServerRecvStray(c)
       PROVE  (TypeInv /\ PlaceInv)'
  <2>1. /\ UNCHANGED <<plan, poolVars, toClient, clientVars, csock>>
        /\ stray' = stray \cup {c} /\ faults' = faults \cup {"stray"}
    BY <1>0, <1>12, ServerStrayCases
  <2>2. stray' \subseteq Conns /\ faults' \subseteq {"end", "cut", "stray"}
    BY <1>0, <2>1 DEF TypeInv
  <2>3. CASE Hangup(c)
    BY <1>0, <2>1, <2>2, <2>3, FreshType DEF Hangup, TypeInv, PlaceInv
  <2>4. CASE ~Hangup(c)
    <3>1. PICK n \in 1 .. Len(toServer[c]), p \in ParserStates, l \in {"recv", "body", "handle"} :
            /\ p.of \in Requests /\ srx' = [srx EXCEPT ![c] = p]
            /\ toServer' = [toServer EXCEPT ![c] = SubSeq(@, n + 1, Len(@))]
            /\ session' = [session EXCEPT ![c] = l]
      BY <1>0, <1>12, <2>4, ServerStrayCases
    <3>2. SubSeq(toServer[c], n + 1, Len(toServer[c])) \in Seq(Parts)
      BY <1>0, SplitType DEF TypeInv
    <3>3. toServer' \in [Conns -> Seq(Parts)]
      BY <1>0, <3>1, <3>2 DEF TypeInv
    <3> QED
      BY <1>0, <2>1, <2>2, <3>1, <3>3 DEF TypeInv, PlaceInv
  <2> QED
    BY <2>3, <2>4
<1> QED
  BY <1>1, <1>2, <1>3, <1>4, <1>5, <1>6, <1>7, <1>8, <1>9, <1>10, <1>11, <1>12
     DEF Next, ClientStep, SessionStep

-----------------------------------------------------------------------------
(* Connections and their owners.                                           *)

LEMMA OwnedFinite == IsFiniteSet(Owned) /\ Cardinality(Owned) \in Nat
BY ConnsFinite, FS_Subset, FS_CardinalityType DEF Owned

\* A step of the pool leaves the owners in order if a client takes the first
\* connection of the pool ...
LEMMA OwnerGet ==
  ASSUME BaseInv, NEW k \in Clients, NEW close \in BOOLEAN, NEW body \in BOOLEAN,
         GetConnection(k, close, body)
  PROVE  OwnerInv'
<1> USE DEF BaseInv, OwnerInv
<1>0. csock' = csock /\ 0 \notin Conns /\ conns \in Seq(Conns) /\ held \in [Clients -> Conns \cup {0}]
  BY ConnsFinite DEF GetConnection, TypeInv
<1>1. pc[k] = "idle" /\ held[k] = 0 /\ total' = total
  BY GetCases
<1>2. CASE conns' = conns /\ held' = held /\ Go(k, "connect")
  <2>1. Owned' = Owned
    BY <1>2 DEF Owned
  <2>2. OneHolder' /\ OneEntry' /\ HeldOrKept' /\ KeptAreOpen'
    BY <1>0, <1>2 DEF OneHolder, OneEntry, HeldOrKept, KeptAreOpen
  <2>3. OpenAreOwned' /\ UsedAreOpen'
    BY <1>0, <1>2, <2>1 DEF OpenAreOwned, UsedAreOpen, Go, TypeInv
  <2> QED
    BY <1>1, <2>1, <2>2, <2>3
<1>3. CASE /\ conns # <<>> /\ conns[1] \in Conns
           /\ conns' \in Seq(Conns) /\ Len(conns') = Len(conns) - 1
           /\ \A i \in 1 .. Len(conns) - 1 : conns'[i] = conns[i + 1]
           /\ held' = [held EXCEPT ![k] = conns[1]] /\ Go(k, "send")
  <2>0. Len(conns) \in Nat \ {0} /\ 1 \in 1 .. Len(conns)
    BY <1>0, <1>3
  <2>1. \A i \in 1 .. Len(conns') : /\ i + 1 \in 1 .. Len(conns) /\ conns'[i] = conns[i + 1]
                                    /\ i + 1 # 1
    BY <1>3, <2>0
  <2>2. held'[k] = conns[1] /\ \A l \in Clients \ {k} : held'[l] = held[l]
    BY <1>0, <1>3
  <2>3. Owned' = Owned
    <3>1. \A c \in Owned : c \in Owned'
      <4> SUFFICES ASSUME NEW c \in Owned PROVE c \in Owned'
        OBVIOUS
      <4>0. c \in Conns
        BY DEF Owned
      <4>1. CASE \E l \in Clients : held[l] = c
        BY <1>0, <1>1, <2>2, <4>0, <4>1 DEF Owned
      <4>2. ASSUME NEW i \in 1 .. Len(conns), conns[i] = c
            PROVE  c \in Owned'
        <5>1. CASE i = 1
          BY <2>2, <4>0, <4>2, <5>1 DEF Owned
        <5>2. CASE i # 1
          <6>1. i - 1 \in 1 .. Len(conns) - 1 /\ (i - 1) + 1 = i
            BY <2>0, <4>2, <5>2
          <6>2. i - 1 \in 1 .. Len(conns') /\ conns'[i - 1] = c
            BY <1>3, <4>2, <6>1
          <6> QED
            BY <4>0, <6>2 DEF Owned
        <5> QED
          BY <5>1, <5>2
      <4> QED
        BY <4>1, <4>2 DEF Owned
    <3>2. \A c \in Owned' : c \in Owned
      BY <2>0, <2>1, <2>2 DEF Owned
    <3> QED
      BY <3>1, <3>2
  <2>4. OneHolder'
    <3>1. \A l \in Clients : held[l] # conns[1]
      BY <2>0 DEF HeldOrKept
    <3> QED
      BY <2>2, <3>1 DEF OneHolder
  <2>5. OneEntry'
    <3> SUFFICES ASSUME NEW i \in 1 .. Len(conns'), NEW j \in 1 .. Len(conns'),
                        conns'[i] = conns'[j]
                 PROVE  i = j
      BY DEF OneEntry
    <3>1. i + 1 = j + 1
      BY <2>1 DEF OneEntry
    <3> QED
      BY <1>3, <3>1
  <2>6. HeldOrKept'
    <3> SUFFICES ASSUME NEW l \in Clients, NEW i \in 1 .. Len(conns'), held'[l] = conns'[i]
                 PROVE  FALSE
      BY DEF HeldOrKept
    <3>0. i + 1 \in 1 .. Len(conns) /\ conns'[i] = conns[i + 1] /\ i + 1 # 1
      BY <2>1
    <3>1. CASE l = k
      BY <2>0, <2>2, <3>0, <3>1 DEF OneEntry
    <3>2. CASE l # k
      BY <2>2, <3>0, <3>2 DEF HeldOrKept
    <3> QED
      BY <3>1, <3>2
  <2>7. KeptAreOpen'
    BY <1>0, <2>1 DEF KeptAreOpen
  <2>8. UsedAreOpen'
    <3>1. csock[conns[1]] = "open"
      BY <2>0 DEF KeptAreOpen
    <3> QED
      BY <1>0, <1>3, <2>2, <3>1 DEF UsedAreOpen, Go, TypeInv
  <2>9. OpenAreOwned'
    BY <1>0, <2>3 DEF OpenAreOwned
  <2> QED
    BY <1>1, <2>3, <2>4, <2>5, <2>6, <2>7, <2>8, <2>9
<1> QED
  BY <1>2, <1>3, GetCases

\* ... connects a new one ...
LEMMA OwnerConnect ==
  ASSUME BaseInv, NEW k \in Clients, Connect(k)
  PROVE  OwnerInv'
<1> USE DEF BaseInv, OwnerInv
<1>0. /\ 0 \notin Conns /\ pc[k] = "connect" /\ held[k] = 0 /\ conns' = conns
      /\ conns \in Seq(Conns) /\ held \in [Clients -> Conns \cup {0}]
  BY ConnsFinite DEF Connect, PlaceInv, HasConnection, TypeInv
<1>1. ASSUME NEW c \in Conns, Free(c), csock' = [csock EXCEPT ![c] = "open"],
             held' = [held EXCEPT ![k] = c], total' = total + 1, Go(k, "send")
      PROVE  OwnerInv'
  <2>0. csock[c] = "closed" /\ \A l \in Clients : held[l] # c
    BY <1>1 DEF Free
  <2>1. \A i \in 1 .. Len(conns) : conns[i] # c
    BY <2>0 DEF KeptAreOpen
  <2>2. Owned' = Owned \cup {c} /\ c \notin Owned
    BY <1>0, <1>1, <2>0, <2>1 DEF Owned
  <2>3. total' = Cardinality(Owned')
    BY <1>1, <2>2, OwnedFinite, FS_AddElement
  <2>4. OneHolder' /\ OneEntry'
    BY <1>0, <1>1, <2>0 DEF OneHolder, OneEntry
  <2>5. HeldOrKept'
    BY <1>0, <1>1, <2>1 DEF HeldOrKept
  <2>6. KeptAreOpen' /\ OpenAreOwned'
    <3>1. \A d \in Conns : csock'[d] = IF d = c THEN "open" ELSE csock[d]
      BY <1>1 DEF TypeInv
    <3>2. KeptAreOpen'
      BY <1>0, <3>1 DEF KeptAreOpen
    <3> QED
      BY <2>2, <3>1, <3>2 DEF OpenAreOwned
  <2>7. UsedAreOpen'
    <3> SUFFICES ASSUME NEW l \in Clients, pc'[l] \in {"send", "recv", "body"}
                 PROVE  csock'[held'[l]] = "open"
      BY DEF UsedAreOpen
    <3>1. CASE l = k
      BY <1>0, <1>1, <3>1 DEF TypeInv
    <3>2. CASE l # k
      BY <1>0, <1>1, <3>2 DEF UsedAreOpen, Go, TypeInv, PlaceInv, HasConnection
    <3> QED
      BY <3>1, <3>2
  <2> QED
    BY <2>3, <2>4, <2>5, <2>6, <2>7
<1>2. CASE Go(k, "idle") /\ UNCHANGED <<csock, held, session, total>>
  <2>1. Owned' = Owned
    BY <1>0, <1>2 DEF Owned
  <2>2. OneHolder' /\ OneEntry' /\ HeldOrKept' /\ KeptAreOpen'
    BY <1>0, <1>2 DEF OneHolder, OneEntry, HeldOrKept, KeptAreOpen
  <2>3. OpenAreOwned' /\ UsedAreOpen'
    BY <1>0, <1>2, <2>1 DEF OpenAreOwned, UsedAreOpen, Go, TypeInv
  <2> QED
    BY <1>2, <2>1, <2>2, <2>3
<1> QED
  BY <1>1, <1>2 DEF Connect

\* ... sends, receives or gives up ...
LEMMA OwnerUse ==
  ASSUME BaseInv, NEW k \in Clients, held[k] \in Conns, UNCHANGED <<conns, held, total>>,
         \/ csock' = csock
         \/ csock' = [csock EXCEPT ![held[k]] = "closed"] /\ Go(k, "release"),
         pc[k] \in {"send", "recv", "body"}, \A l \in Clients \ {k} : pc'[l] = pc[l]
  PROVE  OwnerInv'
<1> USE DEF BaseInv, OwnerInv
<1>1. Owned' = Owned /\ 0 \notin Conns
  BY ConnsFinite DEF Owned
<1>2. OneHolder' /\ OneEntry' /\ HeldOrKept'
  BY DEF OneHolder, OneEntry, HeldOrKept
<1>3. CASE csock' = csock
  <2>1. KeptAreOpen' /\ OpenAreOwned' /\ UsedAreOpen'
    BY <1>1, <1>3 DEF KeptAreOpen, OpenAreOwned, UsedAreOpen
  <2> QED
    BY <1>1, <1>2, <2>1
<1>4. CASE csock' = [csock EXCEPT ![held[k]] = "closed"] /\ Go(k, "release")
  <2>1. KeptAreOpen'
    <3>1. \A d \in Conns \ {held[k]} : csock'[d] = csock[d]
      BY <1>4 DEF TypeInv
    <3>2. ASSUME NEW i \in 1 .. Len(conns)
          PROVE  conns[i] \in Conns \ {held[k]}
      <4>1. conns[i] \in Conns
        BY DEF TypeInv
      <4>2. conns[i] # held[k]
        BY DEF HeldOrKept
      <4> QED
        BY <4>1, <4>2
    <3>3. conns' = conns
      OBVIOUS
    <3> QED
      BY <1>4, <3>1, <3>2, <3>3 DEF KeptAreOpen
  <2>2. OpenAreOwned'
    BY <1>1, <1>4 DEF OpenAreOwned, TypeInv
  <2>3. UsedAreOpen'
    <3> SUFFICES ASSUME NEW l \in Clients, pc'[l] \in {"send", "recv", "body"}
                 PROVE  csock'[held'[l]] = "open"
      BY DEF UsedAreOpen
    <3>1. l # k /\ pc'[l] = pc[l]
      BY <1>4 DEF Go, TypeInv
    <3>2. held[l] \in Conns /\ held[l] # held[k]
      BY <1>1, <3>1 DEF PlaceInv, OneHolder, HasConnection, TypeInv
    <3> QED
      BY <1>4, <3>1, <3>2 DEF UsedAreOpen, TypeInv
  <2> QED
    BY <1>1, <1>2, <2>1, <2>2, <2>3
<1> QED
  BY <1>3, <1>4

\* ... and gives a connection back or closes it.
LEMMA OwnerRelease ==
  ASSUME BaseInv, NEW k \in Clients, Release(k)
  PROVE  OwnerInv'
<1> USE DEF BaseInv, OwnerInv
<1> DEFINE c == held[k]
<1>0. /\ 0 \notin Conns /\ c \in Conns /\ pc[k] = "release"
      /\ held' = [held EXCEPT ![k] = 0] /\ pc' = [pc EXCEPT ![k] = "idle"]
      /\ conns \in Seq(Conns) /\ held \in [Clients -> Conns \cup {0}]
      /\ csock \in [Conns -> {"open", "closed"}]
  BY ConnsFinite DEF Release, PlaceInv, HasConnection, Go, TypeInv
<1>1. \A l \in Clients \ {k} : held'[l] = held[l] /\ held[l] # c /\ pc'[l] = pc[l]
  BY <1>0 DEF OneHolder, TypeInv
<1>2. held'[k] = 0 /\ pc'[k] = "idle"
  BY <1>0 DEF TypeInv
<1>3. \A i \in 1 .. Len(conns) : conns[i] # c /\ conns[i] \in Conns
  BY <1>0 DEF HeldOrKept
<1>4. OneHolder'
  BY <1>0, <1>1, <1>2 DEF OneHolder
<1>5. CASE Discard(c)
  <2>1. csock' = [csock EXCEPT ![c] = "closed"] /\ total' = total - 1 /\ conns' = conns
    BY <1>5 DEF Release
  <2>2. Owned' = Owned \ {c} /\ c \in Owned
    BY <1>0, <1>1, <1>2, <1>3, <2>1 DEF Owned
  <2>3. total' = Cardinality(Owned')
    BY <2>1, <2>2, OwnedFinite, FS_RemoveElement
  <2>4. HeldOrKept'
    BY <1>0, <1>1, <1>2, <1>3, <2>1 DEF HeldOrKept
  <2>5. OneEntry' /\ KeptAreOpen'
    BY <1>0, <1>3, <2>1 DEF OneEntry, KeptAreOpen
  <2>6. OpenAreOwned'
    BY <1>0, <2>1, <2>2 DEF OpenAreOwned
  <2>7. UsedAreOpen'
    <3> SUFFICES ASSUME NEW l \in Clients, pc'[l] \in {"send", "recv", "body"}
                 PROVE  csock'[held'[l]] = "open"
      BY DEF UsedAreOpen
    <3>1. l # k
      BY <1>2
    <3>2. held[l] \in Conns
      BY <1>0, <1>1, <3>1 DEF PlaceInv, HasConnection
    <3> QED
      BY <1>0, <1>1, <2>1, <3>1, <3>2 DEF UsedAreOpen
  <2> QED
    BY <1>4, <2>3, <2>4, <2>5, <2>6, <2>7
<1>6. CASE ~Discard(c)
  <2>1. conns' = Append(conns, c) /\ csock' = csock /\ total' = total /\ csock[c] = "open"
    BY <1>6 DEF Release, Discard, Usable
  <2>2. /\ Len(conns') = Len(conns) + 1 /\ conns'[Len(conns) + 1] = c
        /\ \A i \in 1 .. Len(conns) : conns'[i] = conns[i]
    BY <1>0, <2>1, AppendProperties
  <2>3. Len(conns) \in Nat
    BY <1>0
  <2>4. /\ \A i \in 1 .. Len(conns') : i \in 1 .. Len(conns) \/ i = Len(conns) + 1
        /\ \A i \in 1 .. Len(conns) : i \in 1 .. Len(conns')
        /\ Len(conns) + 1 \in 1 .. Len(conns')
    BY <2>2, <2>3
  <2>5. Owned' = Owned
    <3>1. \A d \in Owned' : d \in Owned
      <4> SUFFICES ASSUME NEW d \in Owned' PROVE d \in Owned
        OBVIOUS
      <4>1. CASE \E l \in Clients : held'[l] = d
        BY <1>0, <1>1, <1>2, <4>1 DEF Owned
      <4>2. ASSUME NEW i \in 1 .. Len(conns'), conns'[i] = d
            PROVE  d \in Owned
        BY <1>0, <2>2, <2>4, <4>2 DEF Owned
      <4> QED
        BY <4>1, <4>2 DEF Owned
    <3>2. \A d \in Owned : d \in Owned'
      <4> SUFFICES ASSUME NEW d \in Owned PROVE d \in Owned'
        OBVIOUS
      <4>0. d \in Conns
        BY DEF Owned
      <4>1. CASE d = c
        BY <2>2, <2>4, <4>0, <4>1 DEF Owned
      <4>2. CASE d # c
        BY <1>1, <2>2, <2>4, <4>0, <4>2 DEF Owned
      <4> QED
        BY <4>1, <4>2
    <3> QED
      BY <3>1, <3>2
  <2>6. OneEntry'
    BY <1>3, <2>2, <2>4 DEF OneEntry
  <2>7. HeldOrKept'
    <3> SUFFICES ASSUME NEW l \in Clients, NEW i \in 1 .. Len(conns'), held'[l] = conns'[i]
                 PROVE  FALSE
      BY DEF HeldOrKept
    <3>1. held'[l] # c /\ (held'[l] = 0 \/ held'[l] = held[l])
      BY <1>0, <1>1, <1>2
    <3> QED
      BY <1>0, <1>3, <2>2, <2>4, <3>1 DEF HeldOrKept
  <2>8. KeptAreOpen'
    BY <2>1, <2>2, <2>4 DEF KeptAreOpen
  <2>9. OpenAreOwned'
    BY <2>1, <2>5 DEF OpenAreOwned
  <2>10. UsedAreOpen'
    BY <1>1, <1>2, <2>1 DEF UsedAreOpen
  <2> QED
    BY <1>4, <2>1, <2>5, <2>6, <2>7, <2>8, <2>9, <2>10
<1> QED
  BY <1>5, <1>6

LEMMA OwnerFrame ==
  ASSUME OwnerInv, UNCHANGED <<conns, held, csock, total, pc>>
  PROVE  OwnerInv'
BY DEF OwnerInv, Owned, OneHolder, OneEntry, HeldOrKept, KeptAreOpen, OpenAreOwned, UsedAreOpen

LEMMA BaseStep == BaseInv /\ [Next]_vars => BaseInv'
<1> SUFFICES ASSUME BaseInv, [Next]_vars
             PROVE  OwnerInv'
  BY TypeStep DEF BaseInv
<1> USE DEF BaseInv
<1>1. ASSUME NEW k \in Clients, NEW close \in plan.closes, NEW body \in plan.bodies,
             GetConnection(k, close, body)
      PROVE  OwnerInv'
  <2>1. close \in BOOLEAN /\ body \in BOOLEAN
    BY ExchangeAssumption DEF TypeInv, PlanType
  <2> QED
    BY <1>1, <2>1, OwnerGet
<1>2. ASSUME NEW k \in Clients, Send(k)
      PROVE  OwnerInv'
  <2>1. held[k] \in Conns /\ pc[k] = "send"
    BY <1>2 DEF Send, TypeInv, PlaceInv, HasConnection
  <2>2. \A l \in Clients \ {k} : pc'[l] = pc[l]
    <3>1. pc' = [pc EXCEPT ![k] = "recv"] \/ pc' = [pc EXCEPT ![k] = "release"]
      BY <1>2, Zenon DEF Send, Go
    <3> QED
      BY <3>1 DEF TypeInv
  <2> QED
    BY <1>2, <2>1, <2>2, OwnerUse DEF Send, poolVars
<1>3. ASSUME NEW k \in Clients, Recv(k)
      PROVE  OwnerInv'
  <2>1. PICK n \in Nat, p \in ParserStates : ReadBy(k, held[k], n, p)
    BY <1>3, RecvCases
  <2>2. /\ held[k] \in Conns /\ pc[k] \in {"recv", "body"}
        /\ UNCHANGED <<conns, held, total>>
    BY <1>3, RecvCases DEF Waits, poolVars
  <2>3. \/ csock' = csock
        \/ csock' = [csock EXCEPT ![held[k]] = "closed"] /\ Go(k, "release")
    BY <2>1 DEF ReadBy, GiveUp
  <2>4. \A l \in Clients \ {k} : pc'[l] = pc[l]
    BY <2>1 DEF ReadBy, GiveUp, Go, TypeInv
  <2> QED
    BY <2>2, <2>3, <2>4, OwnerUse
<1>4. ASSUME NEW k \in Clients, RecvFails(k)
      PROVE  OwnerInv'
  <2>1. held[k] \in Conns /\ pc[k] \in {"recv", "body"}
    BY <1>4 DEF RecvFails, TypeInv, PlaceInv, HasConnection
  <2>2. \A l \in Clients \ {k} : pc'[l] = pc[l]
    BY <1>4 DEF RecvFails, GiveUp, Go, TypeInv
  <2> QED
    BY <1>4, <2>1, <2>2, OwnerUse DEF RecvFails, GiveUp, poolVars
<1>5. ASSUME NEW c \in Conns, SessionStep(c) \/ Respond(c)
      PROVE  OwnerInv'
  <2>1. UNCHANGED <<poolVars, clientVars, csock>>
    BY <1>5, ServerRecvCases, ServerStrayCases
       DEF SessionStep, ServerRecvFails, CloseSession, Respond
  <2> QED
    BY <2>1, OwnerFrame DEF poolVars, clientVars
<1>6. CASE UNCHANGED vars
  BY <1>6, OwnerFrame DEF vars, poolVars, clientVars
<1>7. ASSUME NEW k \in Clients, RecvStray(k)
      PROVE  OwnerInv'
  <2>1. /\ held[k] \in Conns /\ pc[k] \in {"recv", "body"}
        /\ UNCHANGED <<conns, held, total>>
    BY <1>7, StrayCases DEF Waits, poolVars
  <2>2. /\ \/ csock' = csock
           \/ csock' = [csock EXCEPT ![held[k]] = "closed"] /\ Go(k, "release")
        /\ \E l \in {"recv", "body", "release"} : Go(k, l)
    BY <1>7, StrayCases DEF GiveUp, Waits
  <2>3. \A l \in Clients \ {k} : pc'[l] = pc[l]
    BY <2>2 DEF Go, TypeInv
  <2> QED
    BY <2>1, <2>2, <2>3, OwnerUse
<1> QED
  BY <1>1, <1>2, <1>3, <1>4, <1>5, <1>6, <1>7, OwnerConnect, OwnerRelease DEF Next, ClientStep

LEMMA BaseInit == Init => BaseInv
<1> SUFFICES ASSUME Init PROVE OwnerInv
  BY TypeInit DEF BaseInv
<1>1. Owned = {}
  BY ConnsFinite DEF Init, Owned
<1> QED
  BY <1>1, FS_EmptySet DEF Init, OwnerInv, OneHolder, OneEntry, HeldOrKept, KeptAreOpen,
     OpenAreOwned, UsedAreOpen

\* Every variable keeps to its type, a connection is with one fiber or in the
\* pool's list and nowhere twice, and a connection that is in use is open.
THEOREM BaseCorrect == Spec => []BaseInv
<1>1. BaseInv /\ [Next]_vars => BaseInv'
  BY BaseStep
<1> QED
  BY <1>1, BaseInit, PTL DEF Spec

\* A connection has one owner, and m_total counts those that have one.
THEOREM TotalCorrect == Spec => []TotalIsExact
<1>1. BaseInv => TotalIsExact
  <2> SUFFICES ASSUME BaseInv PROVE TotalIsExact
    OBVIOUS
  <2> USE DEF BaseInv, TypeInv
  <2>1. total = Cardinality(Owned) /\ 0 \notin Conns
    BY ConnsFinite DEF OwnerInv
  <2>2. ASSUME NEW c \in Conns, csock[c] = "open"
        PROVE  Cardinality({k \in Clients : held[k] = c})
                 + Cardinality({i \in 1 .. Len(conns) : conns[i] = c}) = 1
    <3> DEFINE H == {k \in Clients : held[k] = c}
               I == {i \in 1 .. Len(conns) : conns[i] = c}
    <3>1. CASE \E k \in Clients : held[k] = c
      <4>1. PICK k \in Clients : held[k] = c
        BY <3>1
      <4>2. H = {k} /\ I = {}
        <5>1. \A l \in Clients : held[l] = c => l = k
          BY <2>1, <4>1 DEF OwnerInv, OneHolder
        <5>2. \A i \in 1 .. Len(conns) : conns[i] # c
          BY <4>1 DEF OwnerInv, HeldOrKept
        <5> QED
          BY <4>1, <5>1, <5>2
      <4>3. Cardinality(H) = 1 /\ Cardinality(I) = 0
        BY <4>2, FS_Singleton, FS_EmptySet
      <4> QED
        BY <4>3
    <3>2. CASE \A k \in Clients : held[k] # c
      <4>1. PICK i \in 1 .. Len(conns) : conns[i] = c
        BY <2>2, <3>2 DEF OwnerInv, OpenAreOwned, Owned
      <4>2. H = {} /\ I = {i}
        <5>1. \A j \in 1 .. Len(conns) : conns[j] = c => j = i
          BY <4>1 DEF OwnerInv, OneEntry
        <5>2. I = {i}
          BY <4>1, <5>1
        <5>3. H = {}
          BY <3>2
        <5> QED
          BY <5>2, <5>3
      <4>3. Cardinality(H) = 0 /\ Cardinality(I) = 1
        BY <4>2, FS_Singleton, FS_EmptySet
      <4> QED
        BY <4>3
    <3> QED
      BY <3>1, <3>2
  <2> QED
    BY <2>1, <2>2 DEF TotalIsExact, Owned
<1> QED
  BY <1>1, BaseCorrect, PTL

-----------------------------------------------------------------------------
(* Whose answer: the request of a client is in one place.                  *)

LEMMA BeginsAfterRead ==
  ASSUME NEW s \in Seq(Parts), NEW n \in 1 .. Len(s), NEW r
  PROVE  LET rest == SubSeq(s, n + 1, Len(s)) IN
         /\ NoneBegins(s) => NoneBegins(rest)
         /\ OnlyBegins(s, r) => OnlyBegins(rest, r)
         /\ OnlyBegins(s, r) /\ Begins(s[1]) => s[1].of = r /\ NoneBegins(rest)
<1> DEFINE rest == SubSeq(s, n + 1, Len(s))
<1>1. /\ Len(rest) = Len(s) - n /\ \A i \in 1 .. Len(rest) : rest[i] = s[n + i]
      /\ Len(s) \in Nat /\ n \in Nat \ {0}
  BY SplitType
<1> HIDE DEF rest
<1>2. \A i \in 1 .. Len(rest) : n + i \in 1 .. Len(s) /\ n + i # 1 /\ rest[i] = s[n + i]
  BY <1>1
<1>3. NoneBegins(s) => NoneBegins(rest)
  BY <1>2 DEF NoneBegins
<1>4. ASSUME OnlyBegins(s, r)
      PROVE  OnlyBegins(rest, r)
  <2>1. ASSUME NEW i \in 1 .. Len(rest), Begins(rest[i])
        PROVE  rest[i].of = r /\ \A j \in 1 .. Len(rest) : Begins(rest[j]) => j = i
    <3>1. n + i \in 1 .. Len(s) /\ s[n + i] = rest[i] /\ Begins(s[n + i])
      BY <1>2, <2>1
    <3>2. s[n + i].of = r /\ \A j \in 1 .. Len(s) : Begins(s[j]) => j = n + i
      BY <1>4, <3>1 DEF OnlyBegins
    <3>3. ASSUME NEW j \in 1 .. Len(rest), Begins(rest[j])
          PROVE  j = i
      <4>1. n + j \in 1 .. Len(s) /\ s[n + j] = rest[j]
        BY <1>2
      <4>2. n + j = n + i
        BY <3>2, <3>3, <4>1
      <4> QED
        BY <1>1, <4>2
    <3> QED
      BY <3>1, <3>2, <3>3
  <2> QED
    BY <2>1 DEF OnlyBegins
<1>5. ASSUME OnlyBegins(s, r), Begins(s[1])
      PROVE  s[1].of = r /\ NoneBegins(rest)
  <2>1. 1 \in 1 .. Len(s)
    BY <1>1
  <2> QED
    BY <1>2, <1>5, <2>1 DEF OnlyBegins, NoneBegins
<1> QED
  BY <1>3, <1>4, <1>5 DEF rest

LEMMA BeginsAfterMessage ==
  ASSUME NEW s \in Seq(Parts), NEW r \in Requests, NEW body \in BOOLEAN, NoneBegins(s)
  PROVE  OnlyBegins(s \o Message(r, body), r)
<1> DEFINE m == Message(r, body)
           t == s \o m
<1>1. /\ m \in Seq(Parts) /\ Len(m) \in Nat /\ Len(s) \in Nat
      /\ \A i \in 1 .. Len(m) : m[i].of = r /\ (Begins(m[i]) => i = 1)
  BY MessageType DEF Begins
<1> HIDE DEF m
<1>2. /\ Len(t) = Len(s) + Len(m)
      /\ \A i \in 1 .. Len(s) + Len(m) : t[i] = IF i <= Len(s) THEN s[i] ELSE m[i - Len(s)]
  BY <1>1, ConcatProperties
<1> HIDE DEF t
<1>3. ASSUME NEW i \in 1 .. Len(t), Begins(t[i])
      PROVE  t[i].of = r /\ i = Len(s) + 1
  <2>1. i > Len(s)
    BY <1>1, <1>2, <1>3 DEF NoneBegins
  <2>2. i - Len(s) \in 1 .. Len(m) /\ t[i] = m[i - Len(s)]
    BY <1>1, <1>2, <2>1
  <2>3. t[i].of = r /\ i - Len(s) = 1
    BY <1>1, <1>3, <2>2
  <2> QED
    BY <1>1, <2>3
<1>4. OnlyBegins(t, r)
  BY <1>3 DEF OnlyBegins
<1> QED
  BY <1>4 DEF t, m

LEMMA NothingBegins ==
  ASSUME NEW s, NEW r
  PROVE  NoneBegins(<<>>) /\ (NoneBegins(s) => OnlyBegins(s, r))
BY DEF NoneBegins, OnlyBegins

\* A connection that a step does not touch.
LEMMA CarryFrame ==
  ASSUME NEW d \in Conns, CarryOf(d),
         csock'[d] = csock[d], toServer'[d] = toServer[d], toClient'[d] = toClient[d],
         session'[d] = session[d], srx'[d] = srx[d], d \in stray => d \in stray',
         \A l \in Clients : Waiting(l, d)' <=> Waiting(l, d),
         \A l \in Clients : Waiting(l, d) => request'[l] = request[l] /\ rx'[l] = rx[l]
  PROVE  CarryOf(d)'
<1>1. Quiet(d)' <=> Quiet(d)
  BY DEF Quiet
<1>2. \A l \in Clients : Waiting(l, d) => (Carries(d, l)' <=> Carries(d, l))
  BY <1>1 DEF Carries
<1> QED
  BY <1>1, <1>2 DEF CarryOf

\* At most one client waits on a connection.
LEMMA OneWaits ==
  ASSUME BaseInv, NEW k \in Clients, NEW l \in Clients, NEW c \in Conns,
         held[k] = c, Waiting(l, c)
  PROVE  l = k
BY ConnsFinite DEF BaseInv, OwnerInv, OneHolder, Waiting

\* The connection of a client after a read: the answer has begun to arrive, and
\* it is the answer to the client's request.
LEMMA CarryRead ==
  ASSUME BaseInv, CarryInv, NEW k \in Clients, Recv(k), NEW c \in Conns, held[k] = c,
         NEW n \in Nat, NEW p \in ParserStates, ReadBy(k, c, n, p), ~GiveUp(k)
  PROVE  p.of = request[k] /\ Quiet(c)' /\ csock'[c] = "open"
<1>1. /\ Waiting(k, c) /\ UNCHANGED <<toServer, sessionVars>> /\ c \notin stray
  BY RecvCases DEF BaseInv, wireVars, Waiting
<1>2. csock[c] = "open"
  BY <1>1 DEF BaseInv, OwnerInv, UsedAreOpen, Waiting, Waits
<1>3. Carries(c, k)
  BY <1>1, <1>2 DEF CarryInv, CarryOf
<1>4. toClient[c] \in Seq(Parts) /\ n \in 1 .. Len(toClient[c])
  BY <1>1 DEF ReadBy, BaseInv, TypeInv
<1>5. toClient'[c] = SubSeq(toClient[c], n + 1, Len(toClient[c])) /\ csock' = csock
  BY <1>1 DEF ReadBy, BaseInv, TypeInv
<1>6. CASE rx[k].of = None
  <2>1. Begins(toClient[c][1]) /\ p.of = toClient[c][1].of
    BY <1>6 DEF ReadBy
  <2>2. p.of = request[k] /\ NoneBegins(toClient'[c])
    BY <1>3, <1>4, <1>5, <2>1, BeginsAfterRead DEF Carries
  <2>3. NoneBegins(toServer[c]) /\ srx[c].of = None
    <3>1. ~NoneBegins(toClient[c])
      BY <1>4, <2>1 DEF NoneBegins
    <3> QED
      BY <1>3, <3>1 DEF Carries
  <2> QED
    BY <1>1, <1>2, <1>5, <2>2, <2>3 DEF Quiet, sessionVars
<1>7. CASE rx[k].of # None
  <2>1. p.of = request[k] /\ Quiet(c)
    BY <1>3, <1>7 DEF Carries, ReadBy
  <2>2. NoneBegins(toClient'[c])
    BY <1>4, <1>5, <2>1, BeginsAfterRead DEF Quiet
  <2> QED
    BY <1>1, <1>2, <1>5, <2>1, <2>2 DEF Quiet, sessionVars
<1> QED
  BY <1>6, <1>7

LEMMA GetFrame ==
  ASSUME BaseInv, NEW k \in Clients, NEW close \in plan.closes, NEW body \in plan.bodies,
         GetConnection(k, close, body)
  PROVE  /\ UNCHANGED <<csock, toServer, toClient, session, srx, rx, stray>>
         /\ \A l \in Clients, d \in Conns :
              /\ Waiting(l, d)' <=> Waiting(l, d)
              /\ Waiting(l, d) => request'[l] = request[l] /\ pc'[l] = pc[l]
<1>1. close \in BOOLEAN /\ body \in BOOLEAN
  BY ExchangeAssumption DEF BaseInv, TypeInv, PlanType
<1>2. /\ pc[k] = "idle" /\ pc'[k] \notin Waits
      /\ \A l \in Clients \ {k} : pc'[l] = pc[l] /\ held'[l] = held[l] /\ request'[l] = request[l]
  <2>1. /\ pc[k] = "idle"
        /\ request' = [request EXCEPT ![k] = [nr |-> asked + 1, close |-> close, body |-> body]]
        /\ \/ held' = held /\ pc' = [pc EXCEPT ![k] = "connect"]
           \/ held' = [held EXCEPT ![k] = conns[1]] /\ pc' = [pc EXCEPT ![k] = "send"]
    BY <1>1, GetCases DEF Go
  <2>2. /\ pc \in [Clients -> {"idle", "connect", "send", "recv", "body", "release"}]
        /\ held \in [Clients -> Conns \cup {0}]
        /\ request \in [Clients -> Requests \cup {None}]
    BY DEF BaseInv, TypeInv
  <2> QED
    BY <2>1, <2>2 DEF Waits
<1>3. UNCHANGED <<csock, toServer, toClient, session, srx, rx, stray>>
  BY DEF GetConnection, wireVars, sessionVars
<1>4. \A l \in Clients, d \in Conns : (Waiting(l, d)' <=> Waiting(l, d)) /\ (Waiting(l, d) => l # k)
  BY <1>2 DEF Waiting, Waits
<1> QED
  BY <1>2, <1>3, <1>4

LEMMA CarryConnect ==
  ASSUME BaseInv, CarryInv, NEW k \in Clients, Connect(k), NEW d \in Conns
  PROVE  CarryOf(d)'
<1> USE DEF Go, Finish, poolVars, wireVars, sessionVars, clientVars
<1>0. TypeInv /\ CarryOf(d) /\ 0 \notin Conns
  BY ConnsFinite DEF CarryInv, BaseInv
<1>1. CarryOf(d)'
  <2>1. /\ pc[k] = "connect" /\ UNCHANGED <<toServer, toClient, srx, request, rx>>
        /\ \A l \in Clients \ {k} : pc'[l] = pc[l] /\ held'[l] = held[l]
        /\ pc'[k] \in {"idle", "send"}
    BY <1>0 DEF Connect, TypeInv
  <2>2. \A l \in Clients : Waiting(l, d)' <=> Waiting(l, d)
    BY <2>1 DEF Waiting, Waits
  <2>3. CASE UNCHANGED <<csock, session, stray>>
    BY <1>0, <2>1, <2>2, <2>3, CarryFrame
  <2>4. ASSUME NEW c \in Conns, Free(c), csock' = [csock EXCEPT ![c] = "open"],
               session' = [session EXCEPT ![c] = "recv"], held' = [held EXCEPT ![k] = c],
               pc' = [pc EXCEPT ![k] = "send"], stray' = stray \ {c}
        PROVE  CarryOf(d)'
    <3>1. CASE d # c
      BY <1>0, <2>1, <2>2, <2>4, <3>1, CarryFrame DEF TypeInv
    <3>2. CASE d = c
      <4>1. toServer[c] = <<>> /\ srx[c] = Fresh /\ toClient[c] = <<>>
        BY <1>0, <2>4, <3>2 DEF Free, CarryOf
      <4>2. Quiet(c)'
        BY <2>1, <4>1, NothingBegins, FreshType DEF Quiet
      <4>3. \A l \in Clients : ~Waiting(l, c)'
        BY <2>2, <2>4, <3>2 DEF Free, Waiting
      <4>4. csock'[c] = "open" /\ session'[c] = "recv"
        BY <1>0, <2>4 DEF TypeInv
      <4> QED
        BY <3>2, <4>2, <4>3, <4>4 DEF CarryOf
    <3> QED
      BY <3>1, <3>2
  <2> QED
    BY <2>3, <2>4 DEF Connect
<1> QED
  BY <1>1

\* The step of a client leaves other clients and connections alone.
LEMMA ClientFrame ==
  ASSUME BaseInv, NEW k \in Clients, OnConnection(k),
         NEW c \in Conns, held[k] = c, NEW d \in Conns, d # c
  PROVE  /\ csock'[d] = csock[d] /\ toServer'[d] = toServer[d] /\ toClient'[d] = toClient[d]
         /\ UNCHANGED <<session, srx, request>> /\ held'[k] \in {c, 0}
         /\ d \in stray' <=> d \in stray
         /\ \A l \in Clients \ {k} : pc'[l] = pc[l] /\ held'[l] = held[l] /\ rx'[l] = rx[l]
<1> USE DEF Go, Finish, poolVars, wireVars, sessionVars, clientVars
<1>0. TypeInv
  BY DEF BaseInv
<1>1. UNCHANGED <<session, srx, request>> /\ (d \in stray' <=> d \in stray)
  <2>1. CASE RecvStray(k)
    <3>1. UNCHANGED <<session, srx, request>> /\ stray' = stray \cup {c}
      BY <1>0, <2>1, StrayCases DEF BaseInv
    <3> QED
      BY <3>1
  <2>2. CASE ~RecvStray(k)
    BY <1>0, <2>2, RecvCases DEF OnConnection, Send, RecvFails, Release, BaseInv
  <2> QED
    BY <2>1, <2>2
<1>2. CASE Send(k)
  BY <1>0, <1>1, <1>2 DEF Send, TypeInv
<1>3. CASE Recv(k)
  <2>1. PICK n \in Nat, p \in ParserStates : ReadBy(k, c, n, p)
    BY <1>3, RecvCases DEF BaseInv
  <2>2. UNCHANGED <<toServer, held>>
    BY <1>3, RecvCases DEF BaseInv
  <2> QED
    BY <1>0, <1>1, <2>1, <2>2 DEF ReadBy, GiveUp, TypeInv
<1>4. CASE RecvFails(k)
  BY <1>0, <1>1, <1>4 DEF RecvFails, GiveUp, TypeInv
<1>5. CASE Release(k)
  BY <1>0, <1>1, <1>5 DEF Release, TypeInv
<1>6. CASE RecvStray(k)
  <2>1. /\ UNCHANGED <<toServer, held>>
        /\ \E p \in ParserStates : rx' = [rx EXCEPT ![k] = p]
    BY <1>6, StrayCases DEF BaseInv
  <2>2. /\ \/ csock' = csock \/ csock' = [csock EXCEPT ![c] = "closed"]
        /\ \E q : toClient' = [toClient EXCEPT ![c] = q]
        /\ \E l : pc' = [pc EXCEPT ![k] = l]
    BY <1>6, StrayCases DEF BaseInv, GiveUp
  <2> QED
    BY <1>0, <1>1, <2>1, <2>2 DEF TypeInv
<1> QED
  BY <1>2, <1>3, <1>4, <1>5, <1>6 DEF OnConnection

LEMMA CarryClient ==
  ASSUME BaseInv, CarryInv, BaseInv', NEW k \in Clients, OnConnection(k),
         NEW c \in Conns, held[k] = c, NEW d \in Conns
  PROVE  CarryOf(d)'
<1> USE DEF Go, Finish, poolVars, wireVars, sessionVars, clientVars
<1>0. TypeInv /\ CarryOf(d) /\ 0 \notin Conns
  BY ConnsFinite DEF CarryInv, BaseInv
<1>2. c \in Conns /\ pc[k] \in HasConnection
  BY <1>0 DEF BaseInv, PlaceInv
<1>3. ASSUME d # c
      PROVE  CarryOf(d)'
  <2>2. /\ csock'[d] = csock[d] /\ toServer'[d] = toServer[d] /\ toClient'[d] = toClient[d]
        /\ UNCHANGED <<session, srx, request>> /\ held'[k] \in {c, 0}
        /\ d \in stray' <=> d \in stray
        /\ \A l \in Clients \ {k} : pc'[l] = pc[l] /\ held'[l] = held[l] /\ rx'[l] = rx[l]
    BY <1>2, <1>3, ClientFrame
  <2>3. \A l \in Clients : Waiting(l, d)' <=> Waiting(l, d)
    BY <1>0, <1>3, <2>2 DEF Waiting
  <2>4. \A l \in Clients : Waiting(l, d) => request'[l] = request[l] /\ rx'[l] = rx[l]
    BY <1>3, <2>2 DEF Waiting
  <2> QED
    BY <1>0, <2>2, <2>3, <2>4, CarryFrame
<1>4. ASSUME pc'[k] = "release", csock'[c] = csock[c], pc[k] = "send",
             UNCHANGED <<toServer, toClient, sessionVars, held, stray>>,
             \A l \in Clients \ {k} : pc'[l] = pc[l]
      PROVE  CarryOf(c)'
  <2>1. \A l \in Clients : ~Waiting(l, c) /\ ~Waiting(l, c)'
    BY <1>2, <1>4, OneWaits DEF Waiting, Waits
  <2> QED
    BY <1>2, <1>4, <2>1, CarryFrame DEF CarryInv
<1>5. CASE Send(k)
  <2>0. pc[k] = "send" /\ UNCHANGED <<csock, toClient, sessionVars, held, request, rx, stray>>
    BY <1>5 DEF Send
  <2>1. c \in Conns /\ csock[c] = "open" /\ request[k] \in Requests /\ rx[k] = Fresh
    BY <1>5, <2>0 DEF Send, BaseInv, OwnerInv, UsedAreOpen, PlaceInv, HasConnection, TypeInv
  <2>2. \A l \in Clients : ~Waiting(l, c)
    BY <2>0, <2>1, OneWaits DEF Waiting, Waits
  <2>a. CarryOf(c) /\ (c \notin stray => Quiet(c))
    BY <2>1, <2>2 DEF CarryInv, CarryOf
  <2>4. ASSUME toServer' = [toServer EXCEPT ![c] = IF session[c] = "closed" THEN @
                                   ELSE @ \o Message(request[k], request[k].body)],
               pc' = [pc EXCEPT ![k] = "recv"]
        PROVE  CarryOf(c)'
    <3>a. session'[c] = "closed" => toServer'[c] = <<>> /\ srx'[c] = Fresh
      BY <1>0, <2>0, <2>1, <2>a, <2>4 DEF CarryOf, TypeInv
    <3>b. csock'[c] = "open"
      BY <2>0, <2>1
    <3>c. CASE c \in stray
      BY <2>0, <3>a, <3>b, <3>c DEF CarryOf
    <3>d. ASSUME c \notin stray
          PROVE  CarryOf(c)'
      <4>0. Quiet(c)
        BY <2>a, <3>d
      <4>1. \A l \in Clients : Waiting(l, c)' => l = k
        BY <1>0, <2>0, <2>2, <2>4 DEF Waiting, TypeInv
      <4>2. Waiting(k, c)'
        BY <1>0, <2>0, <2>1, <2>4 DEF Waiting, Waits, TypeInv
      <4>3. OnlyBegins(toServer'[c], request[k])
        <5>1. toServer[c] \in Seq(Parts) /\ request[k].body \in BOOLEAN /\ NoneBegins(toServer[c])
          BY <1>0, <2>1, <4>0 DEF TypeInv, Requests, Quiet
        <5>2. CASE session[c] = "closed"
          BY <1>0, <2>1, <2>4, <5>1, <5>2, NothingBegins DEF TypeInv
        <5>3. CASE session[c] # "closed"
          BY <1>0, <2>1, <2>4, <5>1, <5>3, BeginsAfterMessage DEF TypeInv
        <5> QED
          BY <5>2, <5>3
      <4>4. Carries(c, k)'
        <5>1. /\ srx'[c].of = None /\ NoneBegins(toClient'[c]) /\ rx'[k].of = None
              /\ request'[k] = request[k]
          BY <2>0, <2>1, <4>0, FreshType DEF Quiet
        <5> QED
          BY <4>3, <5>1, NothingBegins DEF Carries
      <4> QED
        BY <3>a, <3>b, <4>1, <4>2, <4>4 DEF CarryOf
    <3> QED
      BY <3>c, <3>d
  <2>5. ASSUME pc' = [pc EXCEPT ![k] = "release"], toServer' = toServer
        PROVE  CarryOf(c)'
    BY <1>0, <1>2, <1>4, <2>0, <2>5 DEF TypeInv
  <2>6. CarryOf(c)'
    BY <1>5, <2>4, <2>5 DEF Send
  <2> QED
    BY <1>3, <2>0, <2>6 DEF Connect
<1>6. ASSUME GiveUp(k), c \in Conns, UNCHANGED <<toServer, sessionVars>>
      PROVE  CarryOf(c)'
  <2>1. csock'[c] = "closed" /\ toClient'[c] = <<>>
    BY <1>0, <1>6 DEF GiveUp, TypeInv
  <2> QED
    BY <1>6, <2>1 DEF CarryInv, CarryOf
<1>7. CASE Recv(k)
  <2>1. PICK n \in Nat, p \in ParserStates : ReadBy(k, c, n, p)
    BY <1>7, RecvCases DEF BaseInv
  <2>2. /\ c \in Conns /\ UNCHANGED <<toServer, sessionVars, held, request>>
        /\ pc[k] \in Waits
    BY <1>7, RecvCases DEF BaseInv
  <2>3. ASSUME ~GiveUp(k)
        PROVE  CarryOf(c)'
    <3>1. p.of = request[k] /\ Quiet(c)' /\ csock'[c] = "open"
      BY <1>7, <2>1, <2>3, CarryRead
    <3>2. \A l \in Clients : Waiting(l, c)' => l = k
      BY <2>2, OneWaits DEF BaseInv, OwnerInv, OneHolder, Waiting
    <3>3. rx'[k] = p /\ request'[k] = request[k]
      BY <1>0, <2>1, <2>2 DEF ReadBy, TypeInv
    <3>4. Carries(c, k)'
      BY <3>1, <3>3, NothingBegins DEF Carries, Quiet
    <3>5. session'[c] = "closed" => toServer'[c] = <<>> /\ srx'[c] = Fresh
      BY <2>2 DEF CarryInv, CarryOf
    <3> QED
      BY <3>1, <3>2, <3>4, <3>5 DEF CarryOf
  <2>4. CarryOf(c)'
    BY <1>6, <2>2, <2>3
  <2> QED
    BY <1>3, <2>4
<1>8. CASE RecvFails(k)
  <2>1. GiveUp(k) /\ UNCHANGED <<toServer, sessionVars>> /\ pc[k] \in Waits
    BY <1>8 DEF RecvFails, Waits
  <2> QED
    BY <1>2, <1>3, <1>6, <2>1
<1>9. CASE Release(k)
  <2>0. UNCHANGED <<toServer, sessionVars, stray>> /\ pc[k] = "release"
    BY <1>9 DEF Release
  <2>1. CASE Discard(c)
    <3>1. csock'[c] = "closed" /\ toClient'[c] = <<>>
      BY <1>0, <1>2, <1>9, <2>0, <2>1 DEF Release, TypeInv
    <3> QED
      BY <1>2, <1>3, <2>0, <3>1 DEF CarryInv, CarryOf
  <2>2. CASE ~Discard(c)
    <3>1. UNCHANGED <<csock, toClient, toServer, sessionVars>>
      BY <1>9, <2>2 DEF Release
    <3>2. \A l \in Clients : ~Waiting(l, c) /\ ~Waiting(l, c)'
      <4>1. \A l \in Clients : Waiting(l, c) => l = k
        BY <1>2, <2>0, OneWaits
      <4>2. pc' = [pc EXCEPT ![k] = "idle"] /\ held' = [held EXCEPT ![k] = 0]
        BY <1>9 DEF Release
      <4>3. \A l \in Clients \ {k} : Waiting(l, c)' => Waiting(l, c)
        BY <1>0, <4>2 DEF Waiting, TypeInv
      <4> QED
        BY <1>0, <2>0, <4>1, <4>2, <4>3 DEF Waiting, Waits, TypeInv
    <3>3. CarryOf(c)'
      BY <1>2, <2>0, <3>1, <3>2, CarryFrame DEF CarryInv
    <3> QED
      BY <1>3, <2>0, <3>3
  <2> QED
    BY <2>1, <2>2
<1>10. CASE RecvStray(k)
  <2>1. c \in stray' /\ UNCHANGED <<toServer, sessionVars>>
    BY <1>10, StrayCases DEF BaseInv
  <2>2. GiveUp(k) \/ csock' = csock
    BY <1>10, StrayCases DEF BaseInv
  <2>3. CASE ~GiveUp(k)
    <3>1. csock'[c] = "closed" => toClient'[c] = <<>>
      <4>1. csock[c] = "open"
        BY <1>10, <1>2, StrayCases DEF BaseInv, OwnerInv, UsedAreOpen, Waits
      <4> QED
        BY <2>2, <2>3, <4>1
    <3> QED
      BY <1>2, <1>3, <2>1, <3>1 DEF CarryInv, CarryOf
  <2> QED
    BY <1>2, <1>3, <1>6, <2>1, <2>3
<1> QED
  BY <1>5, <1>7, <1>8, <1>9, <1>10 DEF OnConnection

\* The step of a session leaves clients and other connections alone.
LEMMA SessionFrame ==
  ASSUME BaseInv, NEW c \in Conns, SessionStep(c) \/ Respond(c), NEW d \in Conns, d # c
  PROVE  /\ toServer'[d] = toServer[d] /\ toClient'[d] = toClient[d]
         /\ session'[d] = session[d] /\ srx'[d] = srx[d] /\ (d \in stray' <=> d \in stray)
<1> USE DEF To
<1>0. TypeInv /\ PlaceInv
  BY DEF BaseInv
<1>1. CASE ServerRecv(c)
  <2>1. PICK n \in Nat, p \in ParserStates : ServedBy(c, n, p)
    BY <1>0, <1>1, ServerRecvCases
  <2>2. UNCHANGED <<toClient, stray>>
    BY <1>0, <1>1, ServerRecvCases
  <2> QED
    BY <1>0, <2>1, <2>2 DEF ServedBy, Hangup, TypeInv
<1>2. CASE ServerRecvFails(c) \/ CloseSession(c)
  BY <1>0, <1>2 DEF ServerRecvFails, CloseSession, Hangup, TypeInv
<1>3. CASE Respond(c)
  BY <1>0, <1>3 DEF Respond, TypeInv
<1>4. CASE ServerRecvStray(c)
  <2>1. /\ UNCHANGED toClient /\ stray' = stray \cup {c}
        /\ \E q : toServer' = [toServer EXCEPT ![c] = q]
        /\ \E q : srx' = [srx EXCEPT ![c] = q]
        /\ \E q : session' = [session EXCEPT ![c] = q]
    BY <1>0, <1>4, ServerStrayCases DEF Hangup
  <2> QED
    BY <1>0, <2>1 DEF TypeInv
<1> QED
  BY <1>1, <1>2, <1>3, <1>4 DEF SessionStep

LEMMA CarrySession ==
  ASSUME BaseInv, CarryInv, NEW c \in Conns, SessionStep(c) \/ Respond(c), NEW d \in Conns
  PROVE  CarryOf(d)'
<1> USE DEF To
<1>0. TypeInv /\ PlaceInv /\ CarryOf(d) /\ CarryOf(c)
  BY DEF CarryInv, BaseInv
<1>1. UNCHANGED <<csock, pc, held, request, rx>>
  BY <1>0, ServerRecvCases, ServerStrayCases
     DEF SessionStep, ServerRecvFails, CloseSession, Respond, clientVars
<1>2. \A l \in Clients : (Waiting(l, d)' <=> Waiting(l, d)) /\ (Waiting(l, c)' <=> Waiting(l, c))
  BY <1>1 DEF Waiting
<1>3. CASE d # c
  <2>1. /\ toServer'[d] = toServer[d] /\ toClient'[d] = toClient[d]
        /\ session'[d] = session[d] /\ srx'[d] = srx[d] /\ (d \in stray' <=> d \in stray)
    BY <1>3, SessionFrame
  <2> QED
    BY <1>0, <1>1, <1>2, <2>1, CarryFrame
<1>4. ASSUME UNCHANGED toClient, NoneBegins(toServer'[c]), srx'[c].of = None,
             c \in stray => c \in stray',
             session'[c] = "closed" => toServer'[c] = <<>> /\ srx'[c] = Fresh
      PROVE  CarryOf(c)'
  <2>1. Quiet(c) => Quiet(c)'
    BY <1>4 DEF Quiet
  <2>2. \A l \in Clients : Carries(c, l) => Carries(c, l)'
    BY <1>1, <1>4, <2>1, NothingBegins DEF Carries
  <2> QED
    BY <1>0, <1>1, <1>2, <1>4, <2>1, <2>2 DEF CarryOf
<1>5. ASSUME Hangup(c), UNCHANGED toClient, c \in stray => c \in stray'
      PROVE  CarryOf(c)'
  <2>1. toServer'[c] = <<>> /\ srx'[c] = Fresh
    BY <1>0, <1>5 DEF Hangup, TypeInv
  <2> QED
    BY <1>4, <1>5, <2>1, NothingBegins, FreshType
<1>6. ASSUME ServerRecv(c)
      PROVE  CarryOf(c)'
  <2>1. PICK n \in Nat, p \in ParserStates : ServedBy(c, n, p)
    BY <1>0, <1>6, ServerRecvCases
  <2>2. UNCHANGED <<toClient, stray>> /\ c \notin stray
    BY <1>0, <1>6, ServerRecvCases DEF ServerRecv
  <2>3. ASSUME ~Hangup(c)
        PROVE  CarryOf(c)'
    <3>1. /\ n \in 1 .. Len(toServer[c]) /\ toServer[c] \in Seq(Parts)
          /\ p.of = IF srx[c].of = None THEN toServer[c][1].of ELSE srx[c].of
          /\ p.of \in Requests
          /\ srx[c].of = None => Begins(toServer[c][1])
          /\ srx'[c] = p /\ session'[c] # "closed"
          /\ toServer'[c] = SubSeq(toServer[c], n + 1, Len(toServer[c]))
      BY <1>0, <2>1, <2>3 DEF ServedBy, TypeInv
    <3>2. srx[c].of = None => ~NoneBegins(toServer[c])
      <4>1. 1 \in 1 .. Len(toServer[c])
        BY <3>1
      <4> QED
        BY <3>1, <4>1 DEF NoneBegins
    <3>3. csock[c] = "open" => \E l \in Clients : Waiting(l, c)
      <4>1. ~Quiet(c)
        BY <3>1, <3>2, NoneIsNoRequest DEF Quiet
      <4> QED
        BY <1>0, <2>2, <4>1 DEF CarryOf
    <3>4. ASSUME NEW l \in Clients, Carries(c, l)
          PROVE  Carries(c, l)'
      <4>1. p.of = request[l] /\ NoneBegins(toServer'[c])
        <5>1. CASE srx[c].of = None
          <6>1. OnlyBegins(toServer[c], request[l]) /\ Begins(toServer[c][1])
            BY <3>1, <3>4, <5>1 DEF Carries
          <6> QED
            BY <3>1, <5>1, <6>1, BeginsAfterRead
        <5>2. CASE srx[c].of # None
          <6>1. srx[c].of = request[l] /\ NoneBegins(toServer[c])
            BY <3>4, <5>2 DEF Carries
          <6> QED
            BY <3>1, <5>2, <6>1, BeginsAfterRead
        <5> QED
          BY <5>1, <5>2
      <4>2. NoneBegins(toClient[c])
        BY <3>1, <3>2, <3>4 DEF Carries
      <4>3. rx[l].of = None
        BY <3>1, <3>2, <3>4, NoneIsNoRequest DEF Carries, Quiet
      <4> QED
        BY <1>1, <2>2, <3>1, <4>1, <4>2, <4>3, NothingBegins DEF Carries
    <3> QED
      BY <1>0, <1>1, <1>2, <2>2, <3>1, <3>3, <3>4 DEF CarryOf
  <2> QED
    BY <1>5, <2>2, <2>3
<1>7. ASSUME Respond(c)
      PROVE  CarryOf(c)'
  <2>1. /\ srx'[c] = Fresh /\ session'[c] # "closed" /\ UNCHANGED <<toServer, stray>>
        /\ srx[c].of \in Requests /\ toClient[c] \in Seq(Parts)
        /\ toClient'[c] = IF csock[c] = "closed" THEN toClient[c]
                          ELSE toClient[c] \o Message(srx[c].of, TRUE)
    BY <1>0, <1>7 DEF Respond, TypeInv, PlaceInv
  <2>2. csock[c] = "open" /\ c \notin stray => \E l \in Clients : Waiting(l, c)
    BY <1>0, <2>1, NoneIsNoRequest DEF CarryOf, Quiet
  <2>3. ASSUME NEW l \in Clients, Carries(c, l), csock[c] = "open"
        PROVE  Carries(c, l)'
    <3>1. /\ srx[c].of # None /\ srx[c].of = request[l] /\ NoneBegins(toServer[c])
          /\ NoneBegins(toClient[c]) /\ rx[l].of = None
      BY <2>1, <2>3, NoneIsNoRequest DEF Carries, Quiet
    <3>2. OnlyBegins(toClient'[c], request[l])
      BY <2>1, <2>3, <3>1, BeginsAfterMessage
    <3> QED
      BY <1>1, <2>1, <3>1, <3>2, NothingBegins, FreshType DEF Carries
  <2>4. csock[c] = "closed" => toClient'[c] = <<>>
    BY <1>0, <2>1 DEF CarryOf
  <2>5. csock[c] \in {"open", "closed"}
    BY <1>0 DEF TypeInv
  <2> QED
    BY <1>1, <1>2, <2>1, <2>2, <2>3, <2>4, <2>5, <1>0 DEF CarryOf
<1>8. ServerRecvFails(c) \/ CloseSession(c) => Hangup(c) /\ UNCHANGED <<toClient, stray>>
  BY DEF ServerRecvFails, CloseSession
<1>9. ASSUME ServerRecvStray(c)
      PROVE  CarryOf(c)'
  <2>1. c \in stray' /\ UNCHANGED toClient
    BY <1>0, <1>9, ServerStrayCases
  <2>2. CASE ~Hangup(c)
    <3>1. PICK l \in {"recv", "body", "handle"} : To(c, l)
      BY <1>0, <1>9, <2>2, ServerStrayCases
    <3>2. session'[c] # "closed"
      BY <1>0, <3>1 DEF TypeInv
    <3> QED
      BY <1>0, <1>1, <2>1, <3>2 DEF CarryOf
  <2> QED
    BY <1>5, <2>1, <2>2
<1> QED
  BY <1>3, <1>5, <1>6, <1>7, <1>8, <1>9 DEF SessionStep

LEMMA CarryStep == BaseInv /\ CarryInv /\ [Next]_vars => CarryInv'
<1> SUFFICES ASSUME BaseInv, CarryInv, [Next]_vars, NEW d \in Conns
             PROVE  CarryOf(d)'
  BY DEF CarryInv
<1>0. BaseInv' /\ TypeInv /\ CarryOf(d)
  BY BaseStep DEF BaseInv, CarryInv
<1>1. ASSUME NEW k \in Clients, NEW close \in plan.closes, NEW body \in plan.bodies,
             GetConnection(k, close, body)
      PROVE  CarryOf(d)'
  BY <1>0, <1>1, GetFrame, CarryFrame
<1>2. ASSUME NEW k \in Clients, OnConnection(k)
      PROVE  CarryOf(d)'
  <2>1. held[k] \in Conns
    BY <1>2, HoldsOne DEF BaseInv
  <2> QED
    BY <1>0, <1>2, <2>1, CarryClient
<1>3. CASE UNCHANGED vars
  <2>1. \A l \in Clients : Waiting(l, d)' <=> Waiting(l, d)
    BY <1>3 DEF vars, clientVars, Waiting
  <2> QED
    BY <1>0, <1>3, <2>1, CarryFrame DEF vars, wireVars, sessionVars, clientVars
<1> QED
  BY <1>1, <1>2, <1>3, CarryConnect, CarrySession DEF Next, ClientStep, OnConnection

LEMMA CarryInit == Init => CarryInv
BY NothingBegins, FreshType DEF Init, CarryInv, CarryOf, Waiting, Quiet

-----------------------------------------------------------------------------
(* While no head is cut.                                                   *)

LEMMA FaultsStay == BaseInv /\ [Next]_vars => faults \subseteq faults'
<1> SUFFICES ASSUME BaseInv, [Next]_vars
             PROVE  faults \subseteq faults'
  OBVIOUS
<1>1. ASSUME NEW k \in Clients, Recv(k)
      PROVE  faults \subseteq faults'
  <2>1. PICK n \in Nat, p \in ParserStates : ReadBy(k, held[k], n, p)
    BY <1>1, RecvCases DEF BaseInv
  <2> QED
    BY <2>1 DEF ReadBy
<1>2. ASSUME NEW c \in Conns, ServerRecv(c)
      PROVE  faults \subseteq faults'
  <2>1. PICK n \in Nat, p \in ParserStates : ServedBy(c, n, p)
    BY <1>2, ServerRecvCases DEF BaseInv
  <2> QED
    BY <2>1 DEF ServedBy
<1>3. ASSUME NEW k \in Clients, Connect(k) \/ Send(k) \/ RecvFails(k) \/ Release(k)
      PROVE  faults \subseteq faults'
  BY <1>3 DEF Connect, Send, RecvFails, Release
<1>4. ASSUME NEW c \in Conns, ServerRecvFails(c) \/ CloseSession(c) \/ Respond(c)
      PROVE  faults \subseteq faults'
  BY <1>4 DEF ServerRecvFails, CloseSession, Respond
<1>5. ASSUME NEW k \in Clients, NEW close, NEW body, GetConnection(k, close, body)
      PROVE  faults \subseteq faults'
  BY <1>5 DEF GetConnection
<1>6. CASE UNCHANGED vars
  BY <1>6 DEF vars
<1>7. ASSUME NEW k \in Clients, RecvStray(k)
      PROVE  faults \subseteq faults'
  BY <1>7 DEF RecvStray
<1>8. ASSUME NEW c \in Conns, ServerRecvStray(c)
      PROVE  faults \subseteq faults'
  BY <1>8 DEF ServerRecvStray
<1> QED
  BY <1>1, <1>2, <1>3, <1>4, <1>5, <1>6, <1>7, <1>8 DEF Next, ClientStep, SessionStep

LEMMA PlanStays == BaseInv /\ [Next]_vars => plan' = plan
BY RecvCases, ServerRecvCases, StrayCases, ServerStrayCases
   DEF BaseInv, Next, vars, ClientStep, SessionStep, GetConnection, Connect, Send, RecvFails,
       Release, ServerRecvFails, CloseSession, Respond

\* A message that nothing has cut, read by a new parser.
LEMMA WholeMessage ==
  ASSUME NEW r \in Requests, NEW body \in BOOLEAN, NEW s, s = Message(r, body),
         NEW n \in 1 .. Len(s)
  PROVE  /\ s \in Seq(Parts)
         /\ \/ Cut(SubSeq(s, 1, n))
            \/ /\ Parse(Fresh, SubSeq(s, 1, n)).p.of = r
               /\ Parse(Fresh, SubSeq(s, 1, n)).status = "body"
               /\ OneBody(SubSeq(s, n + 1, Len(s)))
            \/ /\ Parse(Fresh, SubSeq(s, 1, n)).p.of = r
               /\ Parse(Fresh, SubSeq(s, 1, n)).status = "done"
               /\ SubSeq(s, n + 1, Len(s)) = <<>>
<1> DEFINE ts == SubSeq(s, 1, n)
           rest == SubSeq(s, n + 1, Len(s))
<1>1. /\ s \in Seq(Parts)
      /\ body => Len(s) = 3 /\ s[1].part = "head" /\ s[2].part = "value" /\ s[3].part = "body"
      /\ ~body => Len(s) = 1 /\ s[1].part = "short"
      /\ \A i \in 1 .. Len(s) : s[i].of = r
  BY MessageType
<1>2. /\ ts \in Seq(Parts) /\ Len(ts) = n /\ \A i \in 1 .. n : ts[i] = s[i]
      /\ rest \in Seq(Parts) /\ Len(rest) = Len(s) - n
      /\ \A i \in 1 .. Len(s) - n : rest[i] = s[n + i]
  BY <1>1, SplitType
<1> HIDE DEF ts, rest
<1> DEFINE length == Fresh.length \/ \E i \in 2 .. Len(ts) :
                        ts[i-1].part = "head" /\ ts[i].part = "value"
           ends == {i \in 1 .. Len(ts) : ts[i].part \in {"value", "short"}}
           head == [of |-> IF Fresh.of = None THEN ts[1].of ELSE Fresh.of, length |-> length]
           status == IF ends = {} THEN "head"
                     ELSE IF length /\ Len(ts) \in ends THEN "body" ELSE "done"
<1>3. Parse(Fresh, ts) = IF Fresh.of = None /\ ts[1].part \notin {"head", "short"}
                         THEN [p |-> Fresh, status |-> "error"] ELSE [p |-> head, status |-> status]
  BY DEF Parse, Leftover, ts
<1>4. Fresh.of = None /\ Fresh.length = FALSE /\ head.of = ts[1].of
  BY DEF Fresh
<1>5. n \in 1 .. Len(s) /\ Len(s) \in Nat /\ s \in Seq(Parts)
  BY <1>1
<1> DEFINE long == Len(s) = 3 /\ s[1].part = "head" /\ s[2].part = "value" /\ s[3].part = "body"
           short == Len(s) = 1 /\ s[1].part = "short"
<1>b. (body => long) /\ (~body => short)
  BY <1>1
<1>6. ASSUME long, n = 1
      PROVE  Cut(ts)
  <2>1. Len(ts) = 1 /\ ts[1] = s[1]
    BY <1>2, <1>5, <1>6
  <2> QED
    BY <1>6, <2>1 DEF Cut
<1>7. Parse(Fresh, ts).p = head /\ Parse(Fresh, ts).status = status /\ head.of = r
  <2>1. ts[1] = s[1] /\ ts[1].of = r /\ ts[1].part \in {"head", "short"}
    BY <1>1, <1>2, <1>5, <1>b
  <2> HIDE DEF head, status
  <2> QED
    BY <1>3, <1>4, <2>1
<1>8. ASSUME long, n = 2
      PROVE  status = "body" /\ OneBody(rest)
  <2>1. ts[1].part = "head" /\ ts[2].part = "value" /\ Len(ts) = 2
    BY <1>2, <1>5, <1>8
  <2>2. length
    <3>1. 2 \in 2 .. Len(ts) /\ ts[2 - 1].part = "head"
      BY <2>1
    <3> QED
      BY <2>1, <3>1
  <2>3. 2 \in ends
    BY <2>1
  <2>4. OneBody(rest)
    BY <1>2, <1>5, <1>8 DEF OneBody
  <2> HIDE DEF length, ends
  <2> QED
    BY <1>8, <2>1, <2>2, <2>3, <2>4
<1>9. ASSUME long, n = 3
      PROVE  status = "done" /\ rest = <<>>
  <2>1. ts[2].part = "value" /\ ts[3].part = "body" /\ Len(ts) = 3
    BY <1>2, <1>5, <1>9
  <2>2. 2 \in ends /\ 3 \notin ends
    BY <2>1
  <2>3. Len(rest) = 0
    BY <1>2, <1>5, <1>9
  <2> HIDE DEF length, ends
  <2> QED
    BY <1>2, <2>1, <2>2, <2>3
<1>10. ASSUME short
       PROVE  status = "done" /\ rest = <<>>
  <2>a. n = 1
    BY <1>5, <1>10
  <2>1. ts[1].part = "short" /\ Len(ts) = 1
    BY <1>2, <1>5, <1>10, <2>a
  <2>2. 1 \in ends /\ ~length
    BY <1>4, <2>1
  <2>3. Len(rest) = 0
    BY <1>2, <1>5, <1>10, <2>a
  <2> HIDE DEF length, ends
  <2> QED
    BY <1>2, <2>2, <2>3
<1> HIDE DEF head, status, long, short
<1>a. long => n \in {1, 2, 3}
  BY <1>5 DEF long
<1>11. short \/ (long /\ n \in {1, 2, 3})
  BY <1>a, <1>b, Zenon
<1>12. \/ Cut(ts)
       \/ Parse(Fresh, ts).p.of = r /\ Parse(Fresh, ts).status = "body" /\ OneBody(rest)
       \/ Parse(Fresh, ts).p.of = r /\ Parse(Fresh, ts).status = "done" /\ rest = <<>>
  BY <1>6, <1>7, <1>8, <1>9, <1>10, <1>11
<1> QED
  BY <1>1, <1>12 DEF ts, rest

LEMMA WholeAnswer ==
  ASSUME NEW r \in Requests, NEW s, s = Answer(r), NEW n \in 1 .. Len(s)
  PROVE  /\ s \in Seq(Parts)
         /\ \/ Cut(SubSeq(s, 1, n))
            \/ /\ Parse(Fresh, SubSeq(s, 1, n)).p.of = r
               /\ Parse(Fresh, SubSeq(s, 1, n)).status = "body"
               /\ OneBody(SubSeq(s, n + 1, Len(s)))
            \/ /\ Parse(Fresh, SubSeq(s, 1, n)).p.of = r
               /\ Parse(Fresh, SubSeq(s, 1, n)).status = "done"
               /\ SubSeq(s, n + 1, Len(s)) = <<>>
<1>1. ASSUME NEW b \in BOOLEAN, s = Message(r, b)
      PROVE  /\ s \in Seq(Parts)
             /\ \/ Cut(SubSeq(s, 1, n))
                \/ /\ Parse(Fresh, SubSeq(s, 1, n)).p.of = r
                   /\ Parse(Fresh, SubSeq(s, 1, n)).status = "body"
                   /\ OneBody(SubSeq(s, n + 1, Len(s)))
                \/ /\ Parse(Fresh, SubSeq(s, 1, n)).p.of = r
                   /\ Parse(Fresh, SubSeq(s, 1, n)).status = "done"
                   /\ SubSeq(s, n + 1, Len(s)) = <<>>
  BY <1>1, WholeMessage
<1>2. TRUE \in BOOLEAN
  OBVIOUS
<1> QED
  BY <1>1, <1>2, Zenon DEF Answer

\* An answer on its way to the client that waits for it.
LEMMA FlowRead ==
  ASSUME BaseInv, NEW k \in Clients, NEW c \in Conns, held[k] = c, Recv(k),
         UnderWay(c, k), "cut" \notin faults'
  PROVE  /\ UNCHANGED <<csock, toServer, session, srx, held, request, stray>>
         /\ \A d \in Conns \ {c} : toClient'[d] = toClient[d]
         /\ \A l \in Clients \ {k} : pc'[l] = pc[l] /\ rx'[l] = rx[l]
         /\ \A l \in Clients : outcome'[l].result = "error" => outcome[l].result = "error"
         /\ UnderWay(c, k)' \/ (AtRest(c)' /\ pc'[k] = "release")
<1> USE DEF Go, Finish, poolVars, sessionVars
<1> DEFINE s == toClient[c]
           ts(n) == SubSeq(s, 1, n)
           r(n) == IF pc[k] = "body" THEN [p |-> rx[k], status |-> "done"] ELSE Parse(rx[k], ts(n))
<1>0. TypeInv /\ s # <<>> /\ pc[k] \in Waits /\ request[k] \in Requests
  BY DEF BaseInv, Recv, Waits, PlaceInv
<1>1. UNCHANGED <<toServer, session, srx, held, request, stray>>
  BY DEF Recv
<1>2. PICK n \in 1 .. (IF pc[k] = "body" THEN 1 ELSE Len(s)) :
        /\ rx' = [rx EXCEPT ![k] = r(n).p]
        /\ faults' = IF Cut(ts(n)) THEN faults \cup {"cut"} ELSE faults
        /\ r(n).status = "done" =>
             /\ Finish(k, [of |-> r(n).p.of, result |-> IF r(n).p.length THEN "whole" ELSE "bare"])
             /\ Go(k, "release") /\ UNCHANGED csock
             /\ toClient' = [toClient EXCEPT ![c] = SubSeq(@, n + 1, Len(@))]
        /\ r(n).status = "body" =>
             /\ Go(k, "body") /\ UNCHANGED <<csock, outcome>>
             /\ toClient' = [toClient EXCEPT ![c] = SubSeq(@, n + 1, Len(@))]
  BY DEF Recv
<1>3. /\ Listens(c)
      /\ \/ pc[k] = "recv" /\ rx[k] = Fresh /\ s = Answer(request[k])
         \/ pc[k] = "body" /\ OneBody(s)
  BY <1>0 DEF UnderWay
<1>4. ~Cut(ts(n))
  BY <1>2
<1>5. \/ r(n).status = "body" /\ OneBody(SubSeq(s, n + 1, Len(s)))
      \/ r(n).status = "done" /\ SubSeq(s, n + 1, Len(s)) = <<>>
  <2>1. CASE pc[k] = "recv" /\ rx[k] = Fresh /\ s = Answer(request[k])
    <3>1. n \in 1 .. Len(s) /\ r(n) = Parse(Fresh, SubSeq(s, 1, n))
      BY <1>2, <2>1
    <3> HIDE DEF s
    <3>2. \/ Cut(SubSeq(s, 1, n))
          \/ Parse(Fresh, SubSeq(s, 1, n)).status = "body" /\ OneBody(SubSeq(s, n + 1, Len(s)))
          \/ Parse(Fresh, SubSeq(s, 1, n)).status = "done" /\ SubSeq(s, n + 1, Len(s)) = <<>>
      BY <1>0, <2>1, <3>1, WholeAnswer
    <3> QED
      BY <1>4, <3>1, <3>2
  <2>2. CASE pc[k] = "body" /\ OneBody(s)
    <3>1. n = 1 /\ s \in Seq(Parts) /\ Len(s) = 1
      BY <1>0, <1>2, <2>2 DEF OneBody, TypeInv
    <3>2. r(n).status = "done"
      BY <2>2
    <3>3. SubSeq(s, n + 1, Len(s)) = <<>>
      BY <3>1, SplitType
    <3> QED
      BY <3>2, <3>3
  <2> QED
    BY <1>3, <2>1, <2>2
<1>6. toClient' = [toClient EXCEPT ![c] = SubSeq(@, n + 1, Len(@))] /\ UNCHANGED csock
  BY <1>2, <1>5
<1>7. /\ toClient'[c] = SubSeq(s, n + 1, Len(s)) /\ \A d \in Conns \ {c} : toClient'[d] = toClient[d]
      /\ \A l \in Clients \ {k} : pc'[l] = pc[l] /\ rx'[l] = rx[l]
  BY <1>0, <1>2, <1>5, <1>6 DEF TypeInv
<1>8. \A l \in Clients : outcome'[l].result = "error" => outcome[l].result = "error"
  <2> HIDE DEF r
  <2> DEFINE o(p) == [of |-> p.of, result |-> IF p.length THEN "whole" ELSE "bare"]
  <2>1. \A p : o(p).result \in {"whole", "bare"}
    OBVIOUS
  <2>2. outcome' = outcome \/ outcome' = [outcome EXCEPT ![k] = o(r(n).p)]
    BY <1>2, <1>5
  <2> HIDE DEF o
  <2>3. o(r(n).p).result # "error"
    BY <2>1
  <2>4. \A l \in Clients : outcome'[l] = outcome[l] \/ outcome'[l] = o(r(n).p)
    BY <1>0, <2>2 DEF TypeInv
  <2> QED
    BY <2>3, <2>4
<1>9. CASE r(n).status = "body" /\ OneBody(SubSeq(s, n + 1, Len(s)))
  <2>1. pc'[k] = "body" /\ OneBody(toClient'[c])
    BY <1>0, <1>2, <1>7, <1>9 DEF TypeInv, OneBody
  <2>2. UnderWay(c, k)'
    BY <1>1, <1>3, <2>1 DEF UnderWay, OneBody, Listens
  <2> QED
    BY <1>1, <1>6, <1>7, <1>8, <2>2
<1>10. CASE r(n).status = "done" /\ SubSeq(s, n + 1, Len(s)) = <<>>
  <2>1. pc'[k] = "release" /\ AtRest(c)'
    BY <1>0, <1>1, <1>2, <1>3, <1>7, <1>10 DEF TypeInv, AtRest, Listens
  <2> QED
    BY <1>1, <1>6, <1>7, <1>8, <2>1
<1> QED
  BY <1>5, <1>9, <1>10

\* A request on its way to the session of its connection.
LEMMA FlowServed ==
  ASSUME BaseInv, NEW k \in Clients, NEW c \in Conns, held[k] = c, pc[k] \in Waits,
         ServerRecv(c), UnderWay(c, k), "cut" \notin faults'
  PROVE  UnderWay(c, k)' /\ session'[c] \in {"body", "handle"}
<1> USE DEF To
<1> DEFINE s == toServer[c]
           ts(n) == SubSeq(s, 1, n)
           r(n) == IF session[c] = "body" THEN [p |-> srx[c], status |-> "done"]
                   ELSE Parse(srx[c], ts(n))
<1>0. /\ TypeInv /\ s # <<>> /\ request[k] \in Requests
      /\ UNCHANGED <<pc, rx, request, toClient>>
  BY DEF BaseInv, ServerRecv, Waits, PlaceInv, clientVars
<1>1. /\ pc[k] = "recv" /\ rx[k] = Fresh /\ toClient[c] = <<>>
      /\ \/ /\ session[c] = "recv" /\ srx[c] = Fresh
            /\ s = Message(request[k], request[k].body)
         \/ session[c] = "body" /\ srx[c].of = request[k] /\ OneBody(s)
  BY <1>0 DEF UnderWay, ServerRecv, Listens
<1>2. PICK n \in 1 .. (IF session[c] = "body" THEN 1 ELSE Len(s)) :
        /\ faults' = IF Cut(ts(n)) THEN faults \cup {"cut"} ELSE faults
        /\ r(n).status \in {"body", "done"} =>
             /\ srx' = [srx EXCEPT ![c] = r(n).p]
             /\ toServer' = [toServer EXCEPT ![c] = SubSeq(@, n + 1, Len(@))]
             /\ To(c, IF r(n).status = "done" THEN "handle" ELSE "body")
  BY DEF ServerRecv
<1>3. ~Cut(ts(n))
  BY <1>2
<1>4. /\ r(n).p.of = request[k]
      /\ \/ r(n).status = "body" /\ OneBody(SubSeq(s, n + 1, Len(s)))
         \/ r(n).status = "done" /\ SubSeq(s, n + 1, Len(s)) = <<>>
  <2>1. CASE session[c] = "recv" /\ srx[c] = Fresh /\ s = Message(request[k], request[k].body)
    <3>1. n \in 1 .. Len(s) /\ r(n) = Parse(Fresh, SubSeq(s, 1, n))
      BY <1>2, <2>1
    <3>2. request[k].body \in BOOLEAN
      BY <1>0 DEF Requests
    <3> DEFINE b == request[k].body
    <3> HIDE DEF s, b
    <3>3. \/ Cut(SubSeq(s, 1, n))
          \/ /\ Parse(Fresh, SubSeq(s, 1, n)).p.of = request[k]
             /\ Parse(Fresh, SubSeq(s, 1, n)).status = "body" /\ OneBody(SubSeq(s, n + 1, Len(s)))
          \/ /\ Parse(Fresh, SubSeq(s, 1, n)).p.of = request[k]
             /\ Parse(Fresh, SubSeq(s, 1, n)).status = "done" /\ SubSeq(s, n + 1, Len(s)) = <<>>
      BY <1>0, <2>1, <3>1, <3>2, WholeMessage
    <3> QED
      BY <1>3, <3>1, <3>3
  <2>2. CASE session[c] = "body" /\ srx[c].of = request[k] /\ OneBody(s)
    <3>1. n = 1 /\ s \in Seq(Parts) /\ Len(s) = 1
      BY <1>0, <1>2, <2>2 DEF OneBody, TypeInv
    <3>2. r(n).status = "done" /\ r(n).p.of = request[k]
      BY <2>2
    <3>3. SubSeq(s, n + 1, Len(s)) = <<>>
      BY <3>1, SplitType
    <3> QED
      BY <3>2, <3>3
  <2> QED
    BY <1>1, <2>1, <2>2
<1>5. /\ srx'[c].of = request[k] /\ toServer'[c] = SubSeq(s, n + 1, Len(s))
      /\ session'[c] = IF r(n).status = "done" THEN "handle" ELSE "body"
  BY <1>0, <1>2, <1>4 DEF TypeInv
<1> HIDE DEF r, s
<1> QED
  BY <1>0, <1>1, <1>4, <1>5 DEF UnderWay, OneBody

\* A connection that a step does not touch.
LEMMA FlowFrame ==
  ASSUME NEW d \in Conns, FlowOf(d),
         csock'[d] = csock[d], toServer'[d] = toServer[d], toClient'[d] = toClient[d],
         session'[d] = session[d], srx'[d] = srx[d], d \in stray' => d \in stray,
         \A l \in Clients : Waiting(l, d)' <=> Waiting(l, d),
         \A l \in Clients : Waiting(l, d) =>
           request'[l] = request[l] /\ rx'[l] = rx[l] /\ pc'[l] = pc[l]
  PROVE  FlowOf(d)'
<1>1. AtRest(d)' <=> AtRest(d)
  BY DEF AtRest, Listens
<1>2. \A l \in Clients : Waiting(l, d) => (UnderWay(d, l)' <=> UnderWay(d, l))
  BY DEF UnderWay, Listens
<1> QED
  BY <1>1, <1>2 DEF FlowOf

\* While no head is cut no parser meets the rest of a message: not a client ...
LEMMA StrayIsCut ==
  ASSUME BaseInv, FlowInv, NEW k \in Clients, RecvStray(k)
  PROVE  "cut" \in faults
<1> SUFFICES ASSUME "cut" \notin faults PROVE FALSE
  OBVIOUS
<1> DEFINE c == held[k]
<1>1. c \in Conns /\ pc[k] \in Waits /\ toClient[c] # <<>>
  BY StrayCases DEF BaseInv, RecvStray
<1>2. csock[c] = "open"
  BY <1>1 DEF BaseInv, OwnerInv, UsedAreOpen, Waits
<1>3. c \notin stray /\ UnderWay(c, k)
  BY <1>1, <1>2 DEF FlowInv, FlowOf, Waiting
<1>4. pc[k] = "recv" /\ toClient[c][1].part \notin {"head", "short"}
  BY <1>3 DEF RecvStray, Leftover
<1>5. toClient[c] = Answer(request[k])
  BY <1>1, <1>3, <1>4 DEF UnderWay
<1>6. request[k] \in Requests
  BY <1>4 DEF BaseInv, PlaceInv
<1> QED
  BY <1>4, <1>5, <1>6, AnswerType, Zenon DEF Answer

\* ... nor the session of a connection that the client has not closed.
LEMMA ServerStrayIsCut ==
  ASSUME BaseInv, FlowInv, NEW c \in Conns, ServerRecvStray(c), csock[c] = "open"
  PROVE  "cut" \in faults
<1> SUFFICES ASSUME "cut" \notin faults PROVE FALSE
  OBVIOUS
<1>1. session[c] \in Waits /\ toServer[c] # <<>>
  BY DEF ServerRecvStray, Waits
<1>2. c \notin stray /\ (AtRest(c) \/ \E k \in Clients : Waiting(k, c) /\ UnderWay(c, k))
  BY DEF FlowInv, FlowOf
<1>3. session[c] = "recv" /\ toServer[c][1].part \notin {"head", "short"}
  BY <1>2 DEF ServerRecvStray, Leftover
<1>4. PICK k \in Clients : Waiting(k, c) /\ UnderWay(c, k)
  BY <1>1, <1>2 DEF AtRest, Listens
<1>5. toServer[c] = Message(request[k], request[k].body) /\ pc[k] = "recv"
  BY <1>1, <1>3, <1>4 DEF UnderWay, Listens
<1>6. request[k] \in Requests
  BY <1>5 DEF BaseInv, PlaceInv
<1>7. request[k].body \in BOOLEAN
  BY <1>6 DEF Requests
<1>8. ASSUME NEW b \in BOOLEAN
      PROVE  Message(request[k], b)[1].part \in {"head", "short"}
  BY <1>6, MessageType
<1> QED
  BY <1>3, <1>5, <1>7, <1>8

\* What a session does while no head is cut.
LEMMA FlowSession ==
  ASSUME BaseInv, FlowInv, "cut" \notin faults, "cut" \notin faults',
         NEW c \in Conns, SessionStep(c) \/ Respond(c), NEW d \in Conns
  PROVE  FlowOf(d)'
<1> USE DEF To
<1>0. TypeInv /\ PlaceInv /\ FlowOf(d) /\ FlowOf(c)
  BY DEF FlowInv, BaseInv
<1>1. UNCHANGED <<csock, pc, held, request, rx>>
  BY <1>0, ServerRecvCases, ServerStrayCases
     DEF SessionStep, ServerRecvFails, CloseSession, Respond, clientVars
<1>2. \A l \in Clients : (Waiting(l, d)' <=> Waiting(l, d)) /\ (Waiting(l, c)' <=> Waiting(l, c))
  BY <1>1 DEF Waiting
<1>3. CASE d # c
  <2>1. /\ toServer'[d] = toServer[d] /\ toClient'[d] = toClient[d]
        /\ session'[d] = session[d] /\ srx'[d] = srx[d] /\ (d \in stray' <=> d \in stray)
    BY <1>0, <1>3, SessionFrame DEF BaseInv
  <2> QED
    BY <1>0, <1>1, <1>2, <2>1, FlowFrame
<1>4. CASE csock[c] # "open" /\ d = c
  BY <1>1, <1>4 DEF FlowOf
<1>5. ASSUME csock[c] = "open", NEW k \in Clients, Waiting(k, c), UnderWay(c, k)', stray' = stray
      PROVE  FlowOf(c)'
  <2>1. \A l \in Clients : Waiting(l, c) => l = k
    BY <1>5, OneWaits DEF Waiting
  <2> QED
    BY <1>0, <1>2, <1>5, <2>1 DEF FlowOf
<1>6. CASE csock[c] = "open" /\ d = c
  <2>1. \/ AtRest(c) /\ \A k \in Clients : ~Waiting(k, c)
        \/ \E k \in Clients : Waiting(k, c) /\ UnderWay(c, k)
    BY <1>0, <1>6 DEF FlowOf
  <2>2. ~ServerRecvStray(c)
    BY <1>6, ServerStrayIsCut
  <2>3. CASE ServerRecv(c)
    <3>1. PICK k \in Clients : Waiting(k, c) /\ UnderWay(c, k)
      BY <2>1, <2>3 DEF AtRest, Listens, ServerRecv
    <3>2. UnderWay(c, k)' /\ stray' = stray
      BY <2>3, <3>1, FlowServed DEF Waiting, ServerRecv
    <3> QED
      BY <1>5, <1>6, <3>1, <3>2
  <2>4. CASE ServerRecvFails(c) \/ CloseSession(c)
    <3>1. Hangup(c) /\ UNCHANGED <<toClient, stray>>
      BY <2>4 DEF ServerRecvFails, CloseSession
    <3>2. Listens(c)'
      BY <1>0, <3>1 DEF Hangup, Listens, TypeInv
    <3>3. CASE AtRest(c) /\ \A k \in Clients : ~Waiting(k, c)
      <4>1. AtRest(c)'
        BY <3>1, <3>2, <3>3 DEF AtRest
      <4> QED
        BY <1>0, <1>2, <1>6, <3>1, <3>3, <4>1 DEF FlowOf
    <3>4. ASSUME NEW k \in Clients, Waiting(k, c), UnderWay(c, k)
          PROVE  FlowOf(c)'
      <4>1. \/ session[c] = "last"
            \/ toServer[c] = <<>> /\ session[c] \in Waits
        BY <2>4 DEF ServerRecvFails, CloseSession, Waits
      <4>2. \/ pc[k] = "recv" /\ rx[k] = Fresh /\ toClient[c] \in {<<>>, Answer(request[k])}
            \/ pc[k] = "body" /\ OneBody(toClient[c])
        BY <3>4, <4>1 DEF UnderWay, OneBody, Waits
      <4>3. UnderWay(c, k)'
        BY <1>1, <3>1, <3>2, <4>2 DEF UnderWay, OneBody
      <4> QED
        BY <1>5, <1>6, <3>1, <3>4, <4>3
    <3> QED
      BY <1>6, <2>1, <3>3, <3>4
  <2>5. CASE Respond(c)
    <3>1. PICK k \in Clients : Waiting(k, c) /\ UnderWay(c, k)
      BY <2>1, <2>5 DEF AtRest, Listens, Respond
    <3>2. /\ session[c] = "handle" /\ pc[k] = "recv" /\ rx[k] = Fresh /\ srx[c].of = request[k]
          /\ toServer[c] = <<>> /\ toClient[c] = <<>>
      BY <2>5, <3>1 DEF UnderWay, Respond, Listens, Waiting, Waits
    <3>3. request[k] \in Requests
      BY <1>0, <3>2 DEF PlaceInv
    <3>4. /\ srx'[c] = Fresh /\ UNCHANGED <<toServer, stray>>
          /\ toClient'[c] = <<>> \o Answer(request[k])
      BY <1>0, <1>6, <2>5, <3>2, <3>3, Zenon DEF Respond, TypeInv, Answer
    <3>5. toClient'[c] = Answer(request[k])
      <4>1. Answer(request[k]) \in Seq(Parts)
        BY <3>3, AnswerType, Zenon DEF Answer
      <4> QED
        BY <3>4, <4>1
    <3>6. session'[c] \in {"recv", "last"}
      BY <1>0, <2>5 DEF Respond, TypeInv
    <3>7. Listens(c)'
      BY <3>2, <3>4, <3>6 DEF Listens
    <3>8. UnderWay(c, k)'
      BY <1>1, <3>2, <3>5, <3>7 DEF UnderWay, Answer
    <3> QED
      BY <1>5, <1>6, <3>1, <3>4, <3>8
  <2> QED
    BY <2>2, <2>3, <2>4, <2>5 DEF SessionStep
<1> QED
  BY <1>3, <1>4, <1>6

\* What a client does to its connection while no head is cut.
LEMMA FlowUse ==
  ASSUME BaseInv, FlowInv, "cut" \notin faults, "cut" \notin faults',
         NEW k \in Clients, NEW c \in Conns, held[k] = c,
         OnConnection(k)
  PROVE  FlowOf(c)'
<1> USE DEF Go, Finish, poolVars, wireVars, sessionVars, clientVars
<1>0. TypeInv /\ PlaceInv /\ FlowOf(c)
  BY DEF FlowInv, BaseInv
<1>1. \A l \in Clients : Waiting(l, c) => l = k
  BY OneWaits
<1>2. CASE Send(k)
  <2>1. /\ pc[k] = "send" /\ UNCHANGED <<csock, toClient, sessionVars, held, request, rx, stray>>
        /\ request[k] \in Requests /\ rx[k] = Fresh
    BY <1>0, <1>2 DEF Send, PlaceInv
  <2>2. csock[c] = "open" /\ AtRest(c) /\ c \notin stray
    <3>1. csock[c] = "open"
      BY <2>1 DEF BaseInv, OwnerInv, UsedAreOpen
    <3>2. \A l \in Clients : ~Waiting(l, c)
      BY <1>1, <2>1 DEF Waiting, Waits
    <3> QED
      BY <1>0, <3>1, <3>2 DEF FlowOf
  <2>3. CASE pc' = [pc EXCEPT ![k] = "release"] /\ toServer' = toServer
    <3>1. \A l \in Clients : ~Waiting(l, c) /\ ~Waiting(l, c)'
      BY <1>0, <1>1, <2>1, <2>3 DEF Waiting, Waits, TypeInv
    <3> QED
      BY <1>0, <2>1, <2>3, <3>1, FlowFrame
  <2>4. ASSUME pc' = [pc EXCEPT ![k] = "recv"],
               toServer' = [toServer EXCEPT ![c] = IF session[c] = "closed" THEN @
                                                   ELSE @ \o Message(request[k], request[k].body)]
        PROVE  FlowOf(c)'
    <3>1. Waiting(k, c)' /\ \A l \in Clients : Waiting(l, c)' => l = k
      BY <1>0, <1>1, <2>1, <2>4 DEF Waiting, Waits, TypeInv
    <3>2. CASE session[c] = "closed"
      <4>1. UnderWay(c, k)'
        BY <1>0, <2>1, <2>2, <2>4, <3>2 DEF UnderWay, AtRest, Listens, TypeInv
      <4> QED
        BY <2>1, <2>2, <3>1, <4>1 DEF FlowOf
    <3>3. CASE session[c] # "closed"
      <4>1. toServer'[c] = <<>> \o Message(request[k], request[k].body)
        BY <1>0, <2>2, <2>4, <3>3 DEF AtRest, Listens, TypeInv
      <4>2. toServer'[c] = Message(request[k], request[k].body)
        <5>1. request[k].body \in BOOLEAN
          BY <2>1 DEF Requests
        <5>2. Message(request[k], request[k].body) \in Seq(Parts)
          BY <2>1, <5>1, MessageType
        <5> QED
          BY <4>1, <5>2
      <4>3. UnderWay(c, k)'
        BY <1>0, <2>1, <2>2, <2>4, <3>3, <4>2 DEF UnderWay, AtRest, Listens, TypeInv
      <4> QED
        BY <2>1, <2>2, <3>1, <4>3 DEF FlowOf
    <3> QED
      BY <3>2, <3>3
  <2> QED
    BY <1>2, <2>3, <2>4 DEF Send
<1>3. CASE Recv(k)
  <2>1. Waiting(k, c) /\ csock[c] = "open"
    BY <1>3 DEF Recv, Waiting, Waits, BaseInv, OwnerInv, UsedAreOpen
  <2>2. UnderWay(c, k)
    BY <1>0, <2>1 DEF FlowOf
  <2>3. /\ UNCHANGED <<held, stray>> /\ \A l \in Clients \ {k} : pc'[l] = pc[l]
        /\ UnderWay(c, k)' \/ (AtRest(c)' /\ pc'[k] = "release")
    BY <1>3, <2>2, FlowRead
  <2>4. \A l \in Clients : Waiting(l, c)' => l = k
    BY <1>1, <2>3 DEF Waiting
  <2>5. UnderWay(c, k)' => Waiting(k, c)'
    BY <2>3 DEF UnderWay, Waiting, Waits
  <2> QED
    BY <1>0, <2>1, <2>3, <2>4, <2>5 DEF FlowOf, Waiting, Waits
<1>4. CASE RecvFails(k)
  <2>1. csock'[c] = "closed"
    BY <1>0, <1>4 DEF RecvFails, GiveUp, TypeInv
  <2> QED
    BY <2>1 DEF FlowOf
<1>5. CASE Release(k)
  <2>1. pc[k] = "release" /\ UNCHANGED <<toServer, session, srx, request, stray>>
    BY <1>5 DEF Release
  <2>2. CASE Discard(c)
    <3>1. csock'[c] = "closed"
      BY <1>0, <1>5, <2>2 DEF Release, TypeInv
    <3> QED
      BY <3>1 DEF FlowOf
  <2>3. CASE ~Discard(c)
    <3>1. UNCHANGED <<csock, toClient>> /\ pc' = [pc EXCEPT ![k] = "idle"]
          /\ held' = [held EXCEPT ![k] = 0]
      BY <1>5, <2>3 DEF Release
    <3>2. \A l \in Clients : ~Waiting(l, c) /\ ~Waiting(l, c)'
      BY <1>0, <1>1, <2>1, <3>1 DEF Waiting, Waits, TypeInv
    <3> QED
      BY <1>0, <2>1, <3>1, <3>2, FlowFrame
  <2> QED
    BY <2>2, <2>3
<1>6. ~RecvStray(k)
  BY StrayIsCut
<1> QED
  BY <1>2, <1>3, <1>4, <1>5, <1>6 DEF OnConnection

LEMMA FlowStep == BaseInv /\ CarryInv /\ FlowInv /\ [Next]_vars => FlowInv'
<1> USE DEF Go, Finish, poolVars, wireVars, sessionVars, clientVars
<1> SUFFICES ASSUME BaseInv, CarryInv, FlowInv, [Next]_vars, "cut" \notin faults', NEW d \in Conns
             PROVE  FlowOf(d)'
  BY DEF FlowInv
<1>0. "cut" \notin faults /\ TypeInv /\ PlaceInv /\ FlowOf(d)
  BY FaultsStay DEF BaseInv, FlowInv
<1>1. ASSUME NEW k \in Clients, NEW close \in plan.closes, NEW body \in plan.bodies,
             GetConnection(k, close, body)
      PROVE  FlowOf(d)'
  BY <1>0, <1>1, GetFrame, FlowFrame
<1>2. ASSUME NEW k \in Clients, Connect(k)
      PROVE  FlowOf(d)'
  <2>1. /\ pc[k] = "connect" /\ UNCHANGED <<toServer, toClient, srx, request, rx>>
    BY <1>2 DEF Connect
  <2>2. CASE UNCHANGED <<csock, held, session, stray>> /\ pc' = [pc EXCEPT ![k] = "idle"]
    <3>1. \A l \in Clients : (Waiting(l, d)' <=> Waiting(l, d)) /\ (Waiting(l, d) => pc'[l] = pc[l])
      BY <1>0, <2>1, <2>2 DEF Waiting, Waits, TypeInv
    <3> QED
      BY <1>0, <2>1, <2>2, <3>1, FlowFrame
  <2>3. ASSUME NEW c \in Conns, Free(c), csock' = [csock EXCEPT ![c] = "open"],
               session' = [session EXCEPT ![c] = "recv"], stray' = stray \ {c},
               held' = [held EXCEPT ![k] = c], pc' = [pc EXCEPT ![k] = "send"]
        PROVE  FlowOf(d)'
    <3>1. \A l \in Clients : Waiting(l, d)' <=> (Waiting(l, d) /\ l # k)
      BY <1>0, <2>3 DEF Waiting, Waits, TypeInv
    <3>2. \A l \in Clients \ {k} : pc'[l] = pc[l]
      BY <1>0, <2>3 DEF TypeInv
    <3>3. CASE d # c
      <4>1. ~Waiting(k, d)
        BY <2>1 DEF Waiting, Waits
      <4>2. csock'[d] = csock[d] /\ session'[d] = session[d] /\ (d \in stray' => d \in stray)
        BY <1>0, <2>3, <3>3 DEF TypeInv
      <4> QED
        BY <1>0, <2>1, <3>1, <3>2, <4>1, <4>2, FlowFrame
    <3>4. CASE d = c
      <4>1. CarryOf(c) /\ csock[c] = "closed" /\ session[c] = "closed"
        BY <2>3 DEF CarryInv, Free
      <4>2. AtRest(c)' /\ c \notin stray'
        BY <1>0, <2>1, <2>3, <4>1 DEF AtRest, Listens, CarryOf, TypeInv
      <4>3. \A l \in Clients : ~Waiting(l, c)'
        BY <2>3, <3>1, <3>4 DEF Free, Waiting
      <4> QED
        BY <3>4, <4>2, <4>3 DEF FlowOf
    <3> QED
      BY <3>3, <3>4
  <2> QED
    BY <1>2, <2>2, <2>3 DEF Connect
<1>3. ASSUME NEW k \in Clients, OnConnection(k)
      PROVE  FlowOf(d)'
  <2>1. PICK c \in Conns : held[k] = c
    BY <1>0, <1>3, HoldsOne
  <2>2. CASE d = c
    BY <1>0, <1>3, <2>1, <2>2, FlowUse
  <2>3. CASE d # c
    <3>1. /\ csock'[d] = csock[d] /\ toServer'[d] = toServer[d] /\ toClient'[d] = toClient[d]
          /\ UNCHANGED <<session, srx, request>> /\ held'[k] \in {c, 0}
          /\ d \in stray' <=> d \in stray
          /\ \A l \in Clients \ {k} : pc'[l] = pc[l] /\ held'[l] = held[l] /\ rx'[l] = rx[l]
      BY <1>3, <2>1, <2>3, ClientFrame
    <3>2. \A l \in Clients : (Waiting(l, d)' <=> Waiting(l, d)) /\ (Waiting(l, d) => l # k)
      BY <2>1, <2>3, <3>1, ConnsFinite DEF Waiting
    <3> QED
      BY <1>0, <3>1, <3>2, FlowFrame
  <2> QED
    BY <2>2, <2>3
<1>4. ASSUME NEW c \in Conns, SessionStep(c) \/ Respond(c)
      PROVE  FlowOf(d)'
  BY <1>0, <1>4, FlowSession
<1>5. CASE UNCHANGED vars
  <2>1. \A l \in Clients : Waiting(l, d)' <=> Waiting(l, d)
    BY <1>5 DEF vars, Waiting
  <2> QED
    BY <1>0, <1>5, <2>1, FlowFrame DEF vars
<1> QED
  BY <1>1, <1>2, <1>3, <1>4, <1>5 DEF Next, ClientStep, OnConnection

LEMMA FlowInit == Init => FlowInv
BY DEF Init, FlowInv, FlowOf

-----------------------------------------------------------------------------
(* How much of the answer.                                                 *)

LEMMA AnnouncedAfterRead ==
  ASSUME NEW s \in Seq(Parts), NEW n \in 1 .. Len(s), Announced(s)
  PROVE  Announced(SubSeq(s, n + 1, Len(s)))
<1> DEFINE rest == SubSeq(s, n + 1, Len(s))
<1>1. /\ Len(rest) = Len(s) - n /\ \A i \in 1 .. Len(rest) : rest[i] = s[n + i]
      /\ Len(s) \in Nat /\ n \in Nat \ {0}
  BY SplitType
<1> HIDE DEF rest
<1>2. ASSUME NEW i \in 1 .. Len(rest)
      PROVE  /\ rest[i].part # "short"
             /\ rest[i].part = "head" => i < Len(rest) /\ rest[i + 1].part = "value"
  <2>1. n + i \in 1 .. Len(s) /\ rest[i] = s[n + i]
    BY <1>1
  <2>2. s[n + i].part # "short"
        /\ (s[n + i].part = "head" => n + i < Len(s) /\ s[(n + i) + 1].part = "value")
    BY <2>1 DEF Announced
  <2>3. n + i < Len(s) => i < Len(rest) /\ i + 1 \in 1 .. Len(rest)
                          /\ rest[i + 1] = s[n + (i + 1)] /\ n + (i + 1) = (n + i) + 1
    BY <1>1
  <2> QED
    BY <2>1, <2>2, <2>3
<1>3. Announced(rest)
  BY <1>2 DEF Announced
<1> QED
  BY <1>3 DEF rest

LEMMA AnnouncedAfterAnswer ==
  ASSUME NEW s \in Seq(Parts), NEW r \in Requests, Announced(s)
  PROVE  Announced(s \o Message(r, TRUE))
<1> DEFINE m == Message(r, TRUE)
           t == s \o m
<1>1. /\ m \in Seq(Parts) /\ Len(m) = 3 /\ Len(s) \in Nat
      /\ m[1].part = "head" /\ m[2].part = "value" /\ m[3].part = "body"
  <2>1. Len(s) \in Nat
    OBVIOUS
  <2> QED
    BY <2>1, AnswerType, Zenon
<1> HIDE DEF m
<1>2. /\ Len(t) = Len(s) + Len(m) /\ Len(m) = 3
      /\ \A i \in 1 .. Len(s) + Len(m) : t[i] = IF i <= Len(s) THEN s[i] ELSE m[i - Len(s)]
  BY <1>1, ConcatProperties
<1> HIDE DEF t
<1>3. ASSUME NEW i \in 1 .. Len(t)
      PROVE  /\ t[i].part # "short"
             /\ t[i].part = "head" => i < Len(t) /\ t[i + 1].part = "value"
  <2>1. CASE i \in 1 .. Len(s)
    <3>1. t[i] = s[i] /\ s[i].part # "short"
          /\ (s[i].part = "head" => i < Len(s) /\ s[i + 1].part = "value")
      BY <1>1, <1>2, <2>1 DEF Announced
    <3>2. i < Len(s) => i < Len(t) /\ t[i + 1] = s[i + 1]
      BY <1>1, <1>2, <2>1
    <3> QED
      BY <3>1, <3>2
  <2>2. CASE i = Len(s) + 1
    <3>1. t[i] = m[1] /\ t[i + 1] = m[2] /\ i < Len(t)
      BY <1>1, <1>2, <2>2
    <3> QED
      BY <1>1, <3>1
  <2>3. CASE i = Len(s) + 2
    <3>1. t[i] = m[2]
      BY <1>1, <1>2, <2>3
    <3> QED
      BY <1>1, <3>1
  <2>4. CASE i = Len(s) + 3
    <3>1. t[i] = m[3]
      BY <1>1, <1>2, <2>4
    <3> QED
      BY <1>1, <3>1
  <2> QED
    BY <1>1, <1>2, <2>1, <2>2, <2>3, <2>4
<1>4. Announced(t)
  BY <1>3 DEF Announced
<1> QED
  BY <1>4 DEF t, m

\* Unless a head has been cut a parser has seen the length when it has seen the
\* head.
LEMMA ReadLength ==
  ASSUME BaseInv, LengthInv, NEW k \in Clients, NEW c \in Conns, NEW n \in Nat,
         NEW p \in ParserStates, ReadBy(k, c, n, p)
  PROVE  p.of # None => p.length \/ "cut" \in faults'
<1>1. CASE rx[k].of # None
  BY <1>1 DEF LengthInv, ReadBy
<1>2. CASE rx[k].of = None
  <2> SUFFICES ASSUME p.of # None PROVE p.length \/ "cut" \in faults'
    OBVIOUS
  <2>1. toClient[c] \in Seq(Parts) /\ n \in 1 .. Len(toClient[c]) /\ Begins(toClient[c][1])
    BY <1>2 DEF ReadBy, BaseInv, TypeInv
  <2>2. Announced(toClient[c])
    BY DEF LengthInv
  <2>3. toClient[c][1].part = "head"
    <3>1. 1 \in 1 .. Len(toClient[c])
      BY <2>1
    <3> QED
      BY <2>1, <2>2, <3>1 DEF Announced, Begins
  <2>4. n > 1 => p.length
    BY <1>2, <2>2 DEF ReadBy
  <2>5. n = 1 => "cut" \in faults'
    BY <2>3 DEF ReadBy
  <2> QED
    BY <2>1, <2>4, <2>5
<1> QED
  BY <1>1, <1>2

\* Only reads, releases and answers change what LengthInv is about.
LEMMA LengthStep == BaseInv /\ FlowInv /\ LengthInv /\ [Next]_vars => LengthInv'
<1> SUFFICES ASSUME BaseInv, FlowInv, LengthInv, [Next]_vars
             PROVE  LengthInv'
  OBVIOUS
<1>0. TypeInv /\ PlaceInv /\ faults \subseteq faults'
  BY FaultsStay DEF BaseInv
<1>1. ASSUME UNCHANGED <<toClient, rx>>
      PROVE  LengthInv'
  BY <1>0, <1>1 DEF LengthInv
<1>2. Announced(<<>>)
  BY DEF Announced
<1>3. ASSUME NEW k \in Clients, GiveUp(k)
      PROVE  \A d \in Conns : Announced(toClient'[d])
  BY <1>0, <1>2, <1>3 DEF GiveUp, LengthInv, TypeInv
<1>4. ASSUME NEW k \in Clients, Recv(k)
      PROVE  LengthInv'
  <2>0. PICK n \in Nat, p \in ParserStates : ReadBy(k, held[k], n, p)
    BY <1>0, <1>4, RecvCases
  <2>1. held[k] \in Conns /\ pc[k] \in Waits
    BY <1>0, <1>4, RecvCases
  <2>2. \A l \in Clients : rx'[l].of # None /\ ~rx'[l].length => "cut" \in faults'
    <3>1. p.of # None => p.length \/ "cut" \in faults'
      BY <2>0, <2>1, ReadLength
    <3>2. rx' = [rx EXCEPT ![k] = p]
      BY <2>0 DEF ReadBy
    <3> QED
      BY <1>0, <3>1, <3>2 DEF LengthInv, TypeInv
  <2>3. CASE ~GiveUp(k)
    <3>1. /\ toClient' = [toClient EXCEPT ![held[k]] = SubSeq(@, n + 1, Len(@))]
          /\ n \in 1 .. Len(toClient[held[k]])
      BY <2>0, <2>3 DEF ReadBy
    <3>2. Announced(toClient'[held[k]])
      BY <1>0, <2>1, <3>1, AnnouncedAfterRead DEF LengthInv, TypeInv
    <3>3. \A d \in Conns : Announced(toClient'[d])
      BY <1>0, <2>1, <3>1, <3>2 DEF LengthInv, TypeInv
    <3> QED
      BY <2>2, <3>3 DEF LengthInv
  <2> QED
    BY <1>3, <2>2, <2>3 DEF LengthInv
<1>5. ASSUME NEW k \in Clients, RecvFails(k)
      PROVE  LengthInv'
  BY <1>0, <1>3, <1>5 DEF RecvFails, LengthInv
<1>6. ASSUME NEW k \in Clients, Release(k)
      PROVE  LengthInv'
  <2>1. \A d \in Conns : Announced(toClient'[d])
    BY <1>0, <1>2, <1>6 DEF Release, LengthInv, TypeInv
  <2> QED
    BY <1>0, <1>6, <2>1, FreshType DEF Release, LengthInv, TypeInv
<1>7. ASSUME NEW c \in Conns, Respond(c)
      PROVE  LengthInv'
  <2>1. srx[c].of \in Requests /\ toClient[c] \in Seq(Parts) /\ Announced(toClient[c])
    BY <1>0, <1>7 DEF Respond, PlaceInv, TypeInv, LengthInv
  <2>2. Announced(toClient[c] \o Message(srx[c].of, TRUE))
    BY <2>1, AnnouncedAfterAnswer
  <2>3. \A d \in Conns : Announced(toClient'[d])
    BY <1>0, <1>7, <2>2 DEF Respond, TypeInv, LengthInv
  <2> QED
    BY <1>0, <1>7, <2>3 DEF Respond, clientVars, LengthInv
<1>8. ASSUME NEW k \in Clients, Connect(k) \/ Send(k)
      PROVE  LengthInv'
  BY <1>1, <1>8 DEF Connect, Send, wireVars
<1>9. ASSUME NEW k \in Clients, NEW close, NEW body, GetConnection(k, close, body)
      PROVE  LengthInv'
  BY <1>1, <1>9 DEF GetConnection, wireVars
<1>10. ASSUME NEW c \in Conns, SessionStep(c)
       PROVE  LengthInv'
  BY <1>0, <1>1, <1>10, ServerRecvCases, ServerStrayCases
     DEF SessionStep, ServerRecvFails, CloseSession, clientVars
<1>11. CASE UNCHANGED vars
  BY <1>1, <1>11 DEF vars, wireVars, clientVars
<1>12. ASSUME NEW k \in Clients, RecvStray(k)
       PROVE  LengthInv'
  <2> DEFINE c == held[k]
  <2>1. "cut" \in faults' /\ c \in Conns
    BY <1>0, <1>12, StrayIsCut, StrayCases
  <2>2. CASE ~GiveUp(k)
    <3>1. PICK n \in 1 .. Len(toClient[c]) : toClient' = [toClient EXCEPT ![c] = SubSeq(@, n + 1, Len(@))]
      BY <1>0, <1>12, <2>2, StrayCases
    <3>2. Announced(SubSeq(toClient[c], n + 1, Len(toClient[c])))
      BY <1>0, <2>1, AnnouncedAfterRead DEF LengthInv, TypeInv
    <3>3. \A d \in Conns : Announced(toClient'[d])
      BY <1>0, <2>1, <3>1, <3>2 DEF LengthInv, TypeInv
    <3> QED
      BY <2>1, <3>3 DEF LengthInv
  <2> QED
    BY <1>3, <2>1, <2>2 DEF LengthInv
<1> QED
  BY <1>4, <1>5, <1>6, <1>7, <1>8, <1>9, <1>10, <1>11, <1>12 DEF Next, ClientStep

LEMMA LengthInit == Init => LengthInv
BY FreshType DEF Init, LengthInv, Announced

\* What a client has got.
LEMMA OwnStep ==
  BaseInv /\ CarryInv /\ FlowInv /\ StrayInv /\ LengthInv /\ OwnAnswer /\ [Next]_vars => OwnAnswer'
<1> SUFFICES ASSUME BaseInv, CarryInv, FlowInv, StrayInv, LengthInv, OwnAnswer, [Next]_vars
             PROVE  OwnAnswer'
  OBVIOUS
<1>0. TypeInv /\ PlaceInv /\ faults \subseteq faults' /\ plan' = plan
  BY FaultsStay, PlanStays DEF BaseInv
<1>1. ASSUME UNCHANGED <<outcome, request>>
      PROVE  OwnAnswer'
  BY <1>0, <1>1 DEF OwnAnswer
<1>2. ASSUME NEW k \in Clients, \A l \in Clients \ {k} : request'[l] = request[l],
             NEW o, outcome' = [outcome EXCEPT ![k] = o], o.result \notin {"whole", "bare", "stray"}
      PROVE  OwnAnswer'
  BY <1>0, <1>2 DEF OwnAnswer, TypeInv
<1>3. ASSUME NEW k \in Clients, Recv(k)
      PROVE  OwnAnswer'
  <2>1. /\ held[k] \in Conns /\ pc[k] \in Waits /\ request' = request
        /\ \E n \in Nat, p \in ParserStates : ReadBy(k, held[k], n, p)
    BY <1>0, <1>3, RecvCases
  <2>2. PICK n \in Nat, p \in ParserStates : ReadBy(k, held[k], n, p)
    BY <2>1
  <2>3. CASE GiveUp(k)
    BY <1>2, <2>1, <2>3 DEF GiveUp, Finish, Failed
  <2>4. CASE ~GiveUp(k) /\ outcome' # outcome
    <3>0. p.of = request[k]
      BY <1>3, <2>1, <2>2, <2>4, CarryRead
    <3>1. p.length \/ "cut" \in faults'
      <4>1. p.of # None
        BY <2>2, <2>4, NoneIsNoRequest DEF ReadBy
      <4> QED
        BY <2>1, <2>2, <4>1, ReadLength
    <3>2. outcome' = [outcome EXCEPT ![k] =
                        [of |-> p.of, result |-> IF p.length THEN "whole" ELSE "bare"]]
      BY <2>2, <2>4 DEF ReadBy, Finish
    <3> QED
      BY <1>0, <2>1, <3>0, <3>1, <3>2 DEF OwnAnswer, TypeInv
  <2> QED
    BY <1>1, <2>1, <2>3, <2>4
<1>4. ASSUME NEW k \in Clients, Connect(k) \/ Send(k) \/ RecvFails(k)
      PROVE  OwnAnswer'
  <2>1. request' = request /\ Failed.result = "error"
    BY <1>4 DEF Connect, Send, RecvFails, Failed
  <2>2. outcome' = outcome \/ outcome' = [outcome EXCEPT ![k] = Failed]
    BY <1>4 DEF Connect, Send, RecvFails, GiveUp, Finish
  <2> QED
    BY <1>1, <1>2, <2>1, <2>2
<1>5. ASSUME NEW k \in Clients, NEW close, NEW body, GetConnection(k, close, body)
      PROVE  OwnAnswer'
  <2>1. /\ request' = [request EXCEPT ![k] = [nr |-> asked + 1, close |-> close, body |-> body]]
        /\ outcome' = [outcome EXCEPT ![k] = [of |-> None, result |-> "none"]]
    BY <1>5, Zenon DEF GetConnection, Finish
  <2>2. \A l \in Clients \ {k} : request'[l] = request[l]
    BY <1>0, <2>1 DEF TypeInv
  <2> QED
    BY <1>2, <2>1, <2>2
<1>6. ASSUME NEW k \in Clients, Release(k)
      PROVE  OwnAnswer'
  BY <1>1, <1>6 DEF Release
<1>7. ASSUME NEW c \in Conns, SessionStep(c) \/ Respond(c)
      PROVE  OwnAnswer'
  BY <1>0, <1>1, <1>7, ServerRecvCases, ServerStrayCases
     DEF SessionStep, ServerRecvFails, CloseSession, Respond, clientVars
<1>8. CASE UNCHANGED vars
  BY <1>1, <1>8 DEF vars, clientVars
<1>9. ASSUME NEW k \in Clients, RecvStray(k)
      PROVE  OwnAnswer'
  <2>1. /\ "cut" \in faults' /\ request' = request
        /\ GiveUp(k) \/ outcome' = outcome
             \/ \E r \in Requests : Finish(k, [of |-> r, result |-> "stray"])
    BY <1>0, <1>9, StrayIsCut, StrayCases
  <2>2. plan.mimics
    BY <1>9 DEF RecvStray, StrayInv
  <2>3. CASE GiveUp(k)
    BY <1>2, <2>1, <2>3 DEF GiveUp, Finish, Failed
  <2>4. ASSUME NEW r \in Requests, Finish(k, [of |-> r, result |-> "stray"])
        PROVE  OwnAnswer'
    BY <1>0, <2>1, <2>2, <2>4 DEF OwnAnswer, Finish, TypeInv
  <2> QED
    BY <1>1, <2>1, <2>3, <2>4
<1> QED
  BY <1>3, <1>4, <1>5, <1>6, <1>7, <1>8, <1>9 DEF Next, ClientStep

LEMMA StrayStep == BaseInv /\ StrayInv /\ [Next]_vars => StrayInv'
<1> SUFFICES ASSUME BaseInv, StrayInv, [Next]_vars PROVE StrayInv'
  OBVIOUS
<1>0. plan' = plan
  BY PlanStays
<1>1. ASSUME stray' \subseteq stray
      PROVE  StrayInv'
  BY <1>0, <1>1 DEF StrayInv
<1>2. ASSUME NEW k \in Clients, RecvStray(k)
      PROVE  StrayInv'
  BY <1>0, <1>2 DEF RecvStray, StrayInv
<1>3. ASSUME NEW c \in Conns, ServerRecvStray(c)
      PROVE  StrayInv'
  BY <1>0, <1>3 DEF ServerRecvStray, StrayInv
<1>4. ASSUME NEW k \in Clients, Connect(k) \/ Send(k) \/ Recv(k) \/ RecvFails(k) \/ Release(k)
      PROVE  StrayInv'
  BY <1>1, <1>4 DEF Connect, Send, Recv, RecvFails, Release
<1>5. ASSUME NEW c \in Conns,
             ServerRecv(c) \/ ServerRecvFails(c) \/ CloseSession(c) \/ Respond(c)
      PROVE  StrayInv'
  BY <1>1, <1>5 DEF ServerRecv, ServerRecvFails, CloseSession, Respond
<1>6. ASSUME NEW k \in Clients, NEW close, NEW body, GetConnection(k, close, body)
      PROVE  StrayInv'
  BY <1>1, <1>6 DEF GetConnection
<1>7. CASE UNCHANGED vars
  BY <1>1, <1>7 DEF vars
<1> QED
  BY <1>2, <1>3, <1>4, <1>5, <1>6, <1>7 DEF Next, ClientStep, SessionStep

\* What a client gets is the answer to its own request, and all of it unless a
\* head has been cut, or it is made of the rest of a message that a cut head has
\* left in the socket.
THEOREM AnswersAreOwn == Spec => []OwnAnswer
<1> DEFINE Inv == CarryInv /\ FlowInv /\ StrayInv /\ LengthInv /\ OwnAnswer
<1>1. Init => Inv
  BY CarryInit, FlowInit, LengthInit DEF Init, OwnAnswer, StrayInv
<1>2. BaseInv /\ Inv /\ [Next]_vars => Inv'
  BY CarryStep, FlowStep, StrayStep, LengthStep, OwnStep
<1>3. Inv => OwnAnswer
  OBVIOUS
<1> HIDE DEF Inv
<1> QED
  BY <1>1, <1>2, <1>3, BaseCorrect, PTL DEF Spec

-----------------------------------------------------------------------------
(* While nothing goes wrong.                                               *)

\* The session is there as long as its client's end is, so that sending and
\* receiving do not fail.
LEMMA SmoothResult ==
  ASSUME BaseInv, FlowInv, SmoothInv, faults = {}, faults' = {}, plan.keepalive, [Next]_vars,
         NEW l \in Clients
  PROVE  SmoothClient(l)'
<1> USE DEF Go, Finish, poolVars, wireVars, sessionVars, clientVars
<1>0. TypeInv /\ PlaceInv /\ SmoothClient(l)
  BY DEF SmoothInv, BaseInv
<1>1. ASSUME outcome'[l] = outcome[l], request'[l] = request[l], pc'[l] # "idle" => pc[l] # "idle"
      PROVE  SmoothClient(l)'
  BY <1>0, <1>1 DEF SmoothClient
<1>2. ASSUME NEW k \in Clients, NEW close \in plan.closes, NEW body \in plan.bodies,
             GetConnection(k, close, body)
      PROVE  SmoothClient(l)'
  <2>1. close \in BOOLEAN /\ ~close
    BY <1>0, <1>2, ExchangeAssumption DEF TypeInv, PlanType, GetConnection
  <2>2. /\ request' = [request EXCEPT ![k] = [nr |-> asked + 1, close |-> close, body |-> body]]
        /\ outcome' = [outcome EXCEPT ![k] = [of |-> None, result |-> "none"]]
        /\ \A j \in Clients \ {k} : pc'[j] = pc[j]
    <3>1. /\ request' = [request EXCEPT ![k] = [nr |-> asked + 1, close |-> close, body |-> body]]
          /\ outcome' = [outcome EXCEPT ![k] = [of |-> None, result |-> "none"]]
          /\ \E p : pc' = [pc EXCEPT ![k] = p]
      BY <1>2, Zenon DEF GetConnection
    <3> QED
      BY <1>0, <3>1 DEF TypeInv
  <2>3. CASE l = k
    BY <1>0, <2>1, <2>2, <2>3 DEF SmoothClient, TypeInv
  <2>4. CASE l # k
    BY <1>0, <1>1, <2>2, <2>4 DEF TypeInv
  <2> QED
    BY <2>3, <2>4
<1>3. ASSUME NEW k \in Clients, Connect(k)
      PROVE  SmoothClient(l)'
  BY <1>0, <1>1, <1>3 DEF Connect, TypeInv
<1>4. ASSUME NEW k \in Clients, Send(k) \/ Recv(k) \/ RecvFails(k)
      PROVE  SmoothClient(l)'
  <2>1. PICK c \in Conns : held[k] = c /\ csock[c] = "open" /\ FlowOf(c) /\ SmoothConn(c)
    <3>1. held[k] \in Conns /\ csock[held[k]] = "open"
      <4>1. pc[k] \in {"send", "recv", "body"}
        BY <1>4 DEF Send, Recv, RecvFails
      <4>2. held[k] \in Conns
        BY <1>0, <4>1 DEF BaseInv, PlaceInv, HasConnection, TypeInv
      <4>3. csock[held[k]] = "open"
        BY <1>0, <4>1 DEF BaseInv, OwnerInv, UsedAreOpen
      <4> QED
        BY <4>2, <4>3
    <3> QED
      BY <3>1 DEF SmoothInv, FlowInv
  <2>2. pc[k] \in Waits => UnderWay(c, k)
    BY <2>1 DEF FlowOf, Waiting
  <2>3. CASE Send(k)
    <3>1. session[c] # "closed"
      BY <2>1 DEF SmoothConn
    <3>2. outcome' = outcome /\ request' = request /\ pc[k] = "send"
          /\ \A j \in Clients \ {k} : pc'[j] = pc[j]
      BY <1>0, <2>1, <2>3, <3>1 DEF Send, TypeInv
    <3> QED
      BY <1>1, <3>2
  <2>4. CASE Recv(k)
    <3>1. pc[k] \in Waits
      BY <2>4 DEF Recv, Waits
    <3>2. /\ request' = request /\ \A j \in Clients \ {k} : pc'[j] = pc[j]
          /\ \A j \in Clients : outcome'[j].result = "error" => outcome[j].result = "error"
      BY <2>1, <2>2, <2>4, <3>1, FlowRead
    <3> QED
      BY <1>0, <3>1, <3>2 DEF SmoothClient, Waits
  <2>5. CASE RecvFails(k)
    <3>1. session[c] # "closed"
      BY <2>1 DEF SmoothConn
    <3> QED
      BY <2>1, <2>5, <3>1 DEF RecvFails
  <2> QED
    BY <1>4, <2>3, <2>4, <2>5
<1>5. ASSUME NEW k \in Clients, Release(k)
      PROVE  SmoothClient(l)'
  BY <1>0, <1>1, <1>5 DEF Release, TypeInv
<1>6. ASSUME NEW c \in Conns, SessionStep(c) \/ Respond(c)
      PROVE  SmoothClient(l)'
  BY <1>0, <1>1, <1>6, ServerRecvCases, ServerStrayCases
     DEF SessionStep, ServerRecvFails, CloseSession, Respond
<1>7. CASE UNCHANGED vars
  BY <1>1, <1>7 DEF vars
<1>8. ASSUME NEW k \in Clients, RecvStray(k)
      PROVE  FALSE
  BY <1>8 DEF RecvStray
<1> QED
  BY <1>2, <1>3, <1>4, <1>5, <1>6, <1>7, <1>8 DEF Next, ClientStep

LEMMA SmoothStep == BaseInv /\ FlowInv /\ SmoothInv /\ [Next]_vars => SmoothInv'
<1> USE DEF Go, To, Finish, poolVars, wireVars, sessionVars, clientVars
<1> SUFFICES ASSUME BaseInv, FlowInv, SmoothInv, [Next]_vars, faults' = {}, plan'.keepalive,
                    NEW d \in Conns, csock'[d] = "open"
             PROVE  session'[d] \notin {"last", "closed"}
  <2>1. ASSUME BaseInv, FlowInv, SmoothInv, [Next]_vars, faults' = {}, plan'.keepalive,
               NEW l \in Clients
        PROVE  SmoothClient(l)'
    BY <2>1, PlanStays, FaultsStay, SmoothResult
  <2> QED
    BY <2>1 DEF SmoothInv, SmoothConn
<1>0. faults = {} /\ plan.keepalive /\ TypeInv /\ PlaceInv
  BY PlanStays, FaultsStay DEF BaseInv, SmoothInv
<1>a. csock[d] = "open" => session[d] \notin {"last", "closed"}
  BY <1>0 DEF SmoothInv, SmoothConn
<1>1. ASSUME NEW k \in Clients, NEW close \in plan.closes, NEW body \in plan.bodies,
             GetConnection(k, close, body)
      PROVE  session'[d] \notin {"last", "closed"}
  BY <1>a, <1>1 DEF GetConnection
<1>2. ASSUME NEW k \in Clients, Connect(k)
      PROVE  session'[d] \notin {"last", "closed"}
  BY <1>0, <1>a, <1>2 DEF Connect, TypeInv
<1>3. ASSUME NEW k \in Clients, OnConnection(k)
      PROVE  session'[d] \notin {"last", "closed"}
  <2>1. session' = session
    BY <1>0, <1>3, RecvCases, StrayCases DEF OnConnection, Send, RecvFails, Release
  <2>2. csock[d] = "open"
    <3>1. held[k] \in Conns
      BY <1>0, <1>3, HoldsOne
    <3>2. csock' = csock \/ csock' = [csock EXCEPT ![held[k]] = "closed"]
      BY <1>0, <1>3 DEF OnConnection, Send, Recv, RecvStray, RecvFails, Release, GiveUp
    <3> QED
      BY <1>0, <3>1, <3>2 DEF TypeInv
  <2> QED
    BY <1>a, <2>1, <2>2
<1>4. ASSUME NEW c \in Conns, SessionStep(c) \/ Respond(c)
      PROVE  session'[d] \notin {"last", "closed"}
  <2>1. csock' = csock
    BY <1>0, <1>4, ServerRecvCases, ServerStrayCases
       DEF SessionStep, ServerRecvFails, CloseSession, Respond
  <2>2. CASE d # c
    <3>1. session'[d] = session[d]
      BY <1>4, <2>2, SessionFrame
    <3> QED
      BY <1>a, <2>1, <3>1
  <2>3. CASE d = c
    <3>1. csock[c] = "open" /\ session[c] \notin {"last", "closed"} /\ FlowOf(c)
      BY <1>0, <1>a, <2>1, <2>3 DEF FlowInv
    <3>2. ~ServerRecvStray(c) /\ ~ServerRecvFails(c) /\ ~CloseSession(c)
      BY <3>1 DEF ServerRecvStray, ServerRecvFails, CloseSession
    <3>3. \/ AtRest(c)
          \/ \E k \in Clients : Waiting(k, c) /\ UnderWay(c, k)
      BY <3>1 DEF FlowOf
    <3>4. CASE ServerRecv(c)
      <4>1. PICK k \in Clients : Waiting(k, c) /\ UnderWay(c, k)
        BY <3>3, <3>4 DEF AtRest, Listens, ServerRecv
      <4>2. session'[c] \in {"body", "handle"}
        BY <3>4, <4>1, FlowServed DEF Waiting
      <4> QED
        BY <2>3, <4>2
    <3>5. CASE Respond(c)
      <4>1. PICK k \in Clients : Waiting(k, c) /\ UnderWay(c, k)
        BY <3>3, <3>5 DEF AtRest, Listens, Respond
      <4>2. srx[c].of = request[k] /\ pc[k] = "recv"
        BY <3>5, <4>1 DEF UnderWay, Listens, Respond, Waiting, Waits
      <4>3. ~request[k].close
        BY <1>0, <4>2 DEF SmoothInv, SmoothClient
      <4>4. session' = [session EXCEPT ![c] = "recv"]
        BY <1>0, <3>5, <4>2, <4>3 DEF Respond, Last
      <4> QED
        BY <1>0, <2>3, <4>4 DEF TypeInv
    <3> QED
      BY <1>4, <3>2, <3>4, <3>5 DEF SessionStep
  <2> QED
    BY <2>2, <2>3
<1>5. CASE UNCHANGED vars
  BY <1>a, <1>5 DEF vars
<1> QED
  BY <1>1, <1>2, <1>3, <1>4, <1>5 DEF Next, ClientStep, OnConnection

\* While the server keeps connections and nothing has been cut, refused, closed
\* or late, no request fails.
THEOREM FailuresHaveCauses == Spec => []FailsForCause
<1> DEFINE Inv == CarryInv /\ FlowInv /\ SmoothInv
<1>1. Init => Inv
  BY CarryInit, FlowInit DEF Init, SmoothInv, SmoothClient, SmoothConn
<1>2. BaseInv /\ Inv /\ [Next]_vars => Inv'
  BY CarryStep, FlowStep, SmoothStep
<1>3. Inv => FailsForCause
  BY DEF SmoothInv, SmoothClient, FailsForCause
<1> HIDE DEF Inv
<1> QED
  BY <1>1, <1>2, <1>3, BaseCorrect, PTL DEF Spec

================================================================================
