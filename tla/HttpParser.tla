----------------------------- MODULE HttpParser -----------------------------
(***************************************************************************)
(* A parser of http11 (http11_parser.cpp, httpclient_parser.cpp) fed by    *)
(* HttpRequestParser or HttpResponseParser (HttpParser.cpp) with what the  *)
(* socket delivers, piece by piece, until it is finished or has an error   *)
(* (the first loops of recvRequest and recvResponse).                      *)
(*                                                                         *)
(* A character moves the generated automaton along an arc, whose actions   *)
(* then run one by one.  Texts are given to the callbacks as the distance  *)
(* from a register (mark, field_start, query_start) to the character read. *)
(* Of a register the model keeps what has happened since it was set; a new *)
(* call of execute() sets mark and field_start to the start of the buffer, *)
(* and leaves query_start, an offset into the buffer of an earlier call.   *)
(***************************************************************************)
EXTENDS HttpGrammar

VARIABLES
  kind,      \* which parser
  relaxed,   \* uri_relaxed, which nobody initialises
  status,    \* what the reading loop has made of it
  cs,        \* state of the automaton
  todo,      \* actions of the arc taken that are still to run
  stopped,   \* execute() leaves its loop: fbreak, or the state 0
  read,      \* characters read in this call of execute(): 0, 1, many (2)
  since,     \* per register: callbacks, and "call", since it was set
  named,     \* field_len # 0
  ahead,     \* query_start # 0
  m_error,   \* the wrapper's m_error
  reported,  \* history: the part reported last
  expect,    \* history: what the grammar expects
  due        \* history: actions the grammar demands, still to run

parserVars == <<stopped, since, named, ahead, m_error>>
vars == <<kind, relaxed, status, cs, todo, parserVars, read, reported, expect, due>>

Registers == {"mark", "field_start", "query_start"}

\* {"unset"}: zero by http_parser_init, or not initialised at all.
Init ==
  /\ kind \in {"request", "response"}
  /\ relaxed \in IF kind = "request" THEN BOOLEAN ELSE {FALSE}
  /\ status = "parsing" /\ cs = 1 /\ todo = <<>> /\ stopped = FALSE /\ read = 0
  /\ since = [r \in Registers |-> {"unset"}]
  /\ named = FALSE /\ ahead = FALSE /\ m_error = FALSE
  /\ reported = "none" /\ expect = {<<"main">>} /\ due = {}

Inputs ==
  IF kind = "response" THEN ResponseChars
  ELSE RequestChars \ IF relaxed THEN {"^", "{", "}"} ELSE Relaxed

\* Mutant: a fragment's start is not marked.
BadArcs(s) ==
  {[a EXCEPT !.do = IF @ = <<"mark", "fragment">> THEN <<"fragment">> ELSE @] :
     a \in IF kind = "request" THEN ReqDelta[s] ELSE RspDelta[s]}

\* The cases of the generated switch for state s.
ArcsFrom(s) == IF kind = "request" THEN ReqDelta[s] ELSE RspDelta[s]

\* One turn of the loop: the next character of the buffer.
Read ==
  /\ status = "parsing" /\ todo = <<>> /\ ~stopped
  /\ LET arcs == ArcsFrom(cs)
         options == Options(kind, expect)
     IN \E c \in Inputs :
          LET wanted == After(kind, options, c) IN
          /\ expect' = wanted.expect /\ due' = wanted.acts
          /\ \/ \E a \in arcs : c \in a.on /\ cs' = a.to /\ todo' = a.do /\ stopped' = FALSE
             \/ /\ \A a \in arcs : c \notin a.on
                /\ cs' = 0 /\ todo' = <<>> /\ stopped' = TRUE
  /\ read' = IF read = 0 THEN 1 ELSE 2
  /\ UNCHANGED <<kind, relaxed, status, since, named, ahead, m_error, reported>>

\* The buffer is used up, or the loop was left: execute() returns to the loop
\* that reads, which closes the connection, is content, or calls it again.
HasError == m_error \/ cs = 0

\* Mutant: the first final state does not count.
BadIsFinished == ~HasError /\ IF kind = "request" THEN cs > 348 ELSE cs = 120

IsFinished == ~HasError /\ IF kind = "request" THEN cs >= 348 ELSE cs = 120

\* The registers at the start of the next call.
ResetRegisters ==
  [r \in Registers |-> IF r = "query_start" THEN since[r] \cup {"call"} ELSE {"call"}]

ExecuteReturns ==
  /\ status = "parsing" /\ todo = <<>> /\ read > 0
  /\ status' = IF HasError THEN "refused" ELSE IF IsFinished THEN "complete" ELSE "parsing"
  /\ since' = ResetRegisters
  /\ named' = FALSE /\ stopped' = FALSE /\ read' = 0
  /\ UNCHANGED <<kind, relaxed, cs, todo, ahead, m_error, reported, expect, due>>

-----------------------------------------------------------------------------
(* The actions.                                                            *)

\* Mutant: the actions of an arc run in the opposite order.
BadPerform(a) ==
  /\ status = "parsing" /\ todo # <<>> /\ Last(todo) = a
  /\ todo' = Front(todo) /\ due' = due \ {a}
  /\ UNCHANGED <<kind, relaxed, status, cs, read, expect>>

Perform(a) ==
  /\ status = "parsing" /\ todo # <<>> /\ Head(todo) = a
  /\ todo' = Tail(todo) /\ due' = due \ {a}
  /\ UNCHANGED <<kind, relaxed, status, cs, read, expect>>

SetRegister(r) ==
  /\ since' = [since EXCEPT ![r] = {}]
  /\ UNCHANGED <<stopped, named, m_error, reported>>

Mark == Perform("mark") /\ SetRegister("mark") /\ UNCHANGED ahead
StartValue == Perform("start_value") /\ SetRegister("mark") /\ UNCHANGED ahead
StartField == Perform("start_field") /\ SetRegister("field_start") /\ UNCHANGED ahead

\* Mutant: the query is measured from the wrong register.
BadStartQuery == Perform("start_query") /\ SetRegister("mark") /\ UNCHANGED ahead

StartQuery ==
  /\ Perform("start_query") /\ SetRegister("query_start")
  /\ ahead' = (read > 1)

\* The text from register r to the character read is not empty.
NonEmpty(r) == "call" \notin since[r] \/ read > 1

WriteField ==
  /\ Perform("write_field")
  /\ named' = NonEmpty("field_start")
  /\ UNCHANGED <<stopped, since, ahead, m_error, reported>>

\* A callback: it is remembered in every register set before it.
Report(a) ==
  /\ Perform(a)
  /\ reported' = a
  /\ since' = [r \in Registers |-> since[r] \cup {a}]

\* Callbacks whose handler accepts any text.  http_field drops a header
\* without a name, which leaves no trace here.
Plain == {"request_uri", "request_path", "fragment", "status_code", "reason_phrase",
          "chunk_size"}
ReportPlain == \E a \in Plain : Report(a) /\ UNCHANGED <<stopped, named, ahead, m_error>>
WriteValue == Report("write_value") /\ UNCHANGED <<stopped, named, ahead, m_error>>

\* The query began in an earlier call, and not where that call's buffer does.
StaleQuery == "call" \in since["query_start"] /\ ahead

\* on_request_query is handed what lies between query_start and the character
\* read.  A stale query_start may lie behind that character, and does behind the
\* first one: LEN is negative and std::string throws length_error.  Otherwise
\* some of this call's buffer is missing in the text.
QueryString ==
  /\ Report("query_string")
  /\ ~(StaleQuery /\ read = 1)
  /\ UNCHANGED <<stopped, named, ahead, m_error>>

QueryThrows ==
  /\ status = "parsing" /\ todo # <<>> /\ Head(todo) = "query_string" /\ StaleQuery
  /\ status' = "thrown"
  /\ UNCHANGED <<kind, relaxed, cs, todo, parserVars, read, reported, expect, due>>

\* on_request_method: an unknown name is error 1000, the parsing goes on.
RequestMethod ==
  /\ Report("request_method")
  /\ \E known \in BOOLEAN : m_error' = (m_error \/ ~known)
  /\ UNCHANGED <<stopped, named, ahead>>

\* on_request_version, on_response_version: strncmp over the length of the
\* text, so an empty text matches and the end of a version does not.
Matches(whole, known) ==
  IF whole THEN kind = "request" => known ELSE known = (read = 1)

HttpVersion ==
  /\ Report("http_version")
  /\ \E known \in BOOLEAN :
       /\ Matches("call" \notin since["mark"], known)
       /\ m_error' = (m_error \/ ~known)
  /\ UNCHANGED <<stopped, named, ahead>>

\* Numbers and flags of the message.
Noted == {"xml", "json", "write_content_len", "write_connection_close", "trans_chunked"}
Note == \E a \in Noted : Perform(a) /\ UNCHANGED <<parserVars, reported>>

\* header_done() and fbreak.
Done ==
  /\ Report("done")
  /\ stopped' = TRUE
  /\ UNCHANGED <<named, ahead, m_error>>

Next ==
  \/ Read \/ ExecuteReturns
  \/ Mark \/ StartValue \/ StartField \/ StartQuery \/ WriteField
  \/ ReportPlain \/ QueryString \/ QueryThrows \/ WriteValue \/ RequestMethod \/ HttpVersion \/ Note \/ Done

Spec == Init /\ [][Next]_vars

-----------------------------------------------------------------------------
(* Properties.                                                             *)

\* The generated automaton is that of the grammar: it gives up exactly when no
\* message begins with what was read, is in a final state exactly when the
\* message is complete, and has run exactly the actions the grammar embeds.
AutomatonIsGrammar ==
  /\ cs = 0 <=> expect = {}
  /\ cs # 0 => ToSet(todo) = due
  /\ cs \in (IF kind = "request" THEN {348, 349} ELSE 120..123) <=> <<>> \in expect

\* The register each callback measures its text from, and the parts that may
\* have been reported since it was set: none but those inside the text.
Uses(a) == IF a = "query_string" THEN {"query_start"}
           ELSE IF a = "write_value" THEN {"mark", "field_start"} ELSE {"mark"}
Inside(a) == CASE a = "request_uri" -> {"request_path", "query_string"}
               [] a = "query_string" -> {"request_path"}
               [] OTHER -> {}

\* A response's field whose value was reported empty at the end of its line is
\* reported again if space* goes on over that end: "Content-Length:", LF, "5".
Again(a, r) == IF kind = "response" /\ r = "field_start" THEN {a} ELSE {}

\* A callback is given the text of the part it is named for: its registers have
\* been set for this part, or, of a part split over two calls, stand at the start
\* of this call's buffer; a header whose field has not been split has its name.
\* The exception, written in, is a split query (StaleQuery): query_start is not
\* reset, so the callback throws or gets less than this call's share.
OwnText ==
  LET part == Head(todo) IN
  /\ status = "parsing" /\ todo # <<>>
  /\ part \in Plain \cup {"query_string", "write_value", "request_method", "http_version"}
  /\ ~(part = "query_string" /\ StaleQuery)
  =>
  /\ \A r \in Uses(part) : since[r] \subseteq {"call"} \cup Inside(part) \cup Again(part, r)
  /\ kind = "request" /\ part = "write_value" /\ "call" \notin since["field_start"] => named

\* The parts of a message are reported in their order.
Message == INSTANCE HttpMessage
ReportsInOrder == Message!Spec

\* Finished means that the end of the head has been reported, and for a request
\* the converse holds too: once it has, the reading loop stops.
FinishedIsReported ==
  /\ IsFinished /\ todo = <<>> => reported = "done"
  /\ kind = "request" /\ reported = "done" => HasError \/ IsFinished

=============================================================================
