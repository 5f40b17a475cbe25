----------------------------- MODULE HttpMessage -----------------------------
(***************************************************************************)
(* What the HTTP parsers promise their callbacks: the order in which the   *)
(* parts of a message are reported, each named after the action that       *)
(* reports it (write_value: a header field).                               *)
(***************************************************************************)
VARIABLES
  kind,       \* "request" or "response", for good
  reported    \* the part reported last

\* A request line, or the path of a socket message, then fields, then done.
\* A status line and fields, or the size of a chunk and its extensions.
Follows ==
  [request |->
     [none |-> {"request_method", "request_path"},
      request_method |-> {"request_path"},
      request_path |-> {"query_string", "request_uri", "done"},
      query_string |-> {"request_uri"},
      request_uri |-> {"fragment", "http_version"},
      fragment |-> {"http_version"},
      http_version |-> {"write_value", "done"},
      write_value |-> {"write_value", "done"},
      done |-> {}],
   response |->
     [none |-> {"http_version", "chunk_size"},
      http_version |-> {"status_code"},
      status_code |-> {"reason_phrase"},
      reason_phrase |-> {"write_value", "done"},
      chunk_size |-> {"write_value", "done"},
      write_value |-> {"write_value", "done"},
      done |-> {"write_value"}]]

Init == kind \in {"request", "response"} /\ reported = "none"

Report == reported' \in Follows[kind][reported] /\ UNCHANGED kind

Spec == Init /\ [][Report]_<<kind, reported>>

=============================================================================
