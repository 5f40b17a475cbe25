----------------------------- MODULE HttpGrammar -----------------------------
(***************************************************************************)
(* The grammars of http11_parser.rl and httpclient_parser.rl, from which   *)
(* the automata are generated (see Grammar).                               *)
(*                                                                         *)
(* Ragel reads a - b as the difference of two languages, so "1"-"9" is the *)
(* digit 1 alone and 0 - 31 the byte 0, and it reads a number as a byte:   *)
(* 6( h16 ":" ) is the byte 6 followed by one h16 ":".  The rules say what *)
(* the grammars say, not what RFC 3986 says.                               *)
(***************************************************************************)
EXTENDS RequestMachine, ResponseMachine, Grammar, SequencesExt, TLC

RequestSets ==
  [alpha |-> Alpha, digit |-> Digit, xdigit |-> Hex,
   upper_digit |-> Upper \cup Digit,
   any |-> RequestChars,
   not_ctl |-> RequestChars \ {"NUL", "DEL"},
   token |-> Token,
   space |-> {"HT", "LF", "VT", "CR", "SP"},
   more_scheme |-> Alpha \cup Digit \cup {"+", "-", "."},
   pchar1 |-> Pchar,
   name1 |-> UriChar,
   colon_name1 |-> UriChar \cup {":"},
   at_name1 |-> UriChar \cup {"@"},
   xml_name |-> Alpha \cup Digit \cup {"-", "."},
   blank |-> {"SP", "HT"}, brace |-> {"{", "{r"}, unbrace |-> {"}", "}r"},
   xml_end |-> {"/", ">", "HT", "LF", "VT", "CR", "SP"}]

UriRules ==
  [pct_encoded |-> {<<"%", "xdigit", "xdigit">>},
   pchar |-> {<<"pchar1">>, <<"pct_encoded">>},
   reg_char |-> {<<"name1">>, <<"pct_encoded">>},
   user_char |-> {<<"colon_name1">>, <<"pct_encoded">>},
   nc_char |-> {<<"at_name1">>, <<"pct_encoded">>},
   query_char |-> {<<"pchar">>, <<"/">>, <<"?">>},
   slash_segment |-> {<<"/", "pchar_s">>},
   path_rootless |-> {<<"pchar", "pchar_s", "slash_segment_s">>},
   path_noscheme |-> {<<"nc_char", "nc_char_s", "slash_segment_s">>},
   path_absolute |-> {<<"/">>, <<"/", "path_rootless">>},
   dec_octet |-> {<<"digit">>, <<"1", "digit">>, <<"1", "digit", "digit">>,
                  <<"2", "0", "digit">>, <<"2", "5", "0">>},
   IPv4address |-> {<<"dec_octet", ".", "dec_octet", ".", "dec_octet", ".", "dec_octet">>},
   h16 |-> {<<"xdigit">>, <<"xdigit", "xdigit">>, <<"xdigit", "xdigit", "xdigit">>,
            <<"xdigit", "xdigit", "xdigit", "xdigit">>},
   ls32 |-> {<<"h16", ":", "h16">>, <<"IPv4address">>},
   piece |-> {<<"h16", ":">>},
   pieces1 |-> {<<"piece", "piece_s", "h16">>},
   pieces2 |-> {<<"piece", "pieces1">>}, pieces3 |-> {<<"piece", "pieces2">>},
   pieces4 |-> {<<"piece", "pieces3">>}, pieces5 |-> {<<"piece", "pieces4">>},
   pieces6 |-> {<<"piece", "pieces5">>},
   IPv6address |->
     {<<"ACK", "piece", "ls32">>, <<":", ":", "ENQ", "piece", "ls32">>}
     \cup {p \o <<":", ":", "EOT", "piece", "ls32">> : p \in {<<>>, <<"h16">>}}
     \cup {p \o <<":", ":", "ETX", "piece", "ls32">> : p \in {<<>>, <<"pieces1">>}}
     \cup {p \o <<":", ":", "STX", "piece", "ls32">> : p \in {<<>>, <<"pieces2">>}}
     \cup {p \o <<":", ":", "piece", "ls32">> : p \in {<<>>, <<"pieces3">>}}
     \cup {p \o <<":", ":", "ls32">> : p \in {<<>>, <<"pieces4">>}}
     \cup {p \o <<":", ":", "h16">> : p \in {<<>>, <<"pieces5">>}}
     \cup {p \o <<":", ":">> : p \in {<<>>, <<"pieces6">>}},
   IPvFuture |-> {<<"v", "xdigit", "xdigit_s", ".", "colon_name1", "colon_name1_s">>},
   host |-> {<<"[", "IPv6address", "]">>, <<"[", "IPvFuture", "]">>,
             <<"IPv4address">>, <<"reg_char_s">>},
   authority |-> {u \o <<"host">> \o p :
                    u \in {<<>>, <<"user_char_s", "@">>},
                    p \in {<<>>, <<":", "digit_s">>}},
   net_path |-> {<<"/", "/", "authority", "slash_segment_s">>},
   relative_part |-> {<<"net_path">>, <<"path_absolute">>, <<"path_noscheme">>, <<>>},
   hier_part |-> {<<"net_path">>, <<"path_absolute">>, <<"path_rootless">>, <<>>},
   opt_query |-> {<<>>, <<"?", "start_query", "query_char_s", "query_string">>},
   opt_fragment |-> {<<>>, <<"#", "mark", "query_char_s", "fragment">>}]

RequestRules == UriRules @@
  [CRLF |-> {<<"CR", "LF">>, <<"LF">>},
   URI_reference |->
     {<<"mark", "relative_part", "request_path", "opt_query", "request_uri", "opt_fragment">>,
      <<"alpha", "more_scheme_s", ":",
        "mark", "hier_part", "request_path", "opt_query", "request_uri", "opt_fragment">>},
   Method |-> {<<"mark">> \o [i \in 1..n |-> "upper_digit"] \o <<"request_method">> : n \in 1..20},
   HTTP_Version |-> {<<"mark", "H", "T", "T", "P", "/", "1", ".", d, "http_version">> :
                       d \in {"0", "1"}},
   Request_Line |-> {<<"Method", "SP", "URI_reference", "SP", "HTTP_Version", "CRLF">>},
   lws |-> {<<"blank", "blank_s">>, <<"CRLF", "blank", "blank_s">>},
   content |-> {<<"not_ctl">>, <<"lws">>},
   message_header |-> {<<"start_field", "token", "token_s", "write_field", ":", "lws_s",
                         "start_value", "content_s", "write_value", "guard", "CRLF">>},
   Request |-> {<<"Request_Line", "message_header_s", "CRLF", "done">>},
   SocketJSON |-> {<<"mark", "@", "relative_part", "request_path", "SP",
                     "mark", "brace", "any_s", "unbrace", "guard", "NUL", "json", "done">>},
   SocketXML |-> {<<"mark", "<", "xml_name", "xml_name_s", "request_path", "xml_end", "any_s", ">",
                    "guard", "NUL", "xml", "done">>},
   main |-> {<<"Request">>, <<"SocketJSON">>, <<"SocketXML">>}]

RequestRepeats ==
  [pchar_s |-> "pchar", nc_char_s |-> "nc_char", reg_char_s |-> "reg_char",
   user_char_s |-> "user_char", query_char_s |-> "query_char",
   slash_segment_s |-> "slash_segment", piece_s |-> "piece", xdigit_s |-> "xdigit",
   digit_s |-> "digit", xml_name_s |-> "xml_name", colon_name1_s |-> "colon_name1", more_scheme_s |-> "more_scheme",
   blank_s |-> "blank", lws_s |-> "lws", content_s |-> "content", token_s |-> "token",
   message_header_s |-> "message_header", any_s |-> "any"]

-----------------------------------------------------------------------------

ResponseSets ==
  [digit |-> RspDigit, xdigit |-> RspHex, token |-> RspToken, any |-> ResponseChars,
   space |-> Space, not_lf |-> ResponseChars \ {"LF"},
   h |-> {"H", "h"}, t |-> {"T", "t"}]

ResponseRules ==
  [CRLF |-> {<<"CR", "LF">>, <<"LF">>},
   HTTP_Version |-> {<<"mark", "H", "T", "T", "P", "/", "digit", "digit_s", ".",
                       "digit", "digit_s", "http_version">>},
   Status_Line |-> {<<"HTTP_Version", "SP", "mark", "digit", "digit_s", "status_code", "SP",
                      "mark", "not_lf", "not_lf_s", "reason_phrase", "guard", "CRLF">>},
   fields |-> {<<"start_field", "token", "token_s", "write_field", ":", "space_s",
                 "start_value", "any_s", "write_value", "guard", "CRLF">>},
   Content_Length |-> {<<"C", "O", "N", "t", "E", "N", "t", "-", "L", "E", "N", "G", "t", "h">>},
   content_length |-> {<<"start_field", "Content_Length", "write_field", ":", "space_s",
                         "start_value", "digit", "digit_s",
                         "write_content_len", "write_value", "CRLF">>},
   conn_close |-> {<<"C", "O", "N", "N", "E", "C", "t", "I", "O", "N", ":", "space_s",
                     "C", "L", "O", "S", "E", "CRLF", "write_connection_close">>},
   Transfer_Encoding |-> {<<"t", "R", "A", "N", "S", "F", "E", "R", "-",
                            "E", "N", "C", "O", "D", "I", "N", "G">>},
   transfer_encoding_chunked |->
     {<<"start_field", "Transfer_Encoding", "write_field", ":", "space_s",
        "start_value", "C", "h", "U", "N", "K", "E", "D", "write_value", "CRLF", "trans_chunked">>},
   message_header |->
     {<<"transfer_encoding_chunked">>, <<"conn_close">>, <<"content_length">>, <<"fields">>},
   chunk_ext |-> {<<";", "start_field", "token", "token_s", "write_field", "start_value",
                    "opt_ext_val", "write_value">>},
   opt_ext_val |-> {<<>>, <<"=", "start_value", "token", "token_s">>},
   Chunked_Header |-> {<<"mark", "xdigit", "xdigit_s", "chunk_size", "chunk_ext_s",
                         "guard", "CRLF", "done">>},
   main |-> {<<"Status_Line", "message_header_s", "CRLF", "done">>, <<"Chunked_Header">>}]

ResponseRepeats ==
  [digit_s |-> "digit", xdigit_s |-> "xdigit", not_lf_s |-> "not_lf", token_s |-> "token",
   space_s |-> "space", any_s |-> "any", message_header_s |-> "message_header",
   chunk_ext_s |-> "chunk_ext"]

-----------------------------------------------------------------------------

Finishing == {"done", "xml", "json", "trans_chunked"}
Actions == Finishing \cup
  {"guard", "mark", "start_field", "write_field", "start_value", "write_value",
   "request_method", "request_uri", "fragment", "start_query", "query_string",
   "http_version", "request_path", "write_content_len", "write_connection_close",
   "reason_phrase", "status_code", "chunk_size"}

GrammarOf ==
  [request |-> [sets |-> RequestSets, rules |-> RequestRules, repeats |-> RequestRepeats,
                actions |-> Actions, finishing |-> Finishing],
   response |-> [sets |-> ResponseSets, rules |-> ResponseRules, repeats |-> ResponseRepeats,
                 actions |-> Actions, finishing |-> Finishing]]

\* What may come next when one of the sequences in expect must follow.
Options(kind, expect) == UNION {Expand(GrammarOf[kind], <<>>, s) : s \in expect}

\* What remains after character c, and the actions to be performed on it.
After(kind, options, c) ==
  LET kept == GoOn(GrammarOf[kind], options, c)
  IN  [expect |-> {o.rest : o \in kept}, acts |-> Passed(kept)]

=============================================================================
