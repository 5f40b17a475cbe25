------------------------------ MODULE ResponseMachine ------------------------------
(***************************************************************************)
(* The automaton of httpclient_parser.cpp as it was generated, laid out    *)
(* like RequestMachine.  "other" stands for a byte no state singles out    *)
(* (a separator, a control character, a byte above 127), "!" for a token   *)
(* character, a capital for the letter in both cases, except in HTTP,      *)
(* which is spelt with "H", "T" and "P".                                   *)
(***************************************************************************)
EXTENDS Automaton

RspDigit == {"0"}
RspHex == {"0", "A", "B", "C", "D", "E", "F"}
Blank == {"HT", "SP"}
Space == Blank \cup {"LF", "CR"}
RspToken == {"!", "-", ".", "0", "A", "B", "C", "D", "E", "F", "G", "H", "I",
  "K", "L", "N", "O", "P", "R", "S", "T", "U", "h", "t"}
ResponseChars == {"other", "HT", "LF", "CR", "SP", "!", "-", ".", "/", "0",
  ":", ";", "=", "A", "B", "C", "D", "E", "F", "G", "H", "I", "K", "L", "N",
  "O", "P", "R", "S", "T", "U", "h", "t"}

Rsp1to2 == UNION {
  Go({1}, RspHex, 2, <<"mark">>),
  Go({1}, {"H"}, 8, <<"mark">>),
  Go({2}, RspHex, 2, <<>>),
  Go({2}, {"LF"}, 120, <<"chunk_size", "done">>),
  Go({2}, {"CR"}, 3, <<"chunk_size">>),
  Go({2}, {";"}, 4, <<"chunk_size">>)}

Rsp3to5 == UNION {
  Go({3}, {"LF"}, 120, <<"done">>),
  Go({4}, RspToken, 5, <<"start_field">>),
  Go({5}, RspToken, 5, <<>>),
  Go({5}, {"LF"}, 120, <<"write_field", "start_value", "write_value", "done">>),
  Go({5}, {"CR"}, 3, <<"write_field", "start_value", "write_value">>),
  Go({5}, {";"}, 4, <<"write_field", "start_value", "write_value">>),
  Go({5}, {"="}, 6, <<"write_field", "start_value">>)}

Rsp6to15 == UNION {
  Go({6}, RspToken, 7, <<"start_value">>),
  Go({7}, RspToken, 7, <<>>),
  Go({7}, {"LF"}, 120, <<"write_value", "done">>),
  Go({7}, {"CR"}, 3, <<"write_value">>),
  Go({7}, {";"}, 4, <<"write_value">>),
  Ahead({8, 9}, {"T"}, 1, <<>>),
  Go({10}, {"P"}, 11, <<>>),
  Go({11}, {"/"}, 12, <<>>),
  Go({12, 13}, {"0"}, 13, <<>>),
  Go({13}, {"."}, 14, <<>>),
  Go({14, 15}, {"0"}, 15, <<>>),
  Go({15}, {"SP"}, 16, <<"http_version">>)}

Rsp16to20 == UNION {
  Go({16}, {"0"}, 17, <<"mark">>),
  Go({17}, {"SP"}, 18, <<"status_code">>),
  Go({17}, {"0"}, 17, <<>>),
  Go({18}, ResponseChars \ {"LF"}, 19, <<"mark">>),
  Go({19}, ResponseChars \ {"LF", "CR"}, 19, <<>>),
  Go({19}, {"LF"}, 20, <<"reason_phrase">>),
  Go({19}, {"CR"}, 24, <<"reason_phrase">>),
  Go({20}, RspToken \ {"C", "T", "t"}, 21, <<"start_field">>),
  Go({20}, {"T", "t"}, 44, <<"start_field">>),
  Go({20}, {"LF"}, 120, <<"done">>),
  Go({20}, {"CR"}, 3, <<>>),
  Go({20}, {"C"}, 25, <<"start_field">>)}

Rsp21to24 == UNION {
  Go({21}, RspToken, 21, <<>>),
  Go({21}, {":"}, 22, <<"write_field">>),
  Go({22}, ResponseChars \ {"HT", "LF", "CR", "SP"}, 23, <<"start_value">>),
  Go({22}, Blank, 22, <<"start_value">>),
  Go({22}, {"LF"}, 20, <<"start_value", "write_value">>),
  Go({22}, {"CR"}, 24, <<"start_value", "write_value">>),
  Go({23}, ResponseChars \ {"LF", "CR"}, 23, <<>>),
  Go({23}, {"LF"}, 20, <<"write_value">>),
  Go({23}, {"CR"}, 24, <<"write_value">>),
  Go({24}, {"LF"}, 20, <<>>)}

Rsp25to28 == UNION {
  Go(25..28, {":"}, 22, <<"write_field">>),
  Go({25}, RspToken \ {"O"}, 21, <<>>),
  Go({25}, {"O"}, 26, <<>>),
  Go({26}, RspToken \ {"N"}, 21, <<>>),
  Ahead({26, 27}, {"N"}, 1, <<>>),
  Go({27}, RspToken \ {"N", "T", "t"}, 21, <<>>),
  Go({27}, {"T", "t"}, 101, <<>>),
  Go({28}, RspToken \ {"E"}, 21, <<>>),
  Go({28}, {"E"}, 29, <<>>)}

Rsp29to33 == UNION {
  Go(29..33, {":"}, 22, <<"write_field">>),
  Go({29}, RspToken \ {"C"}, 21, <<>>),
  Go({29}, {"C"}, 30, <<>>),
  Go({30}, RspToken \ {"T", "t"}, 21, <<>>),
  Go({30}, {"T", "t"}, 31, <<>>),
  Go({31}, RspToken \ {"I"}, 21, <<>>),
  Go({31}, {"I"}, 32, <<>>),
  Go({32}, RspToken \ {"O"}, 21, <<>>),
  Go({32}, {"O"}, 33, <<>>),
  Go({33}, RspToken \ {"N"}, 21, <<>>),
  Go({33}, {"N"}, 34, <<>>)}

Rsp34to41 == UNION {
  Go({34}, RspToken, 21, <<>>),
  Go({34}, {":"}, 35, <<"write_field">>),
  Go({35}, ResponseChars \ {"HT", "LF", "CR", "SP", "C"}, 23, <<"start_value">>),
  Go({35}, Blank, 35, <<"start_value">>),
  Go({35}, {"LF"}, 36, <<"start_value", "write_value">>),
  Go({35}, {"CR"}, 95, <<"start_value", "write_value">>),
  Go({35}, {"C"}, 96, <<"start_value">>),
  Go({36}, RspToken \ {"C", "T", "t"}, 21, <<"start_field">>),
  Go({36}, Blank, 37, <<>>),
  Go({36}, {"T", "t"}, 44, <<"start_field">>),
  Go({36}, {"LF"}, 122, <<"done">>),
  Go({36}, {"CR"}, 89, <<>>),
  Go({36}, {"C"}, 90, <<"start_field">>),
  Go({37}, Space, 37, <<>>),
  Go({37}, {"C"}, 38, <<>>),
  Go({38}, {"L"}, 39, <<>>),
  Go({39}, {"O"}, 40, <<>>),
  Go({40}, {"S"}, 41, <<>>),
  Go({41}, {"E"}, 42, <<>>)}

Rsp42to45 == UNION {
  Go({42}, {"LF"}, 43, <<>>),
  Go({42}, {"CR"}, 88, <<>>),
  Go({43}, RspToken \ {"C", "T", "t"}, 21, <<"write_connection_close", "start_field">>),
  Go({43}, {"T", "t"}, 44, <<"write_connection_close", "start_field">>),
  Go({43}, {"LF"}, 120, <<"write_connection_close", "done">>),
  Go({43}, {"CR"}, 3, <<"write_connection_close">>),
  Go({43}, {"C"}, 25, <<"write_connection_close", "start_field">>),
  Go({44}, RspToken \ {"R"}, 21, <<>>),
  Go({44, 45}, {":"}, 22, <<"write_field">>),
  Go({44}, {"R"}, 45, <<>>),
  Go({45}, RspToken \ {"A"}, 21, <<>>),
  Go({45}, {"A"}, 46, <<>>)}

Rsp46to50 == UNION {
  Go(46..50, {":"}, 22, <<"write_field">>),
  Go({46}, RspToken \ {"N"}, 21, <<>>),
  Go({46}, {"N"}, 47, <<>>),
  Go({47}, RspToken \ {"S"}, 21, <<>>),
  Go({47}, {"S"}, 48, <<>>),
  Go({48}, RspToken \ {"F"}, 21, <<>>),
  Go({48}, {"F"}, 49, <<>>),
  Go({49}, RspToken \ {"E"}, 21, <<>>),
  Go({49}, {"E"}, 50, <<>>),
  Go({50}, RspToken \ {"R"}, 21, <<>>),
  Go({50}, {"R"}, 51, <<>>)}

Rsp51to55 == UNION {
  Go(51..55, {":"}, 22, <<"write_field">>),
  Go({51}, RspToken \ {"-"}, 21, <<>>),
  Go({51}, {"-"}, 52, <<>>),
  Go({52}, RspToken \ {"E"}, 21, <<>>),
  Go({52}, {"E"}, 53, <<>>),
  Go({53}, RspToken \ {"N"}, 21, <<>>),
  Go({53}, {"N"}, 54, <<>>),
  Go({54}, RspToken \ {"C"}, 21, <<>>),
  Go({54}, {"C"}, 55, <<>>),
  Go({55}, RspToken \ {"O"}, 21, <<>>),
  Go({55}, {"O"}, 56, <<>>)}

Rsp56to60 == UNION {
  Go(56..59, {":"}, 22, <<"write_field">>),
  Go({56}, RspToken \ {"D"}, 21, <<>>),
  Go({56}, {"D"}, 57, <<>>),
  Go({57}, RspToken \ {"I"}, 21, <<>>),
  Go({57}, {"I"}, 58, <<>>),
  Go({58}, RspToken \ {"N"}, 21, <<>>),
  Go({58}, {"N"}, 59, <<>>),
  Go({59}, RspToken \ {"G"}, 21, <<>>),
  Go({59}, {"G"}, 60, <<>>),
  Go({60}, RspToken, 21, <<>>),
  Go({60}, {":"}, 61, <<"write_field">>)}

Rsp61to69 == UNION {
  Go({61}, ResponseChars \ {"HT", "LF", "CR", "SP", "C"}, 23, <<"start_value">>),
  Go({61}, Blank, 61, <<"start_value">>),
  Go({61}, {"LF"}, 62, <<"start_value", "write_value">>),
  Go({61}, {"CR"}, 80, <<"start_value", "write_value">>),
  Go({61}, {"C"}, 81, <<"start_value">>),
  Go({62}, RspToken \ {"C", "T", "t"}, 21, <<"start_field">>),
  Go({62}, Blank, 63, <<>>),
  Go({62}, {"T", "t"}, 44, <<"start_field">>),
  Go({62}, {"LF"}, 121, <<"done">>),
  Go({62}, {"CR"}, 72, <<>>),
  Go({62}, {"C"}, 73, <<"start_value", "start_field">>),
  Go({63}, Space, 63, <<>>),
  Go({63}, {"C"}, 64, <<"start_value">>),
  Go({64}, {"H", "h"}, 65, <<>>),
  Go({65}, {"U"}, 66, <<>>),
  Go({66}, {"N"}, 67, <<>>),
  Go({67}, {"K"}, 68, <<>>),
  Go({68}, {"E"}, 69, <<>>),
  Go({69}, {"D"}, 70, <<>>)}

Rsp70to74 == UNION {
  Go({70}, {"LF"}, 20, <<"write_value", "trans_chunked">>),
  Go({70}, {"CR"}, 71, <<"write_value">>),
  Go({71}, {"LF"}, 20, <<"trans_chunked">>),
  Go({72, 121}, {"C"}, 64, <<"start_value">>),
  Go({72}, Space \ {"LF"}, 63, <<>>),
  Go({72}, {"LF"}, 121, <<"done">>),
  Go({73}, RspToken \ {"H", "O", "h"}, 21, <<>>),
  Go({73, 74}, {":"}, 22, <<"write_field">>),
  Go({73}, {"H", "h"}, 74, <<>>),
  Go({73}, {"O"}, 26, <<>>),
  Go({74}, RspToken \ {"U"}, 21, <<>>),
  Go({74}, {"U"}, 75, <<>>),
  Go({121}, Space, 63, <<>>)}

Rsp75to79 == UNION {
  Go(75..79, {":"}, 22, <<"write_field">>),
  Go({75}, RspToken \ {"N"}, 21, <<>>),
  Go({75}, {"N"}, 76, <<>>),
  Go({76}, RspToken \ {"K"}, 21, <<>>),
  Go({76}, {"K"}, 77, <<>>),
  Go({77}, RspToken \ {"E"}, 21, <<>>),
  Go({77}, {"E"}, 78, <<>>),
  Go({78}, RspToken \ {"D"}, 21, <<>>),
  Go({78}, {"D"}, 79, <<>>),
  Go({79}, RspToken, 21, <<>>),
  Go({79}, {"LF"}, 20, <<"write_value", "trans_chunked">>),
  Go({79}, {"CR"}, 71, <<"write_value">>)}

Rsp80to88 == UNION {
  Go({80}, Space \ {"LF"}, 63, <<>>),
  Go({80}, {"LF"}, 62, <<>>),
  Go({80}, {"C"}, 64, <<"start_value">>),
  Go(81..86, {"LF"}, 20, <<"write_value">>),
  Go(81..86, {"CR"}, 24, <<"write_value">>),
  Go({81}, ResponseChars \ {"LF", "CR", "H", "h"}, 23, <<>>),
  Go({81}, {"H", "h"}, 82, <<>>),
  Go({82}, ResponseChars \ {"LF", "CR", "U"}, 23, <<>>),
  Go({82}, {"U"}, 83, <<>>),
  Go({83}, ResponseChars \ {"LF", "CR", "N"}, 23, <<>>),
  Go({83}, {"N"}, 84, <<>>),
  Go({84}, ResponseChars \ {"LF", "CR", "K"}, 23, <<>>),
  Go({84}, {"K"}, 85, <<>>),
  Go({85}, ResponseChars \ {"LF", "CR", "E"}, 23, <<>>),
  Go({85}, {"E"}, 86, <<>>),
  Go({86}, ResponseChars \ {"LF", "CR", "D"}, 23, <<>>),
  Go({86}, {"D"}, 87, <<>>),
  Go({87}, ResponseChars \ {"LF", "CR"}, 23, <<>>),
  Go({87}, {"LF"}, 20, <<"write_value", "trans_chunked">>),
  Go({87}, {"CR"}, 71, <<"write_value">>),
  Go({88}, {"LF"}, 43, <<>>),
  Go({122}, Space, 37, <<>>),
  Go({122}, {"C"}, 38, <<>>)}

Rsp89to93 == UNION {
  Go({89}, Space \ {"LF"}, 37, <<>>),
  Go({89}, {"LF"}, 122, <<"done">>),
  Go({89}, {"C"}, 38, <<>>),
  Go(90..93, {":"}, 22, <<"write_field">>),
  Go({90}, RspToken \ {"L", "O"}, 21, <<>>),
  Go({90}, {"L"}, 91, <<>>),
  Go({90}, {"O"}, 26, <<>>),
  Go({91}, RspToken \ {"O"}, 21, <<>>),
  Go({91}, {"O"}, 92, <<>>),
  Go({92}, RspToken \ {"S"}, 21, <<>>),
  Go({92}, {"S"}, 93, <<>>),
  Go({93}, RspToken \ {"E"}, 21, <<>>),
  Go({93}, {"E"}, 94, <<>>)}

Rsp94to101 == UNION {
  Go({94}, RspToken, 21, <<>>),
  Go({94, 101}, {":"}, 22, <<"write_field">>),
  Go({94}, {"LF"}, 43, <<>>),
  Go({94}, {"CR"}, 88, <<>>),
  Go({95}, Space \ {"LF"}, 37, <<>>),
  Go({95}, {"LF"}, 36, <<>>),
  Go({95}, {"C"}, 38, <<>>),
  Go(96..99, {"LF"}, 20, <<"write_value">>),
  Go(96..99, {"CR"}, 24, <<"write_value">>),
  Go({96}, ResponseChars \ {"LF", "CR", "L"}, 23, <<>>),
  Go({96}, {"L"}, 97, <<>>),
  Go({97}, ResponseChars \ {"LF", "CR", "O"}, 23, <<>>),
  Go({97}, {"O"}, 98, <<>>),
  Go({98}, ResponseChars \ {"LF", "CR", "S"}, 23, <<>>),
  Go({98}, {"S"}, 99, <<>>),
  Go({99}, ResponseChars \ {"LF", "CR", "E"}, 23, <<>>),
  Ahead({99, 101}, {"E"}, 1, <<>>),
  Go({100}, ResponseChars \ {"LF", "CR"}, 23, <<>>),
  Go({100}, {"LF"}, 43, <<"write_value">>),
  Go({100}, {"CR"}, 88, <<"write_value">>),
  Go({101}, RspToken \ {"E"}, 21, <<>>)}

Rsp102to106 == UNION {
  Go(102..106, {":"}, 22, <<"write_field">>),
  Go({102}, RspToken \ {"N"}, 21, <<>>),
  Go({102}, {"N"}, 103, <<>>),
  Go({103}, RspToken \ {"T", "t"}, 21, <<>>),
  Go({103}, {"T", "t"}, 104, <<>>),
  Go({104}, RspToken \ {"-"}, 21, <<>>),
  Go({104}, {"-"}, 105, <<>>),
  Go({105}, RspToken \ {"L"}, 21, <<>>),
  Go({105}, {"L"}, 106, <<>>),
  Go({106}, RspToken \ {"E"}, 21, <<>>),
  Go({106}, {"E"}, 107, <<>>)}

Rsp107to111 == UNION {
  Go(107..110, {":"}, 22, <<"write_field">>),
  Go({107}, RspToken \ {"N"}, 21, <<>>),
  Go({107}, {"N"}, 108, <<>>),
  Go({108}, RspToken \ {"G"}, 21, <<>>),
  Go({108}, {"G"}, 109, <<>>),
  Go({109}, RspToken \ {"T", "t"}, 21, <<>>),
  Go({109}, {"T", "t"}, 110, <<>>),
  Go({110}, RspToken \ {"H", "h"}, 21, <<>>),
  Go({110}, {"H", "h"}, 111, <<>>),
  Go({111}, RspToken, 21, <<>>),
  Go({111}, {":"}, 112, <<"write_field">>)}

Rsp112to116 == UNION {
  Go({112}, ResponseChars \ {"HT", "LF", "CR", "SP", "0"}, 23, <<"start_value">>),
  Go({112}, Blank, 112, <<"start_value">>),
  Go({112}, {"LF"}, 113, <<"start_value", "write_value">>),
  Go({112}, {"CR"}, 118, <<"start_value", "write_value">>),
  Go({112}, {"0"}, 119, <<"start_value">>),
  Go({113}, RspToken \ {"0", "C", "T", "t"}, 21, <<"start_field">>),
  Go({113, 116}, {"LF"}, 123, <<"done">>),
  Go({113}, Blank, 114, <<>>),
  Go({113}, {"T", "t"}, 44, <<"start_field">>),
  Go({113}, {"CR"}, 116, <<>>),
  Go({113}, {"0"}, 117, <<"start_value", "start_field">>),
  Go({113}, {"C"}, 25, <<"start_field">>),
  Go({114, 123}, Space, 114, <<>>),
  Go({114, 116, 123}, {"0"}, 115, <<"start_value">>),
  Go({115}, {"LF"}, 20, <<"write_content_len", "write_value">>),
  Go({115}, {"CR"}, 24, <<"write_content_len", "write_value">>),
  Go({115}, {"0"}, 115, <<>>),
  Go({116}, Space \ {"LF"}, 114, <<>>)}

Rsp117to119 == UNION {
  Go({117}, RspToken \ {"0"}, 21, <<>>),
  Go({117, 119}, {"LF"}, 20, <<"write_content_len", "write_value">>),
  Go({117, 119}, {"CR"}, 24, <<"write_content_len", "write_value">>),
  Ahead({117, 119}, {"0"}, 0, <<>>),
  Go({117}, {":"}, 22, <<"write_field">>),
  Go({118}, Space \ {"LF"}, 114, <<>>),
  Go({118}, {"LF"}, 113, <<>>),
  Go({118}, {"0"}, 115, <<"start_value">>),
  Go({119}, ResponseChars \ {"LF", "CR", "0"}, 23, <<>>)}

RspArcs == Rsp1to2 \cup Rsp3to5 \cup Rsp6to15 \cup Rsp16to20 \cup Rsp21to24
  \cup Rsp25to28 \cup Rsp29to33 \cup Rsp34to41 \cup Rsp42to45 \cup Rsp46to50
  \cup Rsp51to55 \cup Rsp56to60 \cup Rsp61to69 \cup Rsp70to74 \cup Rsp75to79
  \cup Rsp80to88 \cup Rsp89to93 \cup Rsp94to101 \cup Rsp102to106 \cup
  Rsp107to111 \cup Rsp112to116 \cup Rsp117to119

RspDelta == [s \in 0..123 |-> {a \in RspArcs : a.from = s}]

=============================================================================
