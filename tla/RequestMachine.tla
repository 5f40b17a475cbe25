------------------------------ MODULE RequestMachine ------------------------------
(***************************************************************************)
(* The automaton of http11_parser.cpp as it was generated: an arc leads    *)
(* from one state on a set of characters to another and performs actions.  *)
(* Characters that every state treats alike are one character here, named  *)
(* after one of them: "high" is any byte above 127, "SOH" a control        *)
(* character the automaton does not know, "!" one of ! $ & ' * _ ~, "(" a  *)
(* further sub-delimiter, "3" a digit of 346789, "G" a capital letter that *)
(* is neither hexadecimal nor of HTTP.  "^r", "{r" and "}r" are ^ { } as a *)
(* parser with uri_relaxed sees them in a URI.                             *)
(*                                                                         *)
(* Req1to3 holds the arcs out of the states 1 to 3, and so on, in the     *)
(* order of the file; a character no arc names leads to the state 0.       *)
(***************************************************************************)
EXTENDS Automaton

Digit == {"0", "1", "2", "3", "5"}
HexLetter == {"A", "a"}
Hex == Digit \cup HexLetter
Upper == {"A", "G", "H", "P", "T"}
Lower == {"a", "g", "v"}
Alpha == Upper \cup Lower
Alnum == Alpha \cup Digit
Relaxed == {"^r", "{r", "}r"}
UriMark == {"!", "(", "+", "-", "."} \cup Relaxed
UriChar == Alnum \cup UriMark
Pchar == UriChar \cup {"high", ":", "@"}
Token == {"SOH", "STX", "ETX", "EOT", "ENQ", "ACK", "LF", "VT", "CR", "!",
  "#", "%", "+", "-", ".", "0", "1", "2", "3", "5", "A", "G", "H", "P", "T",
  "^", "a", "g", "v", "^r"}
RequestChars == {"high", "NUL", "SOH", "STX", "ETX", "EOT", "ENQ", "ACK",
  "HT", "LF", "VT", "CR", "SP", "!", "QUOTE", "#", "%", "(", "+", "-", ".",
  "/", "0", "1", "2", "3", "5", ":", "<", ">", "?", "@", "A", "G", "H", "P",
  "T", "[", "]", "^", "a", "g", "v", "{", "}", "DEL", "^r", "{r", "}r"}

Req1to3 == UNION {
  Go({1}, Digit \cup Upper, 2, <<"mark">>),
  Go({1}, {"<"}, 194, <<"mark">>),
  Go({1}, {"@"}, 198, <<"mark">>),
  Go({2}, Digit \cup Upper, 175, <<>>),
  Go({2}, {"SP"}, 3, <<"request_method">>),
  Go({3}, Digit \cup UriMark \cup {"@"}, 19, <<"mark">>),
  Go({3}, Alpha, 173, <<"mark">>),
  Go({3}, {"SP"}, 4, <<"mark", "request_path", "request_uri">>),
  Go({3}, {"#"}, 20, <<"mark", "request_path", "request_uri">>),
  Go({3}, {"%"}, 24, <<"mark">>),
  Go({3}, {"/"}, 33, <<"mark">>),
  Go({3}, {"?"}, 29, <<"mark", "request_path">>)}

Req4to12 == UNION {
  Go({4}, {"H"}, 5, <<"mark">>),
  Ahead({5, 6}, {"T"}, 1, <<>>),
  Go({7}, {"P"}, 8, <<>>),
  Go({8}, {"/"}, 9, <<>>),
  Go({9}, {"1"}, 10, <<>>),
  Go({10}, {"."}, 11, <<>>),
  Go({11}, {"0", "1"}, 12, <<>>),
  Go({12}, {"LF"}, 13, <<"http_version">>),
  Go({12}, {"CR"}, 17, <<"http_version">>)}

Req13to16 == UNION {
  Go({13}, Token \ {"LF", "CR"}, 14, <<"start_field">>),
  Go({13}, {"LF"}, 348, <<"start_field", "done">>),
  Go({13}, {"CR"}, 18, <<"start_field">>),
  Go({14}, Token, 14, <<>>),
  Go({14}, {":"}, 15, <<"write_field">>),
  Go({15}, RequestChars \ {"NUL", "HT", "LF", "CR", "SP", "DEL"}, 16, <<"start_value">>),
  Go({15}, {"HT", "SP"}, 15, <<"start_value">>),
  Go({15}, {"LF"}, 13, <<"start_value", "write_value">>),
  Go({15}, {"CR"}, 17, <<"start_value", "write_value">>),
  Go({16}, RequestChars \ {"NUL", "LF", "CR", "DEL"}, 16, <<>>),
  Go({16}, {"LF"}, 13, <<"write_value">>),
  Go({16}, {"CR"}, 17, <<"write_value">>)}

Req17to18 == UNION {
  Go({17}, {"LF"}, 13, <<>>),
  Go({18}, Token \ {"LF"}, 14, <<>>),
  Go({18, 348}, {":"}, 15, <<"write_field">>),
  Go({18}, {"LF"}, 348, <<"done">>),
  Go({348}, Token, 14, <<>>)}

Req19 == UNION {
  Go({19}, UriChar \cup {"@"}, 19, <<>>),
  Go({19}, {"SP"}, 4, <<"request_path", "request_uri">>),
  Go({19}, {"#"}, 20, <<"request_path", "request_uri">>),
  Go({19}, {"%"}, 24, <<>>),
  Go({19}, {"/"}, 26, <<>>),
  Go({19}, {"?"}, 29, <<"request_path">>)}

Req20 == UNION {
  Go({20}, Pchar \cup {"/", "?"}, 21, <<"mark">>),
  Go({20}, {"SP"}, 4, <<"mark", "fragment">>),
  Go({20}, {"%"}, 22, <<"mark">>)}

Req21to25 == UNION {
  Go({21}, Pchar \cup {"/", "?"}, 21, <<>>),
  Go({21}, {"SP"}, 4, <<"fragment">>),
  Go({21}, {"%"}, 22, <<>>),
  Ahead({22, 24}, Hex, 1, <<>>),
  Go({23}, Hex, 21, <<>>),
  Go({25}, Hex, 19, <<>>)}

Req26to28 == UNION {
  Go({26}, Pchar \cup {"/"}, 26, <<>>),
  Go({26}, {"SP"}, 4, <<"request_path", "request_uri">>),
  Go({26}, {"#"}, 20, <<"request_path", "request_uri">>),
  Go({26}, {"%"}, 27, <<>>),
  Go({26}, {"?"}, 29, <<"request_path">>),
  Go({27}, Hex, 28, <<>>),
  Go({28}, Hex, 26, <<>>)}

Req29to31 == UNION {
  Go({29}, Pchar \cup {"/", "?"}, 30, <<"start_query">>),
  Go({29}, {"SP"}, 4, <<"start_query", "query_string", "request_uri">>),
  Go({29}, {"#"}, 20, <<"start_query", "query_string", "request_uri">>),
  Go({29}, {"%"}, 31, <<"start_query">>),
  Go({30}, Pchar \cup {"/", "?"}, 30, <<>>),
  Go({30}, {"SP"}, 4, <<"query_string", "request_uri">>),
  Go({30}, {"#"}, 20, <<"query_string", "request_uri">>),
  Go({30}, {"%"}, 31, <<>>),
  Go({31}, Hex, 32, <<>>)}

Req32to34 == UNION {
  Go({32}, Hex, 30, <<>>),
  Go({33}, Pchar, 26, <<>>),
  Go({33, 34}, {"SP"}, 4, <<"request_path", "request_uri">>),
  Go({33, 34}, {"#"}, 20, <<"request_path", "request_uri">>),
  Go({33, 34}, {"?"}, 29, <<"request_path">>),
  Go({33}, {"%"}, 27, <<>>),
  Go({33}, {"/"}, 34, <<>>),
  Go({34}, UriChar, 35, <<>>),
  Go({34}, {"%"}, 36, <<>>),
  Go({34}, {"/"}, 26, <<>>),
  Go({34}, {":"}, 38, <<>>),
  Go({34}, {"@"}, 42, <<>>),
  Go({34}, {"["}, 47, <<>>)}

Req35to38 == UNION {
  Go({35}, UriChar, 35, <<>>),
  Go({35, 38}, {"SP"}, 4, <<"request_path", "request_uri">>),
  Go({35, 38}, {"#"}, 20, <<"request_path", "request_uri">>),
  Go({35, 38}, {"/"}, 26, <<>>),
  Go({35, 38}, {"?"}, 29, <<"request_path">>),
  Go({35, 38}, {"@"}, 42, <<>>),
  Go({35}, {"%"}, 36, <<>>),
  Go({35}, {":"}, 38, <<>>),
  Go({36}, Hex, 37, <<>>),
  Go({37}, Hex, 35, <<>>),
  Go({38}, Alpha \cup UriMark \cup {":"}, 39, <<>>),
  Go({38}, Digit, 38, <<>>),
  Go({38}, {"%"}, 40, <<>>)}

Req39to42 == UNION {
  Go({39}, UriChar \cup {":"}, 39, <<>>),
  Go({39}, {"%"}, 40, <<>>),
  Go({39}, {"@"}, 42, <<>>),
  Go({40}, Hex, 41, <<>>),
  Go({41}, Hex, 39, <<>>),
  Go({42}, UriChar, 43, <<>>),
  Go({42}, {"SP"}, 4, <<"request_path", "request_uri">>),
  Go({42}, {"#"}, 20, <<"request_path", "request_uri">>),
  Go({42}, {"%"}, 44, <<>>),
  Go({42}, {"/"}, 26, <<>>),
  Go({42}, {":"}, 46, <<>>),
  Go({42}, {"?"}, 29, <<"request_path">>),
  Go({42}, {"["}, 47, <<>>)}

Req43to50 == UNION {
  Go({43}, UriChar, 43, <<>>),
  Go({43, 46}, {"SP"}, 4, <<"request_path", "request_uri">>),
  Go({43, 46}, {"#"}, 20, <<"request_path", "request_uri">>),
  Go({43, 46}, {"/"}, 26, <<>>),
  Go({43, 46}, {"?"}, 29, <<"request_path">>),
  Go({43}, {"%"}, 44, <<>>),
  Go({43}, {":"}, 46, <<>>),
  Ahead({44, 48, 49, 50}, Hex, 1, <<>>),
  Go({45}, Hex, 43, <<>>),
  Go({46}, Digit, 46, <<>>),
  Go({47}, Hex, 91, <<>>),
  Go({47}, {"ACK"}, 48, <<>>),
  Go({47}, {":"}, 167, <<>>),
  Go({47}, {"v"}, 169, <<>>),
  Go({49, 50}, {":"}, 53, <<>>)}

Req51to64 == UNION {
  Go({51}, Hex, 52, <<>>),
  Go({51, 52}, {":"}, 53, <<>>),
  Ahead({53, 55, 57, 59}, {"0", "3", "5"}, 1, <<>>),
  Go({53}, HexLetter, 90, <<>>),
  Go({53}, {"1"}, 84, <<>>),
  Go({53}, {"2"}, 87, <<>>),
  Ahead({54, 56, 58}, {"."}, 1, <<>>),
  Go({54}, Hex, 77, <<>>),
  Go({54}, {":"}, 80, <<>>),
  Go({55}, {"1"}, 72, <<>>),
  Go({55}, {"2"}, 74, <<>>),
  Go({57}, {"1"}, 67, <<>>),
  Go({57}, {"2"}, 69, <<>>),
  Go({59}, {"1"}, 62, <<>>),
  Go({59}, {"2"}, 64, <<>>),
  Go({60, 62, 63, 64}, {"]"}, 61, <<>>),
  Go({61}, {"SP"}, 4, <<"request_path", "request_uri">>),
  Go({61}, {"#"}, 20, <<"request_path", "request_uri">>),
  Go({61}, {"/"}, 26, <<>>),
  Go({61}, {":"}, 46, <<>>),
  Go({61}, {"?"}, 29, <<"request_path">>),
  Go({62}, Digit, 63, <<>>),
  Go({63}, Digit, 60, <<>>),
  Go({64}, {"0"}, 65, <<>>),
  Go({64}, {"5"}, 66, <<>>)}

Req65to80 == UNION {
  Go({65}, Digit, 60, <<>>),
  Go({66}, {"0"}, 60, <<>>),
  Ahead({67, 72}, Digit, 1, <<>>),
  Go(67..69, {"."}, 59, <<>>),
  Go({68, 70}, Digit, 58, <<>>),
  Ahead({69, 74}, {"0"}, 1, <<>>),
  Ahead({69, 74}, {"5"}, 2, <<>>),
  Go({71}, {"0"}, 58, <<>>),
  Go(72..74, {"."}, 57, <<>>),
  Go({73, 75}, Digit, 56, <<>>),
  Go({76}, {"0"}, 56, <<>>),
  Ahead({77, 78, 80}, Hex, 1, <<>>),
  Go(77..79, {":"}, 80, <<>>)}

Req81to89 == UNION {
  Ahead({81, 82}, Hex, 1, <<>>),
  Go(81..83, {"]"}, 61, <<>>),
  Go({83}, Hex, 60, <<>>),
  Go(84..89, {":"}, 80, <<>>),
  Go(84..87, {"."}, 55, <<>>),
  Go({84}, Digit, 85, <<>>),
  Go({84}, HexLetter, 77, <<>>),
  Go({85, 88}, Digit, 86, <<>>),
  Go({85, 88}, HexLetter, 78, <<>>),
  Go({86}, Hex, 79, <<>>),
  Go({87}, Hex \ {"0", "5"}, 77, <<>>),
  Go({87}, {"0"}, 88, <<>>),
  Go({87}, {"5"}, 89, <<>>),
  Go({89}, Hex \ {"0"}, 78, <<>>),
  Go({89}, {"0"}, 86, <<>>)}

Req90to100 == UNION {
  Go({90}, Hex, 77, <<>>),
  Go({90}, {":"}, 80, <<>>),
  Ahead((95..98) \cup {91, 92, 93, 100}, Hex, 1, <<>>),
  Go(91..94, {":"}, 95, <<>>),
  Go({95}, {":"}, 166, <<>>),
  Go(96..99, {":"}, 100, <<>>),
  Go({100}, {":"}, 165, <<>>)}

Req101to111 == UNION {
  Ahead((105..108) \cup {101, 102, 103, 110, 111}, Hex, 1, <<>>),
  Go(101..104, {":"}, 105, <<>>),
  Go({105}, {":"}, 164, <<>>),
  Go(106..109, {":"}, 110, <<>>),
  Go({110}, {":"}, 163, <<>>),
  Go({111}, {":"}, 115, <<>>)}

Req112to122 == UNION {
  Ahead((115..118) \cup {112, 113, 120, 121, 122}, Hex, 1, <<>>),
  Go(112..114, {":"}, 115, <<>>),
  Go({115}, {":"}, 151, <<>>),
  Go(116..119, {":"}, 120, <<>>),
  Go({120}, {":"}, 150, <<>>),
  Go({121, 122}, {":"}, 125, <<>>)}

Req123to131 == UNION {
  Ahead({123, 127, 128, 129}, Hex, 1, <<>>),
  Go({123, 124}, {":"}, 125, <<>>),
  Go({125}, Hex, 121, <<>>),
  Go({125}, {":"}, 126, <<>>),
  Go(126..130, {"]"}, 61, <<>>),
  Ahead({126, 131}, {"0", "3", "5"}, 1, <<>>),
  Go({126}, {"STX", "ETX"}, 48, <<>>),
  Go({126}, HexLetter, 149, <<>>),
  Go({126}, {"1"}, 143, <<>>),
  Go({126}, {"2"}, 146, <<>>),
  Go(127..130, {":"}, 131, <<>>),
  Go({127}, {"."}, 55, <<>>),
  Go({131}, HexLetter, 142, <<>>),
  Go({131}, {"1"}, 136, <<>>),
  Go({131}, {"2"}, 139, <<>>)}

Req132to139 == UNION {
  Go(132..139, {":"}, 80, <<>>),
  Go(132..139, {"]"}, 61, <<>>),
  Ahead(132..134, Hex, 1, <<>>),
  Go((136..139) \cup {132}, {"."}, 55, <<>>),
  Ahead({136, 137}, Digit, 1, <<>>),
  Ahead({136, 137}, HexLetter, -3, <<>>),
  Go({138}, Hex, 135, <<>>),
  Go({139}, Hex \ {"0", "5"}, 133, <<>>),
  Go({139}, {"0"}, 140, <<>>),
  Go({139}, {"5"}, 141, <<>>)}

Req140to147 == UNION {
  Go(140..147, {"]"}, 61, <<>>),
  Go(140..142, {":"}, 80, <<>>),
  Go({140}, Digit, 138, <<>>),
  Go({140}, HexLetter, 134, <<>>),
  Go({141}, Hex \ {"0"}, 134, <<>>),
  Go({141}, {"0"}, 138, <<>>),
  Go({142}, Hex, 133, <<>>),
  Go(143..147, {":"}, 131, <<>>),
  Go(143..146, {"."}, 55, <<>>),
  Go({143}, Digit, 144, <<>>),
  Go({143}, HexLetter, 128, <<>>),
  Go({144, 147}, Digit, 145, <<>>),
  Go({144, 147}, HexLetter, 129, <<>>),
  Go({145}, Hex, 130, <<>>),
  Go({146}, Hex \ {"0", "5"}, 128, <<>>),
  Go({146}, {"0"}, 147, <<>>),
  Go({146}, {"5"}, 148, <<>>)}

Req148to156 == UNION {
  Go((152..156) \cup {148, 149}, {":"}, 131, <<>>),
  Go({148}, Hex \ {"0"}, 129, <<>>),
  Go({148, 149}, {"]"}, 61, <<>>),
  Go({148}, {"0"}, 145, <<>>),
  Go({149}, Hex, 128, <<>>),
  Go({150, 151}, {"STX", "ETX"}, 48, <<>>),
  Go({150}, {"0", "3", "5"}, 127, <<>>),
  Go({150}, HexLetter, 149, <<>>),
  Go({150}, {"1"}, 143, <<>>),
  Go({150}, {"2"}, 146, <<>>),
  Go({151}, {"0", "3", "5"}, 152, <<>>),
  Go({151}, HexLetter, 162, <<>>),
  Go({151}, {"1"}, 156, <<>>),
  Go({151}, {"2"}, 159, <<>>),
  Ahead(152..154, Hex, 1, <<>>),
  Go({152, 156}, {"."}, 55, <<>>),
  Go({156}, Digit, 157, <<>>),
  Go({156}, HexLetter, 153, <<>>)}

Req157to167 == UNION {
  Go(157..162, {":"}, 131, <<>>),
  Go({157, 160}, Digit, 158, <<>>),
  Go(157..159, {"."}, 55, <<>>),
  Go({157, 160}, HexLetter, 154, <<>>),
  Go({158}, Hex, 155, <<>>),
  Go({159}, Hex \ {"0", "5"}, 153, <<>>),
  Go({159}, {"0"}, 160, <<>>),
  Go({159}, {"5"}, 161, <<>>),
  Go({161}, Hex \ {"0"}, 154, <<>>),
  Go({161}, {"0"}, 158, <<>>),
  Go({162}, Hex, 153, <<>>),
  Go({163, 164}, {"STX", "ETX"}, 48, <<>>),
  Go({163}, Hex, 49, <<>>),
  Go({165}, {"ETX"}, 48, <<>>),
  Go({166}, {"EOT"}, 48, <<>>),
  Go({167}, {":"}, 168, <<>>)}

Req168to172 == UNION {
  Go({168}, {"STX", "ETX", "EOT", "ENQ"}, 48, <<>>),
  Go({168, 172}, {"]"}, 61, <<>>),
  Go({168}, {"0", "3", "5"}, 127, <<>>),
  Go({168}, HexLetter, 149, <<>>),
  Go({168}, {"1"}, 143, <<>>),
  Go({168}, {"2"}, 146, <<>>),
  Go({169, 170}, Hex, 170, <<>>),
  Go({170}, {"."}, 171, <<>>),
  Go({171, 172}, UriChar \cup {":"}, 172, <<>>)}

Req173to177 == UNION {
  Go({173}, Alnum \cup {"+", "-", "."}, 173, <<>>),
  Go({173}, Relaxed \cup {"!", "(", "@"}, 19, <<>>),
  Go({173}, {"SP"}, 4, <<"request_path", "request_uri">>),
  Go({173}, {"#"}, 20, <<"request_path", "request_uri">>),
  Go({173}, {"%"}, 24, <<>>),
  Go({173}, {"/"}, 26, <<>>),
  Go({173}, {":"}, 174, <<>>),
  Go({173}, {"?"}, 29, <<"request_path">>),
  Go({174}, Pchar, 26, <<"mark">>),
  Go({174}, {"SP"}, 4, <<"mark", "request_path", "request_uri">>),
  Go({174}, {"#"}, 20, <<"mark", "request_path", "request_uri">>),
  Go({174}, {"%"}, 27, <<"mark">>),
  Go({174}, {"/"}, 33, <<"mark">>),
  Go({174}, {"?"}, 29, <<"mark", "request_path">>),
  Ahead(175..177, Digit \cup Upper, 1, <<>>),
  Go(175..177, {"SP"}, 3, <<"request_method">>)}

Req178to189 == UNION {
  Ahead(178..189, Digit \cup Upper, 1, <<>>),
  Go(178..189, {"SP"}, 3, <<"request_method">>)}

Req190to197 == UNION {
  Ahead(190..192, Digit \cup Upper, 1, <<>>),
  Go(190..193, {"SP"}, 3, <<"request_method">>),
  Go({194, 195}, Alnum \cup {"-", "."}, 195, <<>>),
  Go({195}, {"HT", "LF", "VT", "CR", "SP", "/", ">"}, 196, <<"request_path">>),
  Go({196}, RequestChars \ {">"}, 196, <<>>),
  Go({196, 197}, {">"}, 197, <<>>),
  Go({197}, RequestChars \ {"NUL", ">"}, 196, <<>>),
  Go({197}, {"NUL"}, 349, <<"xml", "done">>)}

Req198to201 == UNION {
  Go({198}, UriChar \cup {"@"}, 202, <<>>),
  Go({198}, {"SP"}, 199, <<"request_path">>),
  Go({198}, {"%"}, 203, <<>>),
  Go({198}, {"/"}, 208, <<>>),
  Go({199}, {"{", "{r"}, 200, <<"mark">>),
  Go({200, 201}, {"}", "}r"}, 201, <<>>),
  Go({200}, RequestChars \ {"}", "}r"}, 200, <<>>),
  Go({201}, RequestChars \ {"NUL", "}", "}r"}, 200, <<>>),
  Go({201}, {"NUL"}, 349, <<"json", "done">>)}

Req202to207 == UNION {
  Go({202}, UriChar \cup {"@"}, 202, <<>>),
  Go({202, 205}, {"SP"}, 199, <<"request_path">>),
  Ahead({202, 205}, {"%"}, 1, <<>>),
  Go({202}, {"/"}, 205, <<>>),
  Ahead({203, 206}, Hex, 1, <<>>),
  Ahead({204, 207}, Hex, -2, <<>>),
  Go({205}, Pchar \cup {"/"}, 205, <<>>)}

Req208to210 == UNION {
  Go(208..210, {"SP"}, 199, <<"request_path">>),
  Go({208}, Pchar, 205, <<>>),
  Go({208}, {"%"}, 206, <<>>),
  Go({208}, {"/"}, 209, <<>>),
  Go({209, 210}, UriChar, 210, <<>>),
  Go({209, 210}, {"%"}, 211, <<>>),
  Go({209, 210}, {"/"}, 205, <<>>),
  Go({209, 210}, {":"}, 213, <<>>),
  Go({209, 210}, {"@"}, 217, <<>>),
  Go({209}, {"["}, 222, <<>>)}

Req211to215 == UNION {
  Ahead({211, 215}, Hex, 1, <<>>),
  Go({212}, Hex, 210, <<>>),
  Go({213}, Alpha \cup UriMark \cup {":"}, 214, <<>>),
  Go({213}, Digit, 213, <<>>),
  Go({213, 214}, {"%"}, 215, <<>>),
  Go({213, 214}, {"@"}, 217, <<>>),
  Go({213}, {"SP"}, 199, <<"request_path">>),
  Go({213}, {"/"}, 205, <<>>),
  Go({214}, UriChar \cup {":"}, 214, <<>>)}

Req216to221 == UNION {
  Ahead({216, 220}, Hex, -2, <<>>),
  Go({217, 218}, UriChar, 218, <<>>),
  Go({217, 218, 221}, {"SP"}, 199, <<"request_path">>),
  Go({217, 218, 221}, {"/"}, 205, <<>>),
  Go({217, 218}, {"%"}, 219, <<>>),
  Go({217, 218}, {":"}, 221, <<>>),
  Go({217}, {"["}, 222, <<>>),
  Go({219}, Hex, 220, <<>>),
  Go({221}, Digit, 221, <<>>)}

Req222to232 == UNION {
  Go({222}, Hex, 266, <<>>),
  Go({222}, {"ACK"}, 223, <<>>),
  Go({222}, {":"}, 342, <<>>),
  Go({222}, {"v"}, 344, <<>>),
  Ahead(223..226, Hex, 1, <<>>),
  Go(224..227, {":"}, 228, <<>>),
  Ahead({228, 230, 232}, {"0", "3", "5"}, 1, <<>>),
  Go({228}, HexLetter, 265, <<>>),
  Go({228}, {"1"}, 259, <<>>),
  Go({228}, {"2"}, 262, <<>>),
  Go({229}, Hex, 252, <<>>),
  Ahead({229, 231}, {"."}, 1, <<>>),
  Go({229}, {":"}, 255, <<>>),
  Go({230}, {"1"}, 247, <<>>),
  Go({230}, {"2"}, 249, <<>>),
  Go({232}, {"1"}, 242, <<>>),
  Go({232}, {"2"}, 244, <<>>)}

Req233to249 == UNION {
  Go({233, 242, 243, 244}, {"."}, 234, <<>>),
  Go({234}, {"0", "3", "5"}, 235, <<>>),
  Go({234}, {"1"}, 237, <<>>),
  Go({234}, {"2"}, 239, <<>>),
  Go({235, 237, 238, 239}, {"]"}, 236, <<>>),
  Go({236}, {"SP"}, 199, <<"request_path">>),
  Go({236}, {"/"}, 205, <<>>),
  Go({236}, {":"}, 221, <<>>),
  Ahead({237, 242, 247}, Digit, 1, <<>>),
  Go({238, 240}, Digit, 235, <<>>),
  Ahead({239, 244, 249}, {"0"}, 1, <<>>),
  Ahead({239, 244, 249}, {"5"}, 2, <<>>),
  Go({241}, {"0"}, 235, <<>>),
  Go({243, 245}, Digit, 233, <<>>),
  Go({246}, {"0"}, 233, <<>>),
  Go(247..249, {"."}, 232, <<>>),
  Go({248}, Digit, 231, <<>>)}

Req250to260 == UNION {
  Go({250}, Digit, 231, <<>>),
  Go({251}, {"0"}, 231, <<>>),
  Ahead({252, 253, 255, 256, 257}, Hex, 1, <<>>),
  Go({252, 253, 254, 259, 260}, {":"}, 255, <<>>),
  Go(256..258, {"]"}, 236, <<>>),
  Go({258}, Hex, 235, <<>>),
  Ahead({259, 260}, Digit, 1, <<>>),
  Ahead({259, 260}, HexLetter, -7, <<>>),
  Go({259, 260}, {"."}, 230, <<>>)}

Req261to270 == UNION {
  Go(261..265, {":"}, 255, <<>>),
  Go({261}, Hex, 254, <<>>),
  Go({261, 262}, {"."}, 230, <<>>),
  Go({262}, Hex \ {"0", "5"}, 252, <<>>),
  Go({262}, {"0"}, 263, <<>>),
  Go({262}, {"5"}, 264, <<>>),
  Go({263}, Digit, 261, <<>>),
  Go({263}, HexLetter, 253, <<>>),
  Go({264}, Hex \ {"0"}, 253, <<>>),
  Go({264}, {"0"}, 261, <<>>),
  Go({265}, Hex, 252, <<>>),
  Ahead({266, 267, 268, 270}, Hex, 1, <<>>),
  Go(266..269, {":"}, 270, <<>>),
  Go({270}, {":"}, 341, <<>>)}

Req271to281 == UNION {
  Ahead((275..278) \cup {271, 272, 273, 280, 281}, Hex, 1, <<>>),
  Go(271..274, {":"}, 275, <<>>),
  Go({275}, {":"}, 340, <<>>),
  Go(276..279, {":"}, 280, <<>>),
  Go({280}, {":"}, 339, <<>>),
  Go({281}, {":"}, 285, <<>>)}

Req282to292 == UNION {
  Ahead((285..288) \cup {282, 283, 290, 291, 292}, Hex, 1, <<>>),
  Go(282..284, {":"}, 285, <<>>),
  Go({285}, {":"}, 338, <<>>),
  Go(286..289, {":"}, 290, <<>>),
  Go({290}, {":"}, 326, <<>>),
  Go({291, 292}, {":"}, 295, <<>>)}

Req293to302 == UNION {
  Ahead((295..298) \cup {293, 302}, Hex, 1, <<>>),
  Go({293, 294}, {":"}, 295, <<>>),
  Go({295}, {":"}, 325, <<>>),
  Go(296..299, {":"}, 300, <<>>),
  Go({300}, Hex, 296, <<>>),
  Go({300}, {":"}, 301, <<>>),
  Go({301, 302}, {"]"}, 236, <<>>),
  Go({301}, {"0", "3", "5"}, 302, <<>>),
  Go({301}, {"STX", "ETX"}, 223, <<>>),
  Go({301}, HexLetter, 324, <<>>),
  Go({301}, {"1"}, 318, <<>>),
  Go({301}, {"2"}, 321, <<>>),
  Go({302}, {"."}, 230, <<>>),
  Go({302}, {":"}, 306, <<>>)}

Req303to311 == UNION {
  Ahead({303, 304, 307, 308, 309}, Hex, 1, <<>>),
  Go((307..311) \cup {303, 304, 305}, {"]"}, 236, <<>>),
  Go(303..305, {":"}, 306, <<>>),
  Go({306}, {"0", "3", "5"}, 307, <<>>),
  Go({306}, HexLetter, 317, <<>>),
  Go({306}, {"1"}, 311, <<>>),
  Go({306}, {"2"}, 314, <<>>),
  Go(307..311, {":"}, 255, <<>>),
  Go({307, 311}, {"."}, 230, <<>>),
  Go({311}, Digit, 312, <<>>),
  Go({311}, HexLetter, 308, <<>>)}

Req312to319 == UNION {
  Go(312..319, {"]"}, 236, <<>>),
  Ahead({312, 318, 319}, Digit, 1, <<>>),
  Go(312..317, {":"}, 255, <<>>),
  Go({312, 313, 314, 318, 319}, {"."}, 230, <<>>),
  Go({312, 315}, HexLetter, 309, <<>>),
  Go({313}, Hex, 310, <<>>),
  Go({314}, Hex \ {"0", "5"}, 308, <<>>),
  Go({314}, {"0"}, 315, <<>>),
  Go({314}, {"5"}, 316, <<>>),
  Go({315}, Digit, 313, <<>>),
  Go({316}, Hex \ {"0"}, 309, <<>>),
  Go({316}, {"0"}, 313, <<>>),
  Go({317}, Hex, 308, <<>>),
  Ahead({318, 319}, HexLetter, -15, <<>>),
  Go({318, 319}, {":"}, 306, <<>>)}

Req320to327 == UNION {
  Go((320..324) \cup {327}, {":"}, 306, <<>>),
  Go(320..324, {"]"}, 236, <<>>),
  Go({320, 321, 327}, {"."}, 230, <<>>),
  Go({320}, Hex, 305, <<>>),
  Go({321}, Hex \ {"0", "5"}, 303, <<>>),
  Go({321}, {"0"}, 322, <<>>),
  Go({321}, {"5"}, 323, <<>>),
  Go({322}, Digit, 320, <<>>),
  Go({322}, HexLetter, 304, <<>>),
  Go({323}, Hex \ {"0"}, 304, <<>>),
  Go({323}, {"0"}, 320, <<>>),
  Go({324}, Hex, 303, <<>>),
  Go({325, 326}, {"STX", "ETX"}, 223, <<>>),
  Go({325}, {"0", "3", "5"}, 302, <<>>),
  Go({325}, HexLetter, 324, <<>>),
  Go({325}, {"1"}, 318, <<>>),
  Go({325}, {"2"}, 321, <<>>),
  Go({326}, {"0", "3", "5"}, 327, <<>>),
  Go({326}, HexLetter, 337, <<>>),
  Go({326}, {"1"}, 331, <<>>),
  Go({326}, {"2"}, 334, <<>>),
  Go({327}, Hex, 328, <<>>)}

Req328to336 == UNION {
  Go(328..336, {":"}, 306, <<>>),
  Go({328}, Hex, 329, <<>>),
  Go({329, 333}, Hex, 330, <<>>),
  Go(331..334, {"."}, 230, <<>>),
  Go({331}, Digit, 332, <<>>),
  Go({331}, HexLetter, 328, <<>>),
  Go({332, 335}, Digit, 333, <<>>),
  Go({332, 335}, HexLetter, 329, <<>>),
  Go({334}, Hex \ {"0", "5"}, 328, <<>>),
  Go({334}, {"0"}, 335, <<>>),
  Go({334}, {"5"}, 336, <<>>),
  Go({336}, Hex \ {"0"}, 329, <<>>),
  Go({336}, {"0"}, 333, <<>>)}

Req337to345 == UNION {
  Go({337}, Hex, 328, <<>>),
  Go({337}, {":"}, 306, <<>>),
  Go({338, 339}, {"STX", "ETX"}, 223, <<>>),
  Go({338}, Hex, 224, <<>>),
  Go({340}, {"ETX"}, 223, <<>>),
  Go({341}, {"EOT"}, 223, <<>>),
  Go({342}, {":"}, 343, <<>>),
  Go({343}, {"STX", "ETX", "EOT", "ENQ"}, 223, <<>>),
  Go({343}, {"0", "3", "5"}, 302, <<>>),
  Go({343}, HexLetter, 324, <<>>),
  Go({343}, {"1"}, 318, <<>>),
  Go({343}, {"2"}, 321, <<>>),
  Go({343}, {"]"}, 236, <<>>),
  Go({344, 345}, Hex, 345, <<>>),
  Go({345}, {"."}, 346, <<>>)}

Req346to347 == UNION {
  Go({346, 347}, UriChar \cup {":"}, 347, <<>>),
  Go({347}, {"]"}, 236, <<>>)}

ReqArcs == Req1to3 \cup Req4to12 \cup Req13to16 \cup Req17to18 \cup Req19 \cup
  Req20 \cup Req21to25 \cup Req26to28 \cup Req29to31 \cup Req32to34 \cup
  Req35to38 \cup Req39to42 \cup Req43to50 \cup Req51to64 \cup Req65to80 \cup
  Req81to89 \cup Req90to100 \cup Req101to111 \cup Req112to122 \cup Req123to131
  \cup Req132to139 \cup Req140to147 \cup Req148to156 \cup Req157to167 \cup
  Req168to172 \cup Req173to177 \cup Req178to189 \cup Req190to197 \cup
  Req198to201 \cup Req202to207 \cup Req208to210 \cup Req211to215 \cup
  Req216to221 \cup Req222to232 \cup Req233to249 \cup Req250to260 \cup
  Req261to270 \cup Req271to281 \cup Req282to292 \cup Req293to302 \cup
  Req303to311 \cup Req312to319 \cup Req320to327 \cup Req328to336 \cup
  Req337to345 \cup Req346to347

ReqDelta == [s \in 0..349 |-> {a \in ReqArcs : a.from = s}]

=============================================================================
