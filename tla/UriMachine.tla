------------------------------ MODULE UriMachine ------------------------------
(***************************************************************************)
(* The automaton of Uri.cpp as it was generated, laid out like             *)
(* RequestMachine.  "3" stands for 3 and 4, "6" for 6 to 9, "A" for a      *)
(* hexadecimal letter, "G" for another letter but v, "+" for + and -, "!"  *)
(* for the other characters a host may have, "high" for a byte above 127,  *)
(* "ctl" for a character no state knows.  "end" stands for the end of the  *)
(* string, which only a final state reaches with something left to do.     *)
(***************************************************************************)
EXTENDS Automaton

UriDigit == {"0", "1", "2", "3", "5", "6"}
UriHex == UriDigit \cup {"A"}
UriAlnum == UriHex \cup {"G", "v"}
SchemeChar == UriAlnum \cup {"+", "."}
NameChar == SchemeChar \cup {"!"}
PathChar == NameChar \cup {"high", ":", "@"}
QueryChar == PathChar \cup {"/", "?"}
UriChars == QueryChar \cup {"ctl", "STX", "%", "#", "[", "]"}

Uri451to452 == UNION {
  Go({451}, PathChar \ {":", "A", "G", "v"}, 452, <<>>),
  Go({451, 452}, {"%"}, 3, <<>>),
  Go({451, 452}, {"?"}, 456, <<>>),
  Go({451, 452}, {"#"}, 453, <<>>),
  Go({451}, {"A", "G", "v"}, 508, <<"mark">>),
  Go({451}, {"/"}, 458, <<>>),
  Go({452}, PathChar \ {":"}, 452, <<>>),
  Go({452}, {"/"}, 455, <<>>)}

Uri453 == UNION {
  Go({453}, QueryChar, 454, <<"mark">>),
  Go({453}, {"%"}, 1, <<"mark">>)}

Uri454to455 == UNION {
  Ahead({1, 3}, UriHex, 1, <<>>),
  Go({2}, UriHex, 454, <<>>),
  Go({4}, UriHex, 452, <<>>),
  Go({454}, QueryChar, 454, <<>>),
  Go({454}, {"%"}, 1, <<>>),
  Go({455}, PathChar \cup {"/"}, 455, <<>>),
  Go({455}, {"%"}, 5, <<>>),
  Go({455}, {"?"}, 456, <<>>),
  Go({455}, {"#"}, 453, <<>>)}

Uri5to6 == UNION {
  Go({5}, UriHex, 6, <<>>),
  Go({6}, UriHex, 455, <<>>)}

Uri456 == UNION {
  Go({456}, QueryChar, 457, <<"mark">>),
  Go({456}, {"%"}, 7, <<"mark">>),
  Go({456}, {"#"}, 453, <<"mark", "save_query">>)}

Uri457to11 == UNION {
  Go({7}, UriHex, 8, <<>>),
  Go({8}, UriHex, 457, <<>>),
  Go({9}, UriDigit \ {"5", "6"}, 10, <<>>),
  Go({10}, UriDigit, 11, <<>>),
  Go({11}, {"."}, 12, <<>>),
  Go({457}, QueryChar, 457, <<>>),
  Go({457}, {"%"}, 7, <<>>),
  Go({457}, {"#"}, 453, <<"save_query">>),
  Go({458}, PathChar, 455, <<>>),
  Go({458}, {"%"}, 5, <<>>),
  Go({458}, {"/"}, 459, <<>>),
  Go({458}, {"?"}, 456, <<>>),
  Go({458}, {"#"}, 453, <<>>),
  Go({459}, {"!", "+", ".", "A", "G", "v"}, 467, <<"mark">>),
  Go({459}, {"3", "5", "6"}, 505, <<"mark">>),
  Go({459}, {"STX"}, 9, <<"mark">>),
  Go({459}, {"%"}, 31, <<"mark">>),
  Go({459}, {"/"}, 455, <<"mark", "save_host">>),
  Go({459}, {"?"}, 456, <<"mark", "save_host">>),
  Go({459}, {"#"}, 453, <<"mark", "save_host">>),
  Go({459}, {":"}, 468, <<"mark", "save_host">>),
  Go({459}, {"@"}, 469, <<"mark", "save_userinfo">>),
  Go({459}, {"["}, 38, <<"mark">>),
  Go({459}, {"0"}, 490, <<"mark">>),
  Go({459}, {"1"}, 504, <<"mark">>),
  Go({459}, {"2"}, 506, <<"mark">>)}

Uri12to461 == UNION {
  Ahead({12, 16, 20}, {"STX"}, 1, <<>>),
  Ahead({12, 16}, {"0"}, 3, <<>>),
  Go({12}, {"3", "5", "6"}, 28, <<>>),
  Go({12}, {"1"}, 27, <<>>),
  Go({12}, {"2"}, 29, <<>>),
  Ahead({13, 17, 21}, UriDigit \ {"5", "6"}, 1, <<>>),
  Ahead({14, 18}, UriDigit, 1, <<>>),
  Ahead({15, 19}, {"."}, 1, <<>>),
  Go({16}, {"3", "5", "6"}, 24, <<>>),
  Go({16}, {"1"}, 23, <<>>),
  Go({16}, {"2"}, 25, <<>>),
  Go({20}, {"3", "5", "6"}, 464, <<>>),
  Go({20}, {"0"}, 460, <<>>),
  Go({20}, {"1"}, 463, <<>>),
  Go({20}, {"2"}, 465, <<>>),
  Go({22}, UriDigit, 460, <<>>),
  Go({460}, {"/"}, 455, <<"save_host">>),
  Go({460}, {"?"}, 456, <<"save_host">>),
  Go({460}, {"#"}, 453, <<"save_host">>),
  Go({460}, {":"}, 461, <<"save_host">>),
  Go({461}, UriDigit, 462, <<"mark">>),
  Go({461}, {"/"}, 455, <<"mark", "save_port">>),
  Go({461}, {"?"}, 456, <<"mark", "save_port">>),
  Go({461}, {"#"}, 453, <<"mark", "save_port">>)}

Uri462to30 == UNION {
  Ahead({23, 27, 463}, UriDigit, 1, <<>>),
  Go(23..26, {"."}, 20, <<>>),
  Go({24}, UriDigit, 19, <<>>),
  Ahead({25, 29, 465}, {"5"}, 1, <<>>),
  Go({25}, UriDigit \ {"5"}, 19, <<>>),
  Go({26}, UriDigit \ {"6"}, 19, <<>>),
  Go(27..30, {"."}, 16, <<>>),
  Go({28}, UriDigit, 15, <<>>),
  Go({29}, UriDigit \ {"5"}, 15, <<>>),
  Go({30}, UriDigit \ {"6"}, 15, <<>>),
  Go({462}, UriDigit, 462, <<>>),
  Go({462}, {"/"}, 455, <<"save_port">>),
  Go({462}, {"?"}, 456, <<"save_port">>),
  Go({462}, {"#"}, 453, <<"save_port">>),
  Go(463..466, {"/"}, 455, <<"save_host">>),
  Go(463..466, {"?"}, 456, <<"save_host">>),
  Go(463..466, {"#"}, 453, <<"save_host">>),
  Go(463..466, {":"}, 461, <<"save_host">>),
  Go({464}, UriDigit, 460, <<>>),
  Go({465}, UriDigit \ {"5"}, 460, <<>>),
  Go({466}, UriDigit \ {"6"}, 460, <<>>)}

Uri467to34 == UNION {
  Ahead({31, 34}, UriHex, 1, <<>>),
  Go({32}, UriHex, 467, <<>>),
  Go({33, 467, 468}, {"@"}, 469, <<"save_userinfo">>),
  Go({33}, NameChar \cup {":"}, 33, <<>>),
  Go({33, 468}, {"%"}, 34, <<>>),
  Go({467}, NameChar, 467, <<>>),
  Go({467}, {"%"}, 31, <<>>),
  Go({467}, {"/"}, 455, <<"save_host">>),
  Go({467}, {"?"}, 456, <<"save_host">>),
  Go({467}, {"#"}, 453, <<"save_host">>),
  Go({467}, {":"}, 468, <<"save_host">>),
  Go({468}, {"!", "+", ".", ":", "A", "G", "v"}, 33, <<>>),
  Go({468}, UriDigit, 489, <<"mark">>),
  Go({468}, {"/"}, 455, <<"mark", "save_port">>),
  Go({468}, {"?"}, 456, <<"mark", "save_port">>),
  Go({468}, {"#"}, 453, <<"mark", "save_port">>)}

Uri35to37 == UNION {
  Go({35}, UriHex, 33, <<>>),
  Go({36}, UriHex, 37, <<>>),
  Go({37}, UriHex, 470, <<>>),
  Go({469}, {"!", "+", ".", "A", "G", "v"}, 470, <<"mark">>),
  Go({469}, {"3", "5", "6"}, 486, <<"mark">>),
  Go({469}, {"STX"}, 9, <<"mark">>),
  Go({469}, {"%"}, 36, <<"mark">>),
  Go({469}, {"/"}, 455, <<"mark", "save_host">>),
  Go({469}, {"?"}, 456, <<"mark", "save_host">>),
  Go({469}, {"#"}, 453, <<"mark", "save_host">>),
  Go({469}, {":"}, 461, <<"mark", "save_host">>),
  Go({469}, {"["}, 38, <<"mark">>),
  Go({469}, {"0"}, 471, <<"mark">>),
  Go({469}, {"1"}, 485, <<"mark">>),
  Go({469}, {"2"}, 487, <<"mark">>),
  Go({470}, NameChar, 470, <<>>),
  Go({470}, {"%"}, 36, <<>>),
  Go({470}, {"/"}, 455, <<"save_host">>),
  Go({470}, {"?"}, 456, <<"save_host">>),
  Go({470}, {"#"}, 453, <<"save_host">>),
  Go({470}, {":"}, 461, <<"save_host">>)}

Uri471to475 == UNION {
  Go({471, 473, 475}, NameChar \ {"."}, 470, <<>>),
  Go(471..475, {"%"}, 36, <<>>),
  Go(471..475, {"/"}, 455, <<"save_host">>),
  Go(471..475, {"?"}, 456, <<"save_host">>),
  Go(471..475, {"#"}, 453, <<"save_host">>),
  Go(471..475, {":"}, 461, <<"save_host">>),
  Ahead({471, 473, 475}, {"."}, 1, <<>>),
  Go({472, 474}, {"!", "+", ".", "A", "G", "v"}, 470, <<>>),
  Ahead({472, 474}, {"0"}, 1, <<>>),
  Go({472}, {"3", "5", "6"}, 482, <<>>),
  Go({472}, {"STX"}, 13, <<>>),
  Go({472}, {"1"}, 481, <<>>),
  Go({472}, {"2"}, 483, <<>>),
  Go({474}, {"3", "5", "6"}, 478, <<>>),
  Go({474}, {"STX"}, 17, <<>>),
  Go({474}, {"1"}, 477, <<>>),
  Go({474}, {"2"}, 479, <<>>)}

Uri476to480 == UNION {
  Go(476..480, {"%"}, 36, <<>>),
  Go(476..480, {"/"}, 455, <<"save_host">>),
  Go(476..480, {"?"}, 456, <<"save_host">>),
  Go(476..480, {"#"}, 453, <<"save_host">>),
  Go(476..480, {":"}, 461, <<"save_host">>),
  Go({476}, NameChar, 470, <<>>),
  Go({476}, {"STX"}, 21, <<>>),
  Go(477..479, {"!", "+", "A", "G", "v"}, 470, <<>>),
  Go(477..480, {"."}, 476, <<>>),
  Go({477}, UriDigit, 478, <<>>),
  Go({478}, UriDigit, 475, <<>>),
  Go({479}, UriDigit \ {"5"}, 475, <<>>),
  Go({479}, {"5"}, 480, <<>>),
  Go({480}, {"!", "+", "6", "A", "G", "v"}, 470, <<>>),
  Go({480}, UriDigit \ {"6"}, 475, <<>>)}

Uri481to484 == UNION {
  Go(481..483, {"!", "+", "A", "G", "v"}, 470, <<>>),
  Go(481..484, {"."}, 474, <<>>),
  Go(481..484, {"%"}, 36, <<>>),
  Go(481..484, {"/"}, 455, <<"save_host">>),
  Go(481..484, {"?"}, 456, <<"save_host">>),
  Go(481..484, {"#"}, 453, <<"save_host">>),
  Go(481..484, {":"}, 461, <<"save_host">>),
  Go({481}, UriDigit, 482, <<>>),
  Go({482}, UriDigit, 473, <<>>),
  Go({483}, UriDigit \ {"5"}, 473, <<>>),
  Go({483}, {"5"}, 484, <<>>),
  Go({484}, {"!", "+", "6", "A", "G", "v"}, 470, <<>>),
  Go({484}, UriDigit \ {"6"}, 473, <<>>)}

Uri485to488 == UNION {
  Go(485..487, {"!", "+", "A", "G", "v"}, 470, <<>>),
  Go(485..488, {"."}, 472, <<>>),
  Go(485..488, {"%"}, 36, <<>>),
  Go(485..488, {"/"}, 455, <<"save_host">>),
  Go(485..488, {"?"}, 456, <<"save_host">>),
  Go(485..488, {"#"}, 453, <<"save_host">>),
  Go(485..488, {":"}, 461, <<"save_host">>),
  Go({485}, UriDigit, 486, <<>>),
  Go({486}, UriDigit, 471, <<>>),
  Go({487}, UriDigit \ {"5"}, 471, <<>>),
  Go({487}, {"5"}, 488, <<>>),
  Go({488}, {"!", "+", "6", "A", "G", "v"}, 470, <<>>),
  Go({488}, UriDigit \ {"6"}, 471, <<>>)}

Uri38to47 == UNION {
  Ahead((38..41) \cup (43..46), UriHex, 1, <<>>),
  Go({38}, {":"}, 146, <<>>),
  Go({38}, {"v"}, 225, <<>>),
  Go(39..42, {":"}, 43, <<>>),
  Go({43}, {":"}, 141, <<>>),
  Go(44..47, {":"}, 48, <<>>)}

Uri48to58 == UNION {
  Ahead((48..51) \cup (53..56) \cup {58}, UriHex, 1, <<>>),
  Go({48}, {":"}, 136, <<>>),
  Go(49..52, {":"}, 53, <<>>),
  Go({53}, {":"}, 131, <<>>),
  Go(54..57, {":"}, 58, <<>>),
  Go({58}, {":"}, 126, <<>>)}

Uri59to69 == UNION {
  Ahead((63..66) \cup {59, 60, 61}, UriHex, 1, <<>>),
  Go(59..62, {":"}, 63, <<>>),
  Go({63}, {":"}, 113, <<>>),
  Go(64..67, {":"}, 68, <<>>),
  Go({68}, {"3", "5", "6"}, 110, <<>>),
  Go({68}, {"STX"}, 69, <<>>),
  Go({68}, {":"}, 111, <<>>),
  Go({68}, {"0"}, 96, <<>>),
  Go({68}, {"1"}, 104, <<>>),
  Go({68}, {"2"}, 107, <<>>),
  Go({68}, {"A"}, 112, <<>>),
  Go({69}, UriDigit \ {"5", "6"}, 70, <<>>)}

Uri70to86 == UNION {
  Ahead({70, 74, 78, 82, 84}, UriDigit, 1, <<>>),
  Ahead({71, 75, 79}, {"."}, 1, <<>>),
  Ahead({72, 76, 80}, {"STX"}, 1, <<>>),
  Ahead({72, 76, 80}, {"0"}, 3, <<>>),
  Go({72}, {"3", "5", "6"}, 93, <<>>),
  Go({72}, {"1"}, 92, <<>>),
  Go({72}, {"2"}, 94, <<>>),
  Ahead({73, 77, 81}, UriDigit \ {"5", "6"}, 1, <<>>),
  Go({76}, {"3", "5", "6"}, 89, <<>>),
  Go({76}, {"1"}, 88, <<>>),
  Go({76}, {"2"}, 90, <<>>),
  Go({80}, {"3", "5", "6"}, 85, <<>>),
  Go({80}, {"1"}, 84, <<>>),
  Go({80}, {"2"}, 86, <<>>),
  Go(83..86, {"]"}, 460, <<>>),
  Go({85}, UriDigit, 83, <<>>),
  Go({86}, UriDigit \ {"5"}, 83, <<>>),
  Go({86}, {"5"}, 87, <<>>)}

Uri87to99 == UNION {
  Go({87}, UriDigit \ {"6"}, 83, <<>>),
  Go({87}, {"]"}, 460, <<>>),
  Ahead({88, 92}, UriDigit, 1, <<>>),
  Go(88..91, {"."}, 80, <<>>),
  Go({89}, UriDigit, 79, <<>>),
  Go({90}, UriDigit \ {"5"}, 79, <<>>),
  Ahead({90, 94}, {"5"}, 1, <<>>),
  Go({91}, UriDigit \ {"6"}, 79, <<>>),
  Go(92..95, {"."}, 76, <<>>),
  Go({93}, UriDigit, 75, <<>>),
  Go({94}, UriDigit \ {"5"}, 75, <<>>),
  Go({95}, UriDigit \ {"6"}, 75, <<>>),
  Ahead(96..98, UriHex, 1, <<>>),
  Go(96..99, {":"}, 100, <<>>),
  Go({96}, {"."}, 72, <<>>)}

Uri100to108 == UNION {
  Ahead(100..102, UriHex, 1, <<>>),
  Go({100}, {":"}, 83, <<>>),
  Go(101..103, {"]"}, 460, <<>>),
  Go({103}, UriHex, 83, <<>>),
  Go(104..108, {"."}, 72, <<>>),
  Go(104..108, {":"}, 100, <<>>),
  Ahead({104, 105}, UriDigit, 1, <<>>),
  Go({104, 107}, {"A"}, 97, <<>>),
  Go({105}, {"A"}, 98, <<>>),
  Go({106}, UriHex, 99, <<>>),
  Go({107}, UriDigit \ {"5"}, 108, <<>>),
  Go({107}, {"5"}, 109, <<>>),
  Go({108}, UriHex, 98, <<>>)}

Uri109to117 == UNION {
  Go({109, 110, 114}, {"."}, 72, <<>>),
  Go({109, 110, 112}, {":"}, 100, <<>>),
  Go({109}, UriDigit \ {"6"}, 106, <<>>),
  Go({109}, {"6", "A"}, 98, <<>>),
  Go({110}, UriDigit, 108, <<>>),
  Go({110}, {"A"}, 97, <<>>),
  Go({111}, UriHex, 101, <<>>),
  Go({112}, UriHex, 97, <<>>),
  Go({113}, {"3", "5", "6"}, 124, <<>>),
  Go({113}, {"STX"}, 69, <<>>),
  Go({113}, {"0"}, 114, <<>>),
  Go({113}, {"1"}, 118, <<>>),
  Go({113}, {"2"}, 121, <<>>),
  Go({113}, {"A"}, 125, <<>>),
  Ahead(114..116, UriHex, 1, <<>>),
  Go(114..117, {":"}, 111, <<>>)}

Uri118to125 == UNION {
  Go(118..125, {":"}, 111, <<>>),
  Go(118..124, {"."}, 72, <<>>),
  Ahead({118, 119}, UriDigit, 1, <<>>),
  Go({118, 121, 124}, {"A"}, 115, <<>>),
  Go({119}, {"A"}, 116, <<>>),
  Go({120}, UriHex, 117, <<>>),
  Go({121}, UriDigit \ {"5"}, 122, <<>>),
  Go({121}, {"5"}, 123, <<>>),
  Go({122}, UriHex, 116, <<>>),
  Go({123}, UriDigit \ {"6"}, 120, <<>>),
  Go({123}, {"6", "A"}, 116, <<>>),
  Go({124}, UriDigit, 122, <<>>),
  Go({125}, UriHex, 115, <<>>)}

Uri126to136 == UNION {
  Ahead((126..129) \cup (131..134) \cup {136}, UriHex, 1, <<>>),
  Go(127..130, {":"}, 113, <<>>),
  Go(132..135, {":"}, 126, <<>>)}

Uri137to147 == UNION {
  Ahead((141..144) \cup {137, 138, 139}, UriHex, 1, <<>>),
  Go(137..140, {":"}, 131, <<>>),
  Go(142..145, {":"}, 136, <<>>),
  Go({146}, {":"}, 147, <<>>),
  Go({147}, {"3", "5", "6"}, 223, <<>>),
  Go({147}, {"STX"}, 69, <<>>),
  Go({147}, {"]"}, 460, <<>>),
  Go({147}, {"0"}, 148, <<>>),
  Go({147}, {"1"}, 217, <<>>),
  Go({147}, {"2"}, 220, <<>>),
  Go({147}, {"A"}, 224, <<>>)}

Uri148to156 == UNION {
  Ahead({148, 149, 150, 153, 154, 155}, UriHex, 1, <<>>),
  Go((148..151) \cup (153..156), {"]"}, 460, <<>>),
  Go(148..151, {":"}, 152, <<>>),
  Go({148, 153}, {"."}, 72, <<>>),
  Go({152}, {"3", "5", "6"}, 215, <<>>),
  Go({152}, {"STX"}, 69, <<>>),
  Go({152}, {"0"}, 153, <<>>),
  Go({152}, {"1"}, 209, <<>>),
  Go({152}, {"2"}, 212, <<>>),
  Go({152}, {"A"}, 216, <<>>),
  Go(153..156, {":"}, 157, <<>>)}

Uri157to164 == UNION {
  Go({157, 162}, {"STX"}, 69, <<>>),
  Ahead({157, 162}, {"0"}, 1, <<>>),
  Go({157}, {"3", "5", "6"}, 207, <<>>),
  Go({157}, {"1"}, 201, <<>>),
  Go({157}, {"2"}, 204, <<>>),
  Go({157}, {"A"}, 208, <<>>),
  Ahead({158, 159, 160, 163, 164}, UriHex, 1, <<>>),
  Go((158..161) \cup {163, 164}, {"]"}, 460, <<>>),
  Go(158..161, {":"}, 162, <<>>),
  Go({158, 163}, {"."}, 72, <<>>),
  Go({162}, {"3", "5", "6"}, 199, <<>>),
  Go({162}, {"1"}, 193, <<>>),
  Go({162}, {"2"}, 196, <<>>),
  Go({162}, {"A"}, 200, <<>>),
  Go({163, 164}, {":"}, 167, <<>>)}

Uri165to173 == UNION {
  Ahead({165, 168, 169, 170, 173}, UriHex, 1, <<>>),
  Go((168..171) \cup {165, 166, 173}, {"]"}, 460, <<>>),
  Go({165, 166}, {":"}, 167, <<>>),
  Go({167, 172}, {"STX"}, 69, <<>>),
  Ahead({167, 172}, {"0"}, 1, <<>>),
  Go({167}, {"3", "5", "6"}, 191, <<>>),
  Go({167}, {"1"}, 185, <<>>),
  Go({167}, {"2"}, 188, <<>>),
  Go({167}, {"A"}, 192, <<>>),
  Go(168..171, {":"}, 172, <<>>),
  Go({168, 173}, {"."}, 72, <<>>),
  Go({172}, {"3", "5", "6"}, 183, <<>>),
  Go({172}, {"1"}, 177, <<>>),
  Go({172}, {"2"}, 180, <<>>),
  Go({172}, {"A"}, 184, <<>>),
  Go({173}, {":"}, 111, <<>>)}

Uri174to181 == UNION {
  Go(174..181, {":"}, 111, <<>>),
  Go(174..181, {"]"}, 460, <<>>),
  Go({174, 181}, UriHex, 175, <<>>),
  Go({175, 179}, UriHex, 176, <<>>),
  Go(177..181, {"."}, 72, <<>>),
  Ahead({177, 178}, UriDigit, 1, <<>>),
  Go({177, 180}, {"A"}, 174, <<>>),
  Go({178}, {"A"}, 175, <<>>),
  Go({180}, UriDigit \ {"5"}, 181, <<>>),
  Go({180}, {"5"}, 182, <<>>)}

Uri182to189 == UNION {
  Go(182..189, {"]"}, 460, <<>>),
  Go((185..189) \cup {182, 183}, {"."}, 72, <<>>),
  Go(182..184, {":"}, 111, <<>>),
  Go({182}, UriDigit \ {"6"}, 179, <<>>),
  Go({182}, {"6", "A"}, 175, <<>>),
  Go({183}, UriDigit, 181, <<>>),
  Go({183}, {"A"}, 174, <<>>),
  Go({184}, UriHex, 174, <<>>),
  Go(185..189, {":"}, 172, <<>>),
  Ahead({185, 186}, UriDigit, 1, <<>>),
  Go({185, 188}, {"A"}, 169, <<>>),
  Go({186}, {"A"}, 170, <<>>),
  Go({187}, UriHex, 171, <<>>),
  Go({188}, UriDigit \ {"5"}, 189, <<>>),
  Go({188}, {"5"}, 190, <<>>),
  Go({189}, UriHex, 170, <<>>)}

Uri190to197 == UNION {
  Go(190..197, {"]"}, 460, <<>>),
  Go((193..197) \cup {190, 191}, {"."}, 72, <<>>),
  Go(190..192, {":"}, 172, <<>>),
  Go({190}, UriDigit \ {"6"}, 187, <<>>),
  Go({190}, {"6", "A"}, 170, <<>>),
  Go({191}, UriDigit, 189, <<>>),
  Go({191}, {"A"}, 169, <<>>),
  Go({192}, UriHex, 169, <<>>),
  Go(193..197, {":"}, 167, <<>>),
  Ahead({193, 194}, UriDigit, 1, <<>>),
  Go({193, 196}, {"A"}, 164, <<>>),
  Go({194}, {"A"}, 165, <<>>),
  Go({195}, UriHex, 166, <<>>),
  Go({196}, UriDigit \ {"5"}, 197, <<>>),
  Go({196}, {"5"}, 198, <<>>),
  Go({197}, UriHex, 165, <<>>)}

Uri198to205 == UNION {
  Go(198..205, {"]"}, 460, <<>>),
  Go((201..205) \cup {198, 199}, {"."}, 72, <<>>),
  Go(198..200, {":"}, 167, <<>>),
  Go({198}, UriDigit \ {"6"}, 195, <<>>),
  Go({198}, {"6", "A"}, 165, <<>>),
  Go({199}, UriDigit, 197, <<>>),
  Go({199}, {"A"}, 164, <<>>),
  Go({200}, UriHex, 164, <<>>),
  Go(201..205, {":"}, 162, <<>>),
  Ahead({201, 202}, UriDigit, 1, <<>>),
  Go({201, 204}, {"A"}, 159, <<>>),
  Go({202}, {"A"}, 160, <<>>),
  Go({203}, UriHex, 161, <<>>),
  Go({204}, UriDigit \ {"5"}, 205, <<>>),
  Go({204}, {"5"}, 206, <<>>),
  Go({205}, UriHex, 160, <<>>)}

Uri206to213 == UNION {
  Go(206..213, {"]"}, 460, <<>>),
  Go((209..213) \cup {206, 207}, {"."}, 72, <<>>),
  Go(206..208, {":"}, 162, <<>>),
  Go({206}, UriDigit \ {"6"}, 203, <<>>),
  Go({206}, {"6", "A"}, 160, <<>>),
  Go({207}, UriDigit, 205, <<>>),
  Go({207}, {"A"}, 159, <<>>),
  Go({208}, UriHex, 159, <<>>),
  Go(209..213, {":"}, 157, <<>>),
  Ahead({209, 210}, UriDigit, 1, <<>>),
  Go({209, 212}, {"A"}, 154, <<>>),
  Go({210}, {"A"}, 155, <<>>),
  Go({211}, UriHex, 156, <<>>),
  Go({212}, UriDigit \ {"5"}, 213, <<>>),
  Go({212}, {"5"}, 214, <<>>),
  Go({213}, UriHex, 155, <<>>)}

Uri214to221 == UNION {
  Go(214..221, {"]"}, 460, <<>>),
  Go((217..221) \cup {214, 215}, {"."}, 72, <<>>),
  Go(214..216, {":"}, 157, <<>>),
  Go({214}, UriDigit \ {"6"}, 211, <<>>),
  Go({214}, {"6", "A"}, 155, <<>>),
  Go({215}, UriDigit, 213, <<>>),
  Go({215}, {"A"}, 154, <<>>),
  Go({216}, UriHex, 154, <<>>),
  Go(217..221, {":"}, 152, <<>>),
  Ahead({217, 218}, UriDigit, 1, <<>>),
  Go({217, 220}, {"A"}, 149, <<>>),
  Go({218}, {"A"}, 150, <<>>),
  Go({219}, UriHex, 151, <<>>),
  Go({220}, UriDigit \ {"5"}, 221, <<>>),
  Go({220}, {"5"}, 222, <<>>),
  Go({221}, UriHex, 150, <<>>)}

Uri222to228 == UNION {
  Go({222, 223, 224, 228}, {"]"}, 460, <<>>),
  Go(222..224, {":"}, 152, <<>>),
  Go({222}, UriDigit \ {"6"}, 219, <<>>),
  Go({222, 223}, {"."}, 72, <<>>),
  Go({222}, {"6", "A"}, 150, <<>>),
  Go({223}, UriDigit, 221, <<>>),
  Go({223}, {"A"}, 149, <<>>),
  Go({224}, UriHex, 149, <<>>),
  Go({225, 226}, UriHex, 226, <<>>),
  Go({226}, {"."}, 227, <<>>),
  Go({227, 228}, NameChar \cup {":"}, 228, <<>>)}

Uri489to492 == UNION {
  Go(489..492, {"@"}, 469, <<"save_userinfo">>),
  Go({489}, {"!", "+", ".", ":", "A", "G", "v"}, 33, <<>>),
  Go({489}, UriDigit, 489, <<>>),
  Go({489}, {"%"}, 34, <<>>),
  Go({489}, {"/"}, 455, <<"save_port">>),
  Go({489}, {"?"}, 456, <<"save_port">>),
  Go({489}, {"#"}, 453, <<"save_port">>),
  Go({490, 492}, NameChar \ {"."}, 467, <<>>),
  Go(490..492, {"%"}, 31, <<>>),
  Go(490..492, {"/"}, 455, <<"save_host">>),
  Go(490..492, {"?"}, 456, <<"save_host">>),
  Go(490..492, {"#"}, 453, <<"save_host">>),
  Go(490..492, {":"}, 468, <<"save_host">>),
  Ahead({490, 492}, {"."}, 1, <<>>),
  Go({491}, {"!", "+", ".", "A", "G", "v"}, 467, <<>>),
  Go({491}, {"3", "5", "6"}, 501, <<>>),
  Go({491}, {"STX"}, 13, <<>>),
  Go({491}, {"0"}, 492, <<>>),
  Go({491}, {"1"}, 500, <<>>),
  Go({491}, {"2"}, 502, <<>>)}

Uri493to497 == UNION {
  Go(493..497, {"%"}, 31, <<>>),
  Go(493..497, {"/"}, 455, <<"save_host">>),
  Go(493..497, {"?"}, 456, <<"save_host">>),
  Go(493..497, {"#"}, 453, <<"save_host">>),
  Go(493..497, {":"}, 468, <<"save_host">>),
  Go(493..497, {"@"}, 469, <<"save_userinfo">>),
  Go({493}, {"!", "+", ".", "A", "G", "v"}, 467, <<>>),
  Go({493}, {"3", "5", "6"}, 497, <<>>),
  Go({493}, {"STX"}, 17, <<>>),
  Go({493}, {"0"}, 494, <<>>),
  Go({493}, {"1"}, 496, <<>>),
  Go({493}, {"2"}, 498, <<>>),
  Go({494, 496, 497}, {"."}, 495, <<>>),
  Go({494}, NameChar \ {"."}, 467, <<>>),
  Go({495}, NameChar, 467, <<>>),
  Go({495}, {"STX"}, 21, <<>>),
  Go({496, 497}, {"!", "+", "A", "G", "v"}, 467, <<>>),
  Go({496}, UriDigit, 497, <<>>),
  Go({497}, UriDigit, 494, <<>>)}

Uri498to501 == UNION {
  Go({498, 500, 501}, {"!", "+", "A", "G", "v"}, 467, <<>>),
  Go(498..501, {"%"}, 31, <<>>),
  Go(498..501, {"/"}, 455, <<"save_host">>),
  Go(498..501, {"?"}, 456, <<"save_host">>),
  Go(498..501, {"#"}, 453, <<"save_host">>),
  Go(498..501, {":"}, 468, <<"save_host">>),
  Go(498..501, {"@"}, 469, <<"save_userinfo">>),
  Go({498}, UriDigit \ {"5"}, 494, <<>>),
  Go({498, 499}, {"."}, 495, <<>>),
  Go({498}, {"5"}, 499, <<>>),
  Go({499}, {"!", "+", "6", "A", "G", "v"}, 467, <<>>),
  Go({499}, UriDigit \ {"6"}, 494, <<>>),
  Go({500}, UriDigit, 501, <<>>),
  Go({500, 501}, {"."}, 493, <<>>),
  Go({501}, UriDigit, 492, <<>>)}

Uri502to505 == UNION {
  Go({502, 504, 505}, {"!", "+", "A", "G", "v"}, 467, <<>>),
  Go(502..505, {"%"}, 31, <<>>),
  Go(502..505, {"/"}, 455, <<"save_host">>),
  Go(502..505, {"?"}, 456, <<"save_host">>),
  Go(502..505, {"#"}, 453, <<"save_host">>),
  Go(502..505, {":"}, 468, <<"save_host">>),
  Go(502..505, {"@"}, 469, <<"save_userinfo">>),
  Go({502}, UriDigit \ {"5"}, 492, <<>>),
  Go({502, 503}, {"."}, 493, <<>>),
  Go({502}, {"5"}, 503, <<>>),
  Go({503}, {"!", "+", "6", "A", "G", "v"}, 467, <<>>),
  Go({503}, UriDigit \ {"6"}, 492, <<>>),
  Go({504}, UriDigit, 505, <<>>),
  Go({504, 505}, {"."}, 491, <<>>),
  Go({505}, UriDigit, 490, <<>>)}

Uri506to509 == UNION {
  Go({506}, {"!", "+", "A", "G", "v"}, 467, <<>>),
  Go({506}, UriDigit \ {"5"}, 490, <<>>),
  Go({506, 507}, {"."}, 491, <<>>),
  Go({506, 507}, {"%"}, 31, <<>>),
  Go({506, 507}, {"/"}, 455, <<"save_host">>),
  Go({506, 507}, {"?"}, 456, <<"save_host">>),
  Go({506, 507}, {"#"}, 453, <<"save_host">>),
  Go({506, 507}, {":"}, 468, <<"save_host">>),
  Go({506, 507}, {"@"}, 469, <<"save_userinfo">>),
  Go({506}, {"5"}, 507, <<>>),
  Go({507}, {"!", "+", "6", "A", "G", "v"}, 467, <<>>),
  Go({507}, UriDigit \ {"6"}, 490, <<>>),
  Go({508}, SchemeChar, 508, <<>>),
  Go({508, 509}, {"?"}, 456, <<>>),
  Go({508, 509}, {"#"}, 453, <<>>),
  Go({508}, {"high", "!", "@"}, 452, <<>>),
  Go({508}, {"%"}, 3, <<>>),
  Go({508}, {"/"}, 455, <<>>),
  Go({508}, {":"}, 509, <<"save_scheme">>),
  Go({509}, PathChar, 455, <<>>),
  Go({509}, {"%"}, 5, <<>>),
  Go({509}, {"/"}, 510, <<>>)}

Uri510to238 == UNION {
  Ahead({229, 233, 237}, UriDigit \ {"5", "6"}, 1, <<>>),
  Ahead({230, 234, 238}, UriDigit, 1, <<>>),
  Ahead({231, 235}, {"."}, 1, <<>>),
  Ahead({232, 236}, {"STX"}, 1, <<>>),
  Ahead({232, 236}, {"0"}, 3, <<>>),
  Go({232}, {"3", "5", "6"}, 250, <<>>),
  Go({232}, {"1"}, 249, <<>>),
  Go({232}, {"2"}, 251, <<>>),
  Go({236}, {"3", "5", "6"}, 246, <<>>),
  Go({236}, {"1"}, 245, <<>>),
  Go({236}, {"2"}, 247, <<>>),
  Go({510}, PathChar, 455, <<>>),
  Go({510}, {"%"}, 5, <<>>),
  Go({510}, {"/"}, 511, <<>>),
  Go({510}, {"?"}, 456, <<>>),
  Go({510}, {"#"}, 453, <<>>),
  Go({511}, {"!", "+", ".", "A", "G", "v"}, 520, <<"mark">>),
  Go({511}, {"3", "5", "6"}, 558, <<"mark">>),
  Go({511}, {"STX"}, 229, <<"mark">>),
  Go({511}, {"%"}, 253, <<"mark">>),
  Go({511}, {"/"}, 513, <<"mark", "save_host">>),
  Go({511}, {"?"}, 456, <<"mark", "save_host", "save_path">>),
  Go({511}, {"#"}, 453, <<"mark", "save_host", "save_path">>),
  Go({511}, {":"}, 521, <<"mark", "save_host">>),
  Go({511}, {"@"}, 522, <<"mark", "save_userinfo">>),
  Go({511}, {"["}, 260, <<"mark">>),
  Go({511}, {"0"}, 543, <<"mark">>),
  Go({511}, {"1"}, 557, <<"mark">>),
  Go({511}, {"2"}, 559, <<"mark">>)}

Uri239to244 == UNION {
  Go({239}, {"."}, 240, <<>>),
  Go({240}, {"3", "5", "6"}, 517, <<>>),
  Go({240}, {"STX"}, 241, <<>>),
  Go({240}, {"0"}, 512, <<>>),
  Go({240}, {"1"}, 516, <<>>),
  Go({240}, {"2"}, 518, <<>>),
  Go({241}, UriDigit \ {"5", "6"}, 242, <<>>),
  Go({242}, UriDigit, 512, <<>>),
  Go({243}, UriHex, 244, <<>>),
  Go({244}, UriHex, 513, <<>>),
  Go({512}, {"/"}, 513, <<"save_host", "mark">>),
  Go({512}, {"?"}, 456, <<"save_host", "mark", "save_path">>),
  Go({512}, {"#"}, 453, <<"save_host", "mark", "save_path">>),
  Go({512}, {":"}, 514, <<"save_host">>),
  Go({513}, PathChar \cup {"/"}, 513, <<>>),
  Go({513}, {"%"}, 243, <<>>),
  Go({513}, {"?"}, 456, <<"save_path">>),
  Go({513}, {"#"}, 453, <<"save_path">>)}

Uri514to249 == UNION {
  Ahead({245, 249, 516}, UriDigit, 1, <<>>),
  Go(245..248, {"."}, 240, <<>>),
  Go({246}, UriDigit, 239, <<>>),
  Go({247}, UriDigit \ {"5"}, 239, <<>>),
  Ahead({247, 518}, {"5"}, 1, <<>>),
  Go({248}, UriDigit \ {"6"}, 239, <<>>),
  Go({249}, {"."}, 236, <<>>),
  Go({514}, UriDigit, 515, <<"mark">>),
  Go({514}, {"/"}, 513, <<"mark", "save_port">>),
  Go({514}, {"?"}, 456, <<"mark", "save_port", "save_path">>),
  Go({514}, {"#"}, 453, <<"mark", "save_port", "save_path">>),
  Go({515}, UriDigit, 515, <<>>),
  Go({515}, {"/"}, 513, <<"save_port", "mark">>),
  Go({515}, {"?"}, 456, <<"save_port", "mark", "save_path">>),
  Go({515}, {"#"}, 453, <<"save_port", "mark", "save_path">>),
  Go(516..519, {"/"}, 513, <<"save_host", "mark">>),
  Go(516..519, {"?"}, 456, <<"save_host", "mark", "save_path">>),
  Go(516..519, {"#"}, 453, <<"save_host", "mark", "save_path">>),
  Go(516..519, {":"}, 514, <<"save_host">>),
  Go({517}, UriDigit, 512, <<>>),
  Go({518}, UriDigit \ {"5"}, 512, <<>>),
  Go({519}, UriDigit \ {"6"}, 512, <<>>)}

Uri250to521 == UNION {
  Go(250..252, {"."}, 236, <<>>),
  Go({250}, UriDigit, 235, <<>>),
  Go({251}, UriDigit \ {"5"}, 235, <<>>),
  Go({251}, {"5"}, 252, <<>>),
  Go({252}, UriDigit \ {"6"}, 235, <<>>),
  Go({253}, UriHex, 254, <<>>),
  Go({254}, UriHex, 520, <<>>),
  Go({520}, NameChar, 520, <<>>),
  Go({520, 521}, {"@"}, 522, <<"save_userinfo">>),
  Go({520}, {"%"}, 253, <<>>),
  Go({520}, {"/"}, 513, <<"save_host", "mark">>),
  Go({520}, {"?"}, 456, <<"save_host", "mark", "save_path">>),
  Go({520}, {"#"}, 453, <<"save_host", "mark", "save_path">>),
  Go({520}, {":"}, 521, <<"save_host">>),
  Go({521}, {"!", "+", ".", ":", "A", "G", "v"}, 255, <<>>),
  Go({521}, UriDigit, 542, <<"mark">>),
  Go({521}, {"%"}, 256, <<>>),
  Go({521}, {"/"}, 513, <<"mark", "save_port">>),
  Go({521}, {"?"}, 456, <<"mark", "save_port", "save_path">>),
  Go({521}, {"#"}, 453, <<"mark", "save_port", "save_path">>)}

Uri255to523 == UNION {
  Go({255}, NameChar \cup {":"}, 255, <<>>),
  Go({255}, {"%"}, 256, <<>>),
  Go({255}, {"@"}, 522, <<"save_userinfo">>),
  Go({256}, UriHex, 257, <<>>),
  Go({257}, UriHex, 255, <<>>),
  Go({522}, {"!", "+", ".", "A", "G", "v"}, 523, <<"mark">>),
  Go({522}, {"3", "5", "6"}, 539, <<"mark">>),
  Go({522}, {"STX"}, 229, <<"mark">>),
  Go({522}, {"%"}, 258, <<"mark">>),
  Go({522}, {"/"}, 513, <<"mark", "save_host">>),
  Go({522}, {"?"}, 456, <<"mark", "save_host", "save_path">>),
  Go({522}, {"#"}, 453, <<"mark", "save_host", "save_path">>),
  Go({522}, {":"}, 514, <<"mark", "save_host">>),
  Go({522}, {"["}, 260, <<"mark">>),
  Go({522}, {"0"}, 524, <<"mark">>),
  Go({522}, {"1"}, 538, <<"mark">>),
  Go({522}, {"2"}, 540, <<"mark">>),
  Go({523}, NameChar, 523, <<>>),
  Go({523}, {"%"}, 258, <<>>),
  Go({523}, {"/"}, 513, <<"save_host", "mark">>),
  Go({523}, {"?"}, 456, <<"save_host", "mark", "save_path">>),
  Go({523}, {"#"}, 453, <<"save_host", "mark", "save_path">>),
  Go({523}, {":"}, 514, <<"save_host">>)}

Uri258to527 == UNION {
  Go({258}, UriHex, 259, <<>>),
  Go({259}, UriHex, 523, <<>>),
  Go({524, 526}, NameChar \ {"."}, 523, <<>>),
  Go(524..527, {"%"}, 258, <<>>),
  Go(524..527, {"/"}, 513, <<"save_host", "mark">>),
  Go(524..527, {"?"}, 456, <<"save_host", "mark", "save_path">>),
  Go(524..527, {"#"}, 453, <<"save_host", "mark", "save_path">>),
  Go(524..527, {":"}, 514, <<"save_host">>),
  Ahead({524, 526}, {"."}, 1, <<>>),
  Go({525, 527}, {"!", "+", ".", "A", "G", "v"}, 523, <<>>),
  Ahead({525, 527}, {"0"}, 1, <<>>),
  Go({525}, {"3", "5", "6"}, 535, <<>>),
  Go({525}, {"STX"}, 233, <<>>),
  Go({525}, {"1"}, 534, <<>>),
  Go({525}, {"2"}, 536, <<>>),
  Go({527}, {"3", "5", "6"}, 531, <<>>),
  Go({527}, {"STX"}, 237, <<>>),
  Go({527}, {"1"}, 530, <<>>),
  Go({527}, {"2"}, 532, <<>>)}

Uri528to532 == UNION {
  Go(528..532, {"%"}, 258, <<>>),
  Go(528..532, {"/"}, 513, <<"save_host", "mark">>),
  Go(528..532, {"?"}, 456, <<"save_host", "mark", "save_path">>),
  Go(528..532, {"#"}, 453, <<"save_host", "mark", "save_path">>),
  Go(528..532, {":"}, 514, <<"save_host">>),
  Go({528, 530, 531, 532}, {"."}, 529, <<>>),
  Go({528}, NameChar \ {"."}, 523, <<>>),
  Go({529}, NameChar, 523, <<>>),
  Go({529}, {"STX"}, 241, <<>>),
  Go(530..532, {"!", "+", "A", "G", "v"}, 523, <<>>),
  Go({530}, UriDigit, 531, <<>>),
  Go({531}, UriDigit, 528, <<>>),
  Go({532}, UriDigit \ {"5"}, 528, <<>>),
  Go({532}, {"5"}, 533, <<>>)}

Uri533to537 == UNION {
  Go(533..537, {"%"}, 258, <<>>),
  Go(533..537, {"/"}, 513, <<"save_host", "mark">>),
  Go(533..537, {"?"}, 456, <<"save_host", "mark", "save_path">>),
  Go(533..537, {"#"}, 453, <<"save_host", "mark", "save_path">>),
  Go(533..537, {":"}, 514, <<"save_host">>),
  Go({533, 537}, {"!", "+", "6", "A", "G", "v"}, 523, <<>>),
  Go({533}, UriDigit \ {"6"}, 528, <<>>),
  Go({533}, {"."}, 529, <<>>),
  Go(534..536, {"!", "+", "A", "G", "v"}, 523, <<>>),
  Go(534..537, {"."}, 527, <<>>),
  Go({534}, UriDigit, 535, <<>>),
  Go({535}, UriDigit, 526, <<>>),
  Go({536}, UriDigit \ {"5"}, 526, <<>>),
  Go({536}, {"5"}, 537, <<>>),
  Go({537}, UriDigit \ {"6"}, 526, <<>>)}

Uri538to541 == UNION {
  Go(538..540, {"!", "+", "A", "G", "v"}, 523, <<>>),
  Go(538..541, {"."}, 525, <<>>),
  Go(538..541, {"%"}, 258, <<>>),
  Go(538..541, {"/"}, 513, <<"save_host", "mark">>),
  Go(538..541, {"?"}, 456, <<"save_host", "mark", "save_path">>),
  Go(538..541, {"#"}, 453, <<"save_host", "mark", "save_path">>),
  Go(538..541, {":"}, 514, <<"save_host">>),
  Go({538}, UriDigit, 539, <<>>),
  Go({539}, UriDigit, 524, <<>>),
  Go({540}, UriDigit \ {"5"}, 524, <<>>),
  Go({540}, {"5"}, 541, <<>>),
  Go({541}, {"!", "+", "6", "A", "G", "v"}, 523, <<>>),
  Go({541}, UriDigit \ {"6"}, 524, <<>>)}

Uri260to269 == UNION {
  Ahead((260..263) \cup (265..268), UriHex, 1, <<>>),
  Go({260}, {":"}, 368, <<>>),
  Go({260}, {"v"}, 447, <<>>),
  Go(261..264, {":"}, 265, <<>>),
  Go({265}, {":"}, 363, <<>>),
  Go(266..269, {":"}, 270, <<>>)}

Uri270to280 == UNION {
  Ahead((270..273) \cup (275..278) \cup {280}, UriHex, 1, <<>>),
  Go({270}, {":"}, 358, <<>>),
  Go(271..274, {":"}, 275, <<>>),
  Go({275}, {":"}, 353, <<>>),
  Go(276..279, {":"}, 280, <<>>),
  Go({280}, {":"}, 348, <<>>)}

Uri281to291 == UNION {
  Ahead((285..288) \cup {281, 282, 283}, UriHex, 1, <<>>),
  Go(281..284, {":"}, 285, <<>>),
  Go({285}, {":"}, 335, <<>>),
  Go(286..289, {":"}, 290, <<>>),
  Go({290}, {"3", "5", "6"}, 332, <<>>),
  Go({290}, {"STX"}, 291, <<>>),
  Go({290}, {":"}, 333, <<>>),
  Go({290}, {"0"}, 318, <<>>),
  Go({290}, {"1"}, 326, <<>>),
  Go({290}, {"2"}, 329, <<>>),
  Go({290}, {"A"}, 334, <<>>),
  Go({291}, UriDigit \ {"5", "6"}, 292, <<>>)}

Uri292to308 == UNION {
  Ahead({292, 296, 300, 304, 306}, UriDigit, 1, <<>>),
  Ahead({293, 297, 301}, {"."}, 1, <<>>),
  Ahead({294, 298, 302}, {"STX"}, 1, <<>>),
  Ahead({294, 298, 302}, {"0"}, 3, <<>>),
  Go({294}, {"3", "5", "6"}, 315, <<>>),
  Go({294}, {"1"}, 314, <<>>),
  Go({294}, {"2"}, 316, <<>>),
  Ahead({295, 299, 303}, UriDigit \ {"5", "6"}, 1, <<>>),
  Go({298}, {"3", "5", "6"}, 311, <<>>),
  Go({298}, {"1"}, 310, <<>>),
  Go({298}, {"2"}, 312, <<>>),
  Go({302}, {"3", "5", "6"}, 307, <<>>),
  Go({302}, {"1"}, 306, <<>>),
  Go({302}, {"2"}, 308, <<>>),
  Go(305..308, {"]"}, 512, <<>>),
  Go({307}, UriDigit, 305, <<>>),
  Go({308}, UriDigit \ {"5"}, 305, <<>>),
  Go({308}, {"5"}, 309, <<>>)}

Uri309to321 == UNION {
  Go({309}, UriDigit \ {"6"}, 305, <<>>),
  Go({309}, {"]"}, 512, <<>>),
  Ahead({310, 314}, UriDigit, 1, <<>>),
  Go(310..313, {"."}, 302, <<>>),
  Go({311}, UriDigit, 301, <<>>),
  Go({312}, UriDigit \ {"5"}, 301, <<>>),
  Ahead({312, 316}, {"5"}, 1, <<>>),
  Go({313}, UriDigit \ {"6"}, 301, <<>>),
  Go(314..317, {"."}, 298, <<>>),
  Go({315}, UriDigit, 297, <<>>),
  Go({316}, UriDigit \ {"5"}, 297, <<>>),
  Go({317}, UriDigit \ {"6"}, 297, <<>>),
  Ahead(318..320, UriHex, 1, <<>>),
  Go(318..321, {":"}, 322, <<>>),
  Go({318}, {"."}, 294, <<>>)}

Uri322to330 == UNION {
  Ahead(322..324, UriHex, 1, <<>>),
  Go({322}, {":"}, 305, <<>>),
  Go(323..325, {"]"}, 512, <<>>),
  Go({325}, UriHex, 305, <<>>),
  Go(326..330, {"."}, 294, <<>>),
  Go(326..330, {":"}, 322, <<>>),
  Ahead({326, 327}, UriDigit, 1, <<>>),
  Go({326, 329}, {"A"}, 319, <<>>),
  Go({327}, {"A"}, 320, <<>>),
  Go({328}, UriHex, 321, <<>>),
  Go({329}, UriDigit \ {"5"}, 330, <<>>),
  Go({329}, {"5"}, 331, <<>>),
  Go({330}, UriHex, 320, <<>>)}

Uri331to339 == UNION {
  Go({331, 332, 336}, {"."}, 294, <<>>),
  Go({331, 332, 334}, {":"}, 322, <<>>),
  Go({331}, UriDigit \ {"6"}, 328, <<>>),
  Go({331}, {"6", "A"}, 320, <<>>),
  Go({332}, UriDigit, 330, <<>>),
  Go({332}, {"A"}, 319, <<>>),
  Go({333}, UriHex, 323, <<>>),
  Go({334}, UriHex, 319, <<>>),
  Go({335}, {"3", "5", "6"}, 346, <<>>),
  Go({335}, {"STX"}, 291, <<>>),
  Go({335}, {"0"}, 336, <<>>),
  Go({335}, {"1"}, 340, <<>>),
  Go({335}, {"2"}, 343, <<>>),
  Go({335}, {"A"}, 347, <<>>),
  Ahead(336..338, UriHex, 1, <<>>),
  Go(336..339, {":"}, 333, <<>>)}

Uri340to347 == UNION {
  Go(340..347, {":"}, 333, <<>>),
  Go(340..346, {"."}, 294, <<>>),
  Ahead({340, 341}, UriDigit, 1, <<>>),
  Go({340, 343, 346}, {"A"}, 337, <<>>),
  Go({341}, {"A"}, 338, <<>>),
  Go({342}, UriHex, 339, <<>>),
  Go({343}, UriDigit \ {"5"}, 344, <<>>),
  Go({343}, {"5"}, 345, <<>>),
  Go({344}, UriHex, 338, <<>>),
  Go({345}, UriDigit \ {"6"}, 342, <<>>),
  Go({345}, {"6", "A"}, 338, <<>>),
  Go({346}, UriDigit, 344, <<>>),
  Go({347}, UriHex, 337, <<>>)}

Uri348to358 == UNION {
  Ahead((348..351) \cup (353..356) \cup {358}, UriHex, 1, <<>>),
  Go(349..352, {":"}, 335, <<>>),
  Go(354..357, {":"}, 348, <<>>)}

Uri359to369 == UNION {
  Ahead((363..366) \cup {359, 360, 361}, UriHex, 1, <<>>),
  Go(359..362, {":"}, 353, <<>>),
  Go(364..367, {":"}, 358, <<>>),
  Go({368}, {":"}, 369, <<>>),
  Go({369}, {"3", "5", "6"}, 445, <<>>),
  Go({369}, {"STX"}, 291, <<>>),
  Go({369}, {"]"}, 512, <<>>),
  Go({369}, {"0"}, 370, <<>>),
  Go({369}, {"1"}, 439, <<>>),
  Go({369}, {"2"}, 442, <<>>),
  Go({369}, {"A"}, 446, <<>>)}

Uri370to378 == UNION {
  Ahead({370, 371, 372, 375, 376, 377}, UriHex, 1, <<>>),
  Go((370..373) \cup (375..378), {"]"}, 512, <<>>),
  Go(370..373, {":"}, 374, <<>>),
  Go({370, 375}, {"."}, 294, <<>>),
  Go({374}, {"3", "5", "6"}, 437, <<>>),
  Go({374}, {"STX"}, 291, <<>>),
  Go({374}, {"0"}, 375, <<>>),
  Go({374}, {"1"}, 431, <<>>),
  Go({374}, {"2"}, 434, <<>>),
  Go({374}, {"A"}, 438, <<>>),
  Go(375..378, {":"}, 379, <<>>)}

Uri379to386 == UNION {
  Go({379, 384}, {"STX"}, 291, <<>>),
  Ahead({379, 384}, {"0"}, 1, <<>>),
  Go({379}, {"3", "5", "6"}, 429, <<>>),
  Go({379}, {"1"}, 423, <<>>),
  Go({379}, {"2"}, 426, <<>>),
  Go({379}, {"A"}, 430, <<>>),
  Ahead({380, 381, 382, 385, 386}, UriHex, 1, <<>>),
  Go((380..383) \cup {385, 386}, {"]"}, 512, <<>>),
  Go(380..383, {":"}, 384, <<>>),
  Go({380, 385}, {"."}, 294, <<>>),
  Go({384}, {"3", "5", "6"}, 421, <<>>),
  Go({384}, {"1"}, 415, <<>>),
  Go({384}, {"2"}, 418, <<>>),
  Go({384}, {"A"}, 422, <<>>),
  Go({385, 386}, {":"}, 389, <<>>)}

Uri387to395 == UNION {
  Ahead({387, 390, 391, 392, 395}, UriHex, 1, <<>>),
  Go((390..393) \cup {387, 388, 395}, {"]"}, 512, <<>>),
  Go({387, 388}, {":"}, 389, <<>>),
  Go({389, 394}, {"STX"}, 291, <<>>),
  Ahead({389, 394}, {"0"}, 1, <<>>),
  Go({389}, {"3", "5", "6"}, 413, <<>>),
  Go({389}, {"1"}, 407, <<>>),
  Go({389}, {"2"}, 410, <<>>),
  Go({389}, {"A"}, 414, <<>>),
  Go(390..393, {":"}, 394, <<>>),
  Go({390, 395}, {"."}, 294, <<>>),
  Go({394}, {"3", "5", "6"}, 405, <<>>),
  Go({394}, {"1"}, 399, <<>>),
  Go({394}, {"2"}, 402, <<>>),
  Go({394}, {"A"}, 406, <<>>),
  Go({395}, {":"}, 333, <<>>)}

Uri396to403 == UNION {
  Go(396..403, {":"}, 333, <<>>),
  Go(396..403, {"]"}, 512, <<>>),
  Go({396, 403}, UriHex, 397, <<>>),
  Go({397, 401}, UriHex, 398, <<>>),
  Go(399..403, {"."}, 294, <<>>),
  Ahead({399, 400}, UriDigit, 1, <<>>),
  Go({399, 402}, {"A"}, 396, <<>>),
  Go({400}, {"A"}, 397, <<>>),
  Go({402}, UriDigit \ {"5"}, 403, <<>>),
  Go({402}, {"5"}, 404, <<>>)}

Uri404to411 == UNION {
  Go(404..411, {"]"}, 512, <<>>),
  Go((407..411) \cup {404, 405}, {"."}, 294, <<>>),
  Go(404..406, {":"}, 333, <<>>),
  Go({404}, UriDigit \ {"6"}, 401, <<>>),
  Go({404}, {"6", "A"}, 397, <<>>),
  Go({405}, UriDigit, 403, <<>>),
  Go({405}, {"A"}, 396, <<>>),
  Go({406}, UriHex, 396, <<>>),
  Go(407..411, {":"}, 394, <<>>),
  Ahead({407, 408}, UriDigit, 1, <<>>),
  Go({407, 410}, {"A"}, 391, <<>>),
  Go({408}, {"A"}, 392, <<>>),
  Go({409}, UriHex, 393, <<>>),
  Go({410}, UriDigit \ {"5"}, 411, <<>>),
  Go({410}, {"5"}, 412, <<>>),
  Go({411}, UriHex, 392, <<>>)}

Uri412to419 == UNION {
  Go(412..419, {"]"}, 512, <<>>),
  Go((415..419) \cup {412, 413}, {"."}, 294, <<>>),
  Go(412..414, {":"}, 394, <<>>),
  Go({412}, UriDigit \ {"6"}, 409, <<>>),
  Go({412}, {"6", "A"}, 392, <<>>),
  Go({413}, UriDigit, 411, <<>>),
  Go({413}, {"A"}, 391, <<>>),
  Go({414}, UriHex, 391, <<>>),
  Go(415..419, {":"}, 389, <<>>),
  Ahead({415, 416}, UriDigit, 1, <<>>),
  Go({415, 418}, {"A"}, 386, <<>>),
  Go({416}, {"A"}, 387, <<>>),
  Go({417}, UriHex, 388, <<>>),
  Go({418}, UriDigit \ {"5"}, 419, <<>>),
  Go({418}, {"5"}, 420, <<>>),
  Go({419}, UriHex, 387, <<>>)}

Uri420to427 == UNION {
  Go(420..427, {"]"}, 512, <<>>),
  Go((423..427) \cup {420, 421}, {"."}, 294, <<>>),
  Go(420..422, {":"}, 389, <<>>),
  Go({420}, UriDigit \ {"6"}, 417, <<>>),
  Go({420}, {"6", "A"}, 387, <<>>),
  Go({421}, UriDigit, 419, <<>>),
  Go({421}, {"A"}, 386, <<>>),
  Go({422}, UriHex, 386, <<>>),
  Go(423..427, {":"}, 384, <<>>),
  Ahead({423, 424}, UriDigit, 1, <<>>),
  Go({423, 426}, {"A"}, 381, <<>>),
  Go({424}, {"A"}, 382, <<>>),
  Go({425}, UriHex, 383, <<>>),
  Go({426}, UriDigit \ {"5"}, 427, <<>>),
  Go({426}, {"5"}, 428, <<>>),
  Go({427}, UriHex, 382, <<>>)}

Uri428to435 == UNION {
  Go(428..435, {"]"}, 512, <<>>),
  Go((431..435) \cup {428, 429}, {"."}, 294, <<>>),
  Go(428..430, {":"}, 384, <<>>),
  Go({428}, UriDigit \ {"6"}, 425, <<>>),
  Go({428}, {"6", "A"}, 382, <<>>),
  Go({429}, UriDigit, 427, <<>>),
  Go({429}, {"A"}, 381, <<>>),
  Go({430}, UriHex, 381, <<>>),
  Go(431..435, {":"}, 379, <<>>),
  Ahead({431, 432}, UriDigit, 1, <<>>),
  Go({431, 434}, {"A"}, 376, <<>>),
  Go({432}, {"A"}, 377, <<>>),
  Go({433}, UriHex, 378, <<>>),
  Go({434}, UriDigit \ {"5"}, 435, <<>>),
  Go({434}, {"5"}, 436, <<>>),
  Go({435}, UriHex, 377, <<>>)}

Uri436to443 == UNION {
  Go(436..443, {"]"}, 512, <<>>),
  Go((439..443) \cup {436, 437}, {"."}, 294, <<>>),
  Go(436..438, {":"}, 379, <<>>),
  Go({436}, UriDigit \ {"6"}, 433, <<>>),
  Go({436}, {"6", "A"}, 377, <<>>),
  Go({437}, UriDigit, 435, <<>>),
  Go({437}, {"A"}, 376, <<>>),
  Go({438}, UriHex, 376, <<>>),
  Go(439..443, {":"}, 374, <<>>),
  Ahead({439, 440}, UriDigit, 1, <<>>),
  Go({439, 442}, {"A"}, 371, <<>>),
  Go({440}, {"A"}, 372, <<>>),
  Go({441}, UriHex, 373, <<>>),
  Go({442}, UriDigit \ {"5"}, 443, <<>>),
  Go({442}, {"5"}, 444, <<>>),
  Go({443}, UriHex, 372, <<>>)}

Uri444to450 == UNION {
  Go({444, 445, 446, 450}, {"]"}, 512, <<>>),
  Go(444..446, {":"}, 374, <<>>),
  Go({444}, UriDigit \ {"6"}, 441, <<>>),
  Go({444, 445}, {"."}, 294, <<>>),
  Go({444}, {"6", "A"}, 372, <<>>),
  Go({445}, UriDigit, 443, <<>>),
  Go({445}, {"A"}, 371, <<>>),
  Go({446}, UriHex, 371, <<>>),
  Go({447, 448}, UriHex, 448, <<>>),
  Go({448}, {"."}, 449, <<>>),
  Go({449, 450}, NameChar \cup {":"}, 450, <<>>)}

Uri542to545 == UNION {
  Go(542..545, {"@"}, 522, <<"save_userinfo">>),
  Go({542}, {"!", "+", ".", ":", "A", "G", "v"}, 255, <<>>),
  Go({542}, UriDigit, 542, <<>>),
  Go({542}, {"%"}, 256, <<>>),
  Go({542}, {"/"}, 513, <<"save_port", "mark">>),
  Go({542}, {"?"}, 456, <<"save_port", "mark", "save_path">>),
  Go({542}, {"#"}, 453, <<"save_port", "mark", "save_path">>),
  Go({543, 545}, NameChar \ {"."}, 520, <<>>),
  Go(543..545, {"%"}, 253, <<>>),
  Go(543..545, {"/"}, 513, <<"save_host", "mark">>),
  Go(543..545, {"?"}, 456, <<"save_host", "mark", "save_path">>),
  Go(543..545, {"#"}, 453, <<"save_host", "mark", "save_path">>),
  Go(543..545, {":"}, 521, <<"save_host">>),
  Ahead({543, 545}, {"."}, 1, <<>>),
  Go({544}, {"!", "+", ".", "A", "G", "v"}, 520, <<>>),
  Go({544}, {"3", "5", "6"}, 554, <<>>),
  Go({544}, {"STX"}, 233, <<>>),
  Go({544}, {"0"}, 545, <<>>),
  Go({544}, {"1"}, 553, <<>>),
  Go({544}, {"2"}, 555, <<>>)}

Uri546to550 == UNION {
  Go(546..550, {"%"}, 253, <<>>),
  Go(546..550, {"/"}, 513, <<"save_host", "mark">>),
  Go(546..550, {"?"}, 456, <<"save_host", "mark", "save_path">>),
  Go(546..550, {"#"}, 453, <<"save_host", "mark", "save_path">>),
  Go(546..550, {":"}, 521, <<"save_host">>),
  Go(546..550, {"@"}, 522, <<"save_userinfo">>),
  Go({546}, {"!", "+", ".", "A", "G", "v"}, 520, <<>>),
  Go({546}, {"3", "5", "6"}, 550, <<>>),
  Go({546}, {"STX"}, 237, <<>>),
  Go({546}, {"0"}, 547, <<>>),
  Go({546}, {"1"}, 549, <<>>),
  Go({546}, {"2"}, 551, <<>>),
  Go({547, 549, 550}, {"."}, 548, <<>>),
  Go({547}, NameChar \ {"."}, 520, <<>>),
  Go({548}, NameChar, 520, <<>>),
  Go({548}, {"STX"}, 241, <<>>),
  Go({549, 550}, {"!", "+", "A", "G", "v"}, 520, <<>>),
  Go({549}, UriDigit, 550, <<>>),
  Go({550}, UriDigit, 547, <<>>)}

Uri551to554 == UNION {
  Go({551, 553, 554}, {"!", "+", "A", "G", "v"}, 520, <<>>),
  Go(551..554, {"%"}, 253, <<>>),
  Go(551..554, {"/"}, 513, <<"save_host", "mark">>),
  Go(551..554, {"?"}, 456, <<"save_host", "mark", "save_path">>),
  Go(551..554, {"#"}, 453, <<"save_host", "mark", "save_path">>),
  Go(551..554, {":"}, 521, <<"save_host">>),
  Go(551..554, {"@"}, 522, <<"save_userinfo">>),
  Go({551}, UriDigit \ {"5"}, 547, <<>>),
  Go({551, 552}, {"."}, 548, <<>>),
  Go({551}, {"5"}, 552, <<>>),
  Go({552}, {"!", "+", "6", "A", "G", "v"}, 520, <<>>),
  Go({552}, UriDigit \ {"6"}, 547, <<>>),
  Go({553}, UriDigit, 554, <<>>),
  Go({553, 554}, {"."}, 546, <<>>),
  Go({554}, UriDigit, 545, <<>>)}

Uri555to558 == UNION {
  Go({555, 557, 558}, {"!", "+", "A", "G", "v"}, 520, <<>>),
  Go(555..558, {"%"}, 253, <<>>),
  Go(555..558, {"/"}, 513, <<"save_host", "mark">>),
  Go(555..558, {"?"}, 456, <<"save_host", "mark", "save_path">>),
  Go(555..558, {"#"}, 453, <<"save_host", "mark", "save_path">>),
  Go(555..558, {":"}, 521, <<"save_host">>),
  Go(555..558, {"@"}, 522, <<"save_userinfo">>),
  Go({555}, UriDigit \ {"5"}, 545, <<>>),
  Go({555, 556}, {"."}, 546, <<>>),
  Go({555}, {"5"}, 556, <<>>),
  Go({556}, {"!", "+", "6", "A", "G", "v"}, 520, <<>>),
  Go({556}, UriDigit \ {"6"}, 545, <<>>),
  Go({557}, UriDigit, 558, <<>>),
  Go({557, 558}, {"."}, 544, <<>>),
  Go({558}, UriDigit, 543, <<>>)}

Uri559to560 == UNION {
  Go({559}, {"!", "+", "A", "G", "v"}, 520, <<>>),
  Go({559}, UriDigit \ {"5"}, 543, <<>>),
  Go({559, 560}, {"."}, 544, <<>>),
  Go({559, 560}, {"%"}, 253, <<>>),
  Go({559, 560}, {"/"}, 513, <<"save_host", "mark">>),
  Go({559, 560}, {"?"}, 456, <<"save_host", "mark", "save_path">>),
  Go({559, 560}, {"#"}, 453, <<"save_host", "mark", "save_path">>),
  Go({559, 560}, {":"}, 521, <<"save_host">>),
  Go({559, 560}, {"@"}, 522, <<"save_userinfo">>),
  Go({559}, {"5"}, 560, <<>>),
  Go({560}, {"!", "+", "6", "A", "G", "v"}, 520, <<>>),
  Go({560}, UriDigit \ {"6"}, 543, <<>>)}

Accepted == 561

UriEnd == UNION {
  Go({462, 489}, {"end"}, Accepted, <<"save_port">>),
  Go((463..467) \cup (470..488) \cup (490..507) \cup {460},
     {"end"}, Accepted, <<"save_host">>),
  Go({513}, {"end"}, Accepted, <<"save_path">>),
  Go({457}, {"end"}, Accepted, <<"save_query">>),
  Go({454}, {"end"}, Accepted, <<"save_fragment">>),
  Go({456}, {"end"}, Accepted, <<"mark", "save_query">>),
  Go({453}, {"end"}, Accepted, <<"mark", "save_fragment">>),
  Go({461, 468}, {"end"}, Accepted, <<"mark", "save_port">>),
  Go({459, 469}, {"end"}, Accepted, <<"mark", "save_host">>),
  Go({514, 521}, {"end"}, Accepted, <<"mark", "save_port", "save_path">>),
  Go({511, 522}, {"end"}, Accepted, <<"mark", "save_host", "save_path">>),
  Go({515, 542}, {"end"}, Accepted, <<"save_port", "mark", "save_path">>),
  Go((516..520) \cup (523..541) \cup (543..560) \cup {512},
     {"end"}, Accepted, <<"save_host", "mark", "save_path">>),
  Go({451, 452, 455, 458, 508, 509, 510},
     {"end"}, Accepted, <<>>)}

UriArcs == Uri451to452 \cup Uri453 \cup Uri454to455 \cup Uri5to6 \cup Uri456
  \cup Uri457to11 \cup Uri12to461 \cup Uri462to30 \cup Uri467to34 \cup
  Uri35to37 \cup Uri471to475 \cup Uri476to480 \cup Uri481to484 \cup
  Uri485to488 \cup Uri38to47 \cup Uri48to58 \cup Uri59to69 \cup Uri70to86 \cup
  Uri87to99 \cup Uri100to108 \cup Uri109to117 \cup Uri118to125 \cup
  Uri126to136 \cup Uri137to147 \cup Uri148to156 \cup Uri157to164 \cup
  Uri165to173 \cup Uri174to181 \cup Uri182to189 \cup Uri190to197 \cup
  Uri198to205 \cup Uri206to213 \cup Uri214to221 \cup Uri222to228 \cup
  Uri489to492 \cup Uri493to497 \cup Uri498to501 \cup Uri502to505 \cup
  Uri506to509 \cup Uri510to238 \cup Uri239to244 \cup Uri514to249 \cup
  Uri250to521 \cup Uri255to523 \cup Uri258to527 \cup Uri528to532 \cup
  Uri533to537 \cup Uri538to541 \cup Uri260to269 \cup Uri270to280 \cup
  Uri281to291 \cup Uri292to308 \cup Uri309to321 \cup Uri322to330 \cup
  Uri331to339 \cup Uri340to347 \cup Uri348to358 \cup Uri359to369 \cup
  Uri370to378 \cup Uri379to386 \cup Uri387to395 \cup Uri396to403 \cup
  Uri404to411 \cup Uri412to419 \cup Uri420to427 \cup Uri428to435 \cup
  Uri436to443 \cup Uri444to450 \cup Uri542to545 \cup Uri546to550 \cup
  Uri551to554 \cup Uri555to558 \cup Uri559to560 \cup UriEnd

UriDelta == [s \in 0..Accepted |-> {a \in UriArcs : a.from = s}]

=============================================================================
