------------------------------ MODULE UriParser ------------------------------
(***************************************************************************)
(* Uri::Create (Uri.rl, Uri.cpp): a string is parsed in one call, one      *)
(* character after the other, by a generated automaton whose actions take  *)
(* texts out of it and store them in a new Uri.  A text is the distance    *)
(* from mark to the character read, and there is one mark for every        *)
(* reading of the string that is still possible: "u:1" may be a host and a *)
(* port or the beginning of a userinfo.                                    *)
(*                                                                         *)
(* Beside the automaton runs its grammar.  Each sequence the grammar       *)
(* expects remembers, in "by", who set the mark last: "own" if it was an   *)
(* action of its own, else the character at which another reading did.     *)
(***************************************************************************)
EXTENDS UriMachine, Grammar, Sequences
LOCAL INSTANCE SequencesExt

VARIABLES
  uriState,   \* cs
  mark,       \* "null" or "set"
  outcome,    \* what Create has come to
  taken,      \* history: the texts taken at the last character, and by whom marked
  ran, due,   \* history: the actions that ran there, and those of the grammar
  expect      \* history: what the grammar expects

uriVars == <<uriState, mark, outcome, taken, ran, due, expect>>

-----------------------------------------------------------------------------
(* The grammar.                                                            *)

UriSets ==
  [alpha |-> {"A", "G", "v"}, digit |-> UriDigit, xdigit |-> UriHex,
   upto4 |-> {"0", "1", "2", "3"}, upto5 |-> {"0", "1", "2", "3", "5"},
   from1 |-> UriDigit \ {"0"},
   more_scheme |-> SchemeChar, name1 |-> NameChar, colon_name1 |-> NameChar \cup {":"},
   pchar1 |-> PathChar, nc1 |-> PathChar \ {":"}]

UriRules ==
  [pct_encoded |-> {<<"%", "xdigit", "xdigit">>},
   pchar |-> {<<"pchar1">>, <<"pct_encoded">>},
   nc_char |-> {<<"nc1">>, <<"pct_encoded">>},
   reg_char |-> {<<"name1">>, <<"pct_encoded">>},
   user_char |-> {<<"colon_name1">>, <<"pct_encoded">>},
   query_char |-> {<<"pchar">>, <<"/">>, <<"?">>},
   dec_octet |-> {<<"digit">>, <<"from1", "digit">>, <<"1", "digit", "digit">>,
                  <<"STX", "upto4", "digit">>, <<"2", "5", "upto5">>},
   IPv4address |-> {<<"dec_octet", ".", "dec_octet", ".", "dec_octet", ".", "dec_octet">>},
   h16 |-> {[i \in 1..n |-> "xdigit"] : n \in 1..4},
   ls32 |-> {<<"h16", ":", "h16">>, <<"IPv4address">>},
   piece |-> {<<"h16", ":">>},
   IPv6address |->
     LET pieces(n) == [i \in 1..n |-> "piece"]
         before(n) == {<<>>} \cup {pieces(k) \o <<"h16">> : k \in n}
     IN {pieces(6) \o <<"ls32">>}
        \cup {p \o <<":", ":">> \o pieces(5) \o <<"ls32">> : p \in before({})}
        \cup {p \o <<":", ":">> \o pieces(4) \o <<"ls32">> : p \in before({0})}
        \cup {p \o <<":", ":">> \o pieces(3) \o <<"ls32">> : p \in before({1})}
        \cup {p \o <<":", ":">> \o pieces(2) \o <<"ls32">> : p \in before({2})}
        \cup {p \o <<":", ":">> \o pieces(1) \o <<"ls32">> : p \in before({3})}
        \cup {p \o <<":", ":", "ls32">> : p \in before({4})}
        \cup {p \o <<":", ":", "h16">> : p \in before({5})}
        \cup {p \o <<":", ":">> : p \in before({6})},
   IPvFuture |-> {<<"v", "xdigit", "xdigit_s", ".", "colon_name1", "colon_name1_s">>},
   host |-> {<<"[", "IPv6address", "]">>, <<"[", "IPvFuture", "]">>,
             <<"IPv4address">>, <<"reg_char_s">>},
   authority |-> {<<"mark">> \o u \o <<"mark", "host", "save_host">> \o p :
                    u \in {<<>>, <<"user_char_s", "save_userinfo", "@">>},
                    p \in {<<>>, <<":", "mark", "digit_s", "save_port">>}},
   slash_segment |-> {<<"/", "pchar_s">>},
   path_abempty |-> {<<"slash_segment_s">>},
   path_rootless |-> {<<"pchar", "pchar_s", "slash_segment_s">>},
   path_noscheme |-> {<<"nc_char", "nc_char_s", "slash_segment_s">>},
   path_absolute |-> {<<"/">>, <<"/", "path_rootless">>},
   hier_part |-> {<<"/", "/", "authority", "mark", "path_abempty", "save_path">>,
                  <<"path_absolute">>, <<"path_rootless">>, <<>>},
   relative_part |-> {<<"/", "/", "authority", "path_abempty">>,
                      <<"path_absolute">>, <<"path_noscheme">>, <<>>},
   opt_query |-> {<<>>, <<"?", "mark", "query_char_s", "save_query">>},
   opt_fragment |-> {<<>>, <<"#", "mark", "query_char_s", "save_fragment">>},
   main |-> {<<"mark", "alpha", "more_scheme_s", "save_scheme", ":", "hier_part",
               "opt_query", "opt_fragment", "end">>,
             <<"relative_part", "opt_query", "opt_fragment", "end">>}]

UriRepeats ==
  [pchar_s |-> "pchar", nc_char_s |-> "nc_char", reg_char_s |-> "reg_char",
   user_char_s |-> "user_char", query_char_s |-> "query_char", digit_s |-> "digit",
   slash_segment_s |-> "slash_segment", xdigit_s |-> "xdigit",
   colon_name1_s |-> "colon_name1", more_scheme_s |-> "more_scheme"]

Saves == {"save_scheme", "save_userinfo", "save_host", "save_port", "save_path",
          "save_query", "save_fragment"}

UriGrammar ==
  [sets |-> UriSets, rules |-> UriRules, repeats |-> UriRepeats,
   actions |-> Saves \cup {"mark"}, finishing |-> {}]

-----------------------------------------------------------------------------
(* The parser.                                                             *)

UriInit ==
  /\ uriState = 451 /\ mark = "null" /\ outcome = "parsing"
  /\ taken = {} /\ ran = {} /\ due = {}
  /\ expect = {[rest |-> <<"main">>, by |-> "nobody"]}

\* Mutant: save_host clears the mark, as the other actions do.
BadAct(r, action) ==
  IF r.threw THEN r
  ELSE IF action = "mark" THEN [r EXCEPT !.mark = "here"]
  ELSE [mark  |-> "null",
        threw |-> r.mark = "null" /\ action \notin {"save_userinfo", "save_host"},
        texts |-> r.texts \cup {[part |-> action, from |-> r.mark]}]

\* One action.  A mark of this very character is "here".  A string made from a
\* null mark throws; the userinfo and the host are left out instead.
Act(r, action) ==
  IF r.threw THEN r
  ELSE IF action = "mark" THEN [r EXCEPT !.mark = "here"]
  ELSE [mark  |-> IF action = "save_host" THEN r.mark ELSE "null",
        threw |-> r.mark = "null" /\ action \notin {"save_userinfo", "save_host"},
        texts |-> r.texts \cup {[part |-> action, from |-> r.mark]}]

Acts(do) ==
  LET after[i \in 0..Len(do)] ==
        IF i = 0 THEN [mark |-> mark, threw |-> FALSE, texts |-> {}]
        ELSE Act(after[i - 1], do[i])
  IN  after[Len(do)]

\* An empty port leaves a null mark to the path behind it, the mark of which it
\* has shared.
EmptyPort == [part |-> "save_port", from |-> "here"]

\* Who set the mark of the text that option o takes with its i-th action.
Marker(o, i, text, texts, c) ==
  CASE text.from = "null" -> IF EmptyPort \in texts THEN "empty port" ELSE
                             IF o.by = "empty port" THEN o.by ELSE "nobody"
    [] text.from = "here" -> IF \E j \in 1..i : o.acts[j] = "mark" THEN "own" ELSE c
    [] text.from = "set"  -> IF \E j \in 1..i : o.acts[j] = "mark" THEN "nobody" ELSE o.by

\* One turn of the loop, or its end: the automaton takes an arc and runs the
\* arc's actions; the grammar goes on with the sequences that allow character c.
Turn(c, to, do) ==
  LET result  == Acts(do)
      options == UNION {{[acts |-> o.acts, on |-> o.on, rest |-> o.rest, by |-> e.by] :
                           o \in Expand(UriGrammar, <<>>, e.rest)} : e \in expect}
      kept    == {o \in options : c \in o.on}
  IN  /\ uriState' = to
      /\ mark' = IF result.mark = "null" THEN "null" ELSE "set"
      /\ outcome' = CASE result.threw  -> "threw"
                      [] to = 0        -> "refused"
                      [] to = Accepted -> "accepted"
                      [] OTHER         -> "parsing"
      /\ ran' = ToSet(do)
      /\ due' = Passed(kept)
      /\ taken' = UNION {{[part |-> t.part, by |-> Marker(o, i, t, result.texts, c)] :
                            i \in {i \in DOMAIN o.acts : o.acts[i] = t.part}} :
                         t \in result.texts, o \in kept}
      /\ expect' = {[rest |-> o.rest,
                     by |-> CASE EmptyPort \in result.texts   -> "empty port"
                              [] "mark" \in ToSet(o.acts)     -> "own"
                              [] "mark" \in ToSet(do)         -> c
                              [] OTHER                        -> o.by] : o \in kept}

UriNext ==
  /\ outcome = "parsing"
  /\ \E c \in UriChars \cup {"end"} :
       \/ \E a \in UriDelta[uriState] : c \in a.on /\ Turn(c, a.to, a.do)
       \/ (\A a \in UriDelta[uriState] : c \notin a.on) /\ Turn(c, 0, <<>>)

-----------------------------------------------------------------------------

\* A Uri holds what the grammar names.  The generated automaton accepts the
\* grammar's strings and no other, and runs the grammar's actions.  A text it
\* takes is the whole part it is stored as, although all readings share one
\* mark.  There are two exceptions: a userinfo behind a ":" and a digit loses
\* what is before the digit, and the path behind an empty port has a null mark,
\* which makes Create throw, as nothing else does.
TakesWholeParts ==
  /\ ran = due
  /\ uriState = 0 <=> expect = {}
  /\ {t.part : t \in taken} = ran \cap Saves
  /\ \A t \in taken : \/ t.by = "own"
                      \/ t.part = "save_userinfo" /\ t.by \in UriDigit
                      \/ t.part = "save_path" /\ t.by = "empty port"
  /\ outcome = "threw" <=> [part |-> "save_path", by |-> "empty port"] \in taken

=============================================================================
