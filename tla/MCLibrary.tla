------------------------------ MODULE MCLibrary ------------------------------
(***************************************************************************)
(* ByteArray, ByteCodec, TcpServer and UriParser for TLC.  They do not     *)
(* interact: each behaviour is one of a single part, chosen at the start,  *)
(* while the others keep their initial state.                              *)
(***************************************************************************)
EXTENDS ByteArray, ByteCodec, TcpServer, UriParser

CONSTANTS a, b

VARIABLE part

SomePayloads == {<<>>, <<b, a, a, b>>, <<a, b, b, a, b, a, a>>}
SomeTexts == {<<>>, <<5, 0>>, <<1, 2, 3, 4>>}
SomeMarks == {[type |-> "uint", value |-> 0], [type |-> "int", value |-> -17],
              [type |-> "text", value |-> <<7>>]}

LibraryInit ==
  /\ part \in {"array", "codec", "server", "uri"}
  /\ Init /\ CodecInit /\ ServerInit /\ UriInit
  /\ little => part = "codec"
  /\ threads > 1 => part = "server"

ArrayStep == part = "array" /\ Next /\ UNCHANGED <<part, codecVars, serverVars, uriVars>>
CodecStep == part = "codec" /\ CodecNext /\ UNCHANGED <<part, vars, serverVars, uriVars>>
ServerStep == part = "server" /\ ServerNext /\ UNCHANGED <<part, vars, codecVars, uriVars>>
UriStep == part = "uri" /\ UriNext /\ UNCHANGED <<part, vars, codecVars, serverVars>>

LibraryNext == ArrayStep \/ CodecStep \/ ServerStep \/ UriStep

LibrarySpec ==
  /\ LibraryInit
  /\ [][LibraryNext]_<<part, vars, codecVars, serverVars, uriVars>>
  /\ ServerFairness

=============================================================================
