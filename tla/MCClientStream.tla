---------------------------- MODULE MCClientStream ----------------------------
(* Commands of every form; a key and the end of a value that look like        *)
(* headers, and a value that begins with '*' only, to a read that starts in   *)
(* them.                                                                      *)
EXTENDS ClientStream, TLC
MCCommands == {SetOf("*2", "GET", "EX", "60"), SetOf("k", "v*1", "", ""),
               SetOf("k", "**", "px", "60"), SetOf("k", "v", "", "60"),
               GetOf("k"), ExpireOf("k", "60"), Config("save"), Ping}
MCNumber == "60" :> 60
MCHeader == <<"*1", "*2", "*3", "*4", "*5">>
MCStar == "**" :> 0 @@ [t \in Range(MCHeader) |-> CHOOSE n \in 1 .. 5 : MCHeader[n] = t]
MCRests == "v*1" :> {"*1"}
=============================================================================
