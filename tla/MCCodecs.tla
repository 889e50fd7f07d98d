------------------------------ MODULE MCCodecs ------------------------------
(* Inputs for the run of Codecs. *)
EXTENDS Codecs

SomeHosts == {<< >>, <<104>>, <<104, 105>>, [i \in 1..255 |-> 97], [i \in 1..256 |-> 97]}
SomePayloads == {[i \in 1..n |-> i] : n \in 0..5}
SomeTokens ==
    {<< >>, <<"stdio">>, <<"socks">>, <<"h">>, <<"80">>, <<"[", "stdio", "]">>,
     <<"[", "1", ":", "2", "]">>, <<"[", "[", "h", "]">>, <<"[", "h">>}
SomeSocksHosts ==
    {<<"ipv4", <<1, 2, 3, 4>>>>, <<"name", << >>>>, <<"name", <<104, 105>>>>,
     <<"ipv6", [i \in 1..16 |-> i]>>}
SomeUsers == {<< >>, <<117>>}
SomeRests == {<< >>, <<77>>}
SomeMethods == {<< >>, <<0>>, <<2>>, <<2, 0>>}
=============================================================================
