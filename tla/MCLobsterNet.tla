---------------------------- MODULE MCLobsterNet ----------------------------
(* A buffer of three bytes, tokens of one, a response of five bytes for    *)
(* fetches and nine for executables: bodies that leave room for the code   *)
(* at their end, that cut it, that lose it, and that have newlines.        *)
EXTENDS LobsterNet

MCData == {<<"http">>, <<"tok", "nl">>, <<"tok", "x", "nl">>, <<"x", "nl">>}
MCBodies == {<<"b">>, <<"nl">>, <<"b", "b">>, <<"b", "nl", "b", "b", "b">>,
             <<"nl", "b", "b", "b", "b">>}
MCCodes == {<<"4", "0", "4">>, <<"0", "0", "0">>}
MCPrograms == {[k \in 1 .. n |-> "elf"] : n \in {1, 10}}
MCMessages == {[k \in 1 .. n |-> "msg"] : n \in {1, 9}}
=============================================================================
