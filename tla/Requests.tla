------------------------------ MODULE Requests ------------------------------
(* Requests for TLC, good and bad, one of them longer than the buffer, as  *)
(* sequences of the bytes of HttpParser.                                   *)
EXTENDS Sequences

CRLF == <<"CR", "LF">>
Get == <<"request">> \o CRLF \o <<"header">> \o CRLF \o <<"keep-alive">>
       \o CRLF \o CRLF
Post == <<"request">> \o CRLF \o <<"length">> \o CRLF \o <<"keep-alive">>
        \o CRLF \o CRLF \o <<"body", "body", "body", "body">>
NoRequestLine == CRLF
LoneLF == <<"request", "LF">>
LoneCR == <<"request", "CR", "garbage">>
LongGet == <<"request">> \o CRLF \o <<"header">> \o CRLF \o <<"header">>
           \o CRLF \o <<"header">> \o CRLF \o <<"header">> \o CRLF
           \o <<"keep-alive">> \o CRLF \o CRLF

Typical == {Get, Post, NoRequestLine, LoneLF, LoneCR, LongGet}
Posts == {Post}
=============================================================================
