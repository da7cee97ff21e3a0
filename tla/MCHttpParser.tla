---------------------------- MODULE MCHttpParser ----------------------------
(* HttpParser for TLC.                                                     *)
EXTENDS HttpParser, Requests
=============================================================================
