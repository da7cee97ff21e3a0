----------------------------- MODULE MCGetConn -----------------------------
(* GetConn for TLC.                                                        *)
EXTENDS GetConn, Requests
=============================================================================
