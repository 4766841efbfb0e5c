---------------------------- MODULE MCWebClient ----------------------------
(* WebClient on one group and two or three documents. *)
EXTENDS WebClient
=============================================================================
