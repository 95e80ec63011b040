----------------------------- MODULE MCAdminServer -----------------------------
(* A small instance of AdminServer for TLC. *)
EXTENDS AdminServer

UnixHttpHttps == <<"unix", "http", "https">>
=============================================================================
