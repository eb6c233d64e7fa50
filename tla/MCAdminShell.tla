---------------------------- MODULE MCAdminShell ----------------------------
(* Constants of AdminShell for TLC. *)
EXTENDS AdminShell

HomePath == "/"
LoginPath == "/login"
ChannelsPath == "/provider-channels"
SomePages == {"/", "/provider-channels"}
=============================================================================
