------------------------------ MODULE MCClients ------------------------------
(* api requires the step chk and the external service ext.                 *)
EXTENDS Clients, TLC

CONSTANTS api, chk, ext, c1

SetupRequires == (chk :> {}) @@ (ext :> {}) @@ (api :> {chk, ext})
OnFailure     == (api :> "on-failure")
ApiOnly       == {{api}}
SomeCommands  == {<<"start", api>>, <<"stop", api>>, <<"restart", chk>>}
=============================================================================
