-------------------------------- MODULE MCRpc --------------------------------
(***************************************************************************)
(* Instances of Rpc for TLC.  1 is the name of "ping", 2 of a registered   *)
(* handler, 3 of no handler, 4 of "list".                                  *)
(***************************************************************************)
EXTENDS Rpc

MCPing == <<1>>

MCList == <<4>>

MCListing == <<1, 2, 4>>

MCWellFormed == {<<0, 1, 2>>, <<1, 2, 4>>}

MCHandlers == {<<2>>}

MCMethods == {<<1>>, <<2>>, <<3>>, <<4>>}

MCPings == {<<1>>}

MCBodies == {<<>>, <<0, 1, 2>>}

MCResponses == {<<>>, <<1, 2, 4>>}
=============================================================================
