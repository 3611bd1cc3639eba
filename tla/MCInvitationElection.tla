------------------------ MODULE MCInvitationElection ------------------------
(***************************************************************************)
(* Small instances of InvitationElection for TLC.                          *)
(***************************************************************************)
EXTENDS InvitationElection, TLC

MCNodes == {1, 2, 3}
MCRoster == <<1, 2, 3>>
MCPeers == 1 :> <<2, 3>> @@ 2 :> <<1, 3>> @@ 3 :> <<1, 2>>
=============================================================================
