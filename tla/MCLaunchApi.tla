----------------------------- MODULE MCLaunchApi -----------------------------
(* Instances of LaunchApi for TLC.                                          *)
EXTENDS LaunchApi, TLC

CONSTANTS c1, c2, app, repo, page, zipped, u1, u2, l1, l2, l3

MCCalls == {c1, c2}
MCUploads == {u1, u2}
MCLaunches == {l1, l2, l3}

MCContentOf == (app :> zipped) @@ (repo :> repo) @@ (page :> Refused)
=============================================================================
