---------------------------- MODULE MCUnaryCalls ----------------------------
(* Instances of UnaryCalls for TLC.                                        *)
EXTENDS UnaryCalls, TLC

CONSTANTS l1, m1, m2, tw, tr, tn, s1, s2, s3

\* A writer, an observer, and a token that is not created yet.
Scopes == (tw :> "rw") @@ (tr :> "ro") @@ (tn :> "rw")
Bearers == (l1 :> tr) @@ (m1 :> tw) @@ (m2 :> tr)
Methods == (m1 :> {"FocusPane", "WriteToPane", "NewTab", "CreateSession", "KillSession", "CreateOnHerdr",
                   "RenameOnHerdr", "KillOnHerdr", "RenameSpace",
                   "CreateToken", "ListTokens", "RevokeToken"})
        @@ (m2 :> {"ListTokens"})

=============================================================================
