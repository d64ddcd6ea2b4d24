------------------------------ MODULE MCBrowser ------------------------------
(* Instances of Browser for TLC.                                           *)
EXTENDS Browser

\* The page's own user and two others.
MCNames == {"me", "ann", "bob"}

\* One department has everybody, one nobody but those who stand in for others,
\* and one lacks him who would.
MCDepartments == {"works", "tours", "office"}
MCOrgKind == [works |-> "huangshi", tours |-> "travel", office |-> "other"]
\* The list of old.js has one that settles by no code, and lacks one that does.
MCByHeart == {"office"}
MCOfficers == [works |-> {"leader", "manager", "dep", "sub"}, tours |-> {"dep"},
               office |-> {"leader", "sub"}]

\* Pages with sections apart, one at the top and one at the bottom, two at one
\* place, and none; and one as high as the first, with its sections elsewhere.
MCLayouts == {[height |-> 15, tops |-> <<2, 5>>], [height |-> 13, tops |-> <<0, 1, 6>>],
              [height |-> 14, tops |-> <<3, 3, 4>>], [height |-> 11, tops |-> <<>>],
              [height |-> 15, tops |-> <<1, 4>>]}

MCNumbers == 1 .. 3
=============================================================================
