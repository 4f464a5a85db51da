---------------------------- MODULE MCTeamSeats ----------------------------
\* Small instances of TeamSeats: who asks for what, at the same time.
EXTENDS TeamSeats, TLC

CONSTANTS c1, c2, c3, c4, u1, u2

R(k, u) == [kind |-> k, user |-> u, limit |-> 1]
Four(r1, r2, r3, r4) == c1 :> r1 @@ c2 :> r2 @@ c3 :> r3 @@ c4 :> r4

Populations ==
  { Four(R("accept", u1), R("accept", u2), R("settings", u1), R("leave", u1)),
    Four(R("accept", u1), R("accept", u1), R("remove", u1), R("leave", u1)),
    Four(R("accept", u1), R("decline", u1), R("remove", u1), R("invite", u1)),
    Four(R("invite", u2), R("invite", u2), R("accept", u2), R("accept", u1)),
    Four(R("invite", u1), R("invite", u1), R("accept", u1), R("accept", u1)),
    Four(R("deleteTeam", u1), R("accept", u1), R("leave", u2), R("invite", u1)),
    Four(R("deleteTeam", u1), R("deleteTeam", u1), R("accept", u2), R("remove", u2)),
    Four(R("getSettings", u1), R("getSettings", u1), R("settings", u1), R("accept", u1)),
    Four(R("deleteTeam", u1), R("getSettings", u1), R("settings", u1), R("decline", u1)) }
=============================================================================
