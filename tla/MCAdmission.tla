---------------------------- MODULE MCAdmission ----------------------------
EXTENDS Admission, TLC

CONSTANTS u1, u2, g1, g2, g3, s1, s2, t1, t2, p1, p2, q1, q2

MCIpOf == [g \in Guids |-> IF g = g3 THEN g2 ELSE g]
MCSteamOf == t1 :> s1 @@ t2 :> s2
MCGuestProfile == s1 :> q1 @@ s2 :> q2

Policy(mode, approval, discord, managed, join) ==
  [mode |-> mode, approvalRequired |-> approval, discord |-> discord,
   managed |-> managed, joinAccess |-> join]

\* A server that approves its players itself, and one whose players have accounts.
MCPolicies == {Policy("guest", TRUE, FALSE, FALSE, "open"),
               Policy("account", FALSE, TRUE, TRUE, "discordRoles")}

\* The two identities come with their tokens and guest profiles.
Symmetry ==
  {f @@ g @@ h : f \in Permutations(UserIds), g \in Permutations(Guids),
                 h \in {s1 :> s1, s1 :> s2 @@ s2 :> s1 @@ t1 :> t2 @@ t2 :> t1 @@ q1 :> q2 @@ q2 :> q1}}
=============================================================================
