------------------------------ MODULE MCBroker ------------------------------
(* Instances of the broker for TLC: who shares a user and who asks for what. *)
EXTENDS BrokerInv, TLC

CONSTANTS s1, s2, s3, u1, u2, pool1, pool2

TwoSessions   == {s1, s2}
ThreeSessions == {s1, s2, s3}

\* s1 and s2 belong to one user, s3 to another; all name the default pool.
SharedUser == [s \in Sessions |-> IF s = s3 THEN u2 ELSE u1]
OneUser    == [s \in Sessions |-> u1]
OnePool    == [s \in Sessions |-> pool1]

AllExclusive  == [s \in Sessions |-> {"exclusive"}]
AllUserShared == [s \in Sessions |-> {"user_shared"}]
\* One user shared by two sessions, the third session on its own.
UserAndOwn    == [s \in Sessions |-> IF s = s3 THEN {"exclusive"} ELSE {"user_shared"}]
\* A pool of its own for one session, an exclusive sandbox for the other.
ExclusiveAndPool == [s \in Sessions |-> IF s = s1 THEN {"exclusive"} ELSE {"multi_user_shared"}]
\* Sessions of one user that ask for the same differ in nothing but the name.
Alike == Permutations(Workers) \cup Permutations(Sessions)
\* Workers differ in nothing but the name, and so do s1 and s2 under SharedUser.
Interchangeable == Permutations(Workers) \cup Permutations({s1, s2})
=============================================================================
