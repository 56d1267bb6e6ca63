------------------------------- MODULE MCPlatform -------------------------------
\* TLC instances of Platform, beside those of CpxPostbacks: three users, so that
\* invitations may form a circle, and two reviewers; one push for two users, who get
\* their inbox rows in different batches; one account with calls that cross, two sign-ins
\* and a rotation or the other way round; three images, two of them proofs, swept one at
\* a time; three identities, two with the email of a row that was made before its user
\* signed in; three sockets of one user.
EXTENDS Platform, MCCpxPostbacks

CONSTANTS x1, x2, x3, p1

People == {[uid |-> 1, email |-> 1], [uid |-> 2, email |-> 1], [uid |-> 3, email |-> 2]}
TokenOfX1 == [s \in Sockets |-> x1]
===============================================================================
