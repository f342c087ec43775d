------------------------------ MODULE MCFriend ------------------------------
EXTENDS Friend
CONSTANTS r1, r2
MCPlayers == {1, 2, 3}
MCRequests == {r1, r2}
\* The table in which the pairs of F are friends and those of A, <<applicant, other>>,
\* have an application between them.
Table(F, A) == [p \in MCPlayers |-> [q \in MCPlayers |->
    IF {p, q} \in F THEN "friend" ELSE IF <<q, p>> \in A THEN "pending" ELSE "none"]]
\* Nobody; applications in either order of ids; a friend and an applicant at the limit.
MCStart == {Table({}, {}), Table({}, {<<1, 3>>}), Table({}, {<<3, 2>>, <<2, 1>>}),
            Table({{1, 3}}, {<<2, 3>>})}
=============================================================================
