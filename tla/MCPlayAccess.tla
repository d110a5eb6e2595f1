---------------------------- MODULE MCPlayAccess ----------------------------
(* Instances of PlayAccess for TLC.                                        *)
EXTENDS PlayAccess, TLC

CONSTANTS p1, p2, e1, e2, k1, k2, i1, l1, n1, n2, f1, f2, w1, w2, null

TwoPlayers == {p1, p2}
TwoEmails == {e1, e2}
TwoChallenges == {k1, k2}
OneInvite == {i1}
OneLink == {l1}
Names == {n1, n2}
PhoneNumbers == {f1, f2}
TwoWorkers == {w1, w2}

\* Two people; either may give any email.
Applicants == {[name |-> n1, phone |-> f1], [name |-> n2, phone |-> f2]}
AllPurposes == {"INVITE", "GROUP", "DIRECT", "RECOVERY"}

\* The two applicants, with all they give, change places.
Swap == [x \in {n1, n2, f1, f2} |->
    CASE x = n1 -> n2 [] x = n2 -> n1 [] x = f1 -> f2 [] x = f2 -> f1]

Symmetry == {Swap} \cup Permutations(Player) \cup Permutations(Email) \cup Permutations(Challenge)
            \cup Permutations(Worker)
=============================================================================
