------------------------------ MODULE MCNotices ------------------------------
(* Instances of Notices for TLC.                                           *)
EXTENDS Notices, TLC

CONSTANTS p1, p2, m1, s1, e1, w1, w2, guest, null

TwoPlayers == {p1, p2}
ByRank == [p \in TwoPlayers |-> IF p = p1 THEN 1 ELSE 2]
OneMatch == {m1}
InTurn == [m \in OneMatch |-> 1]
OneSubscriber == {s1}
OneEndpoint == {e1}
TwoWorkers == {w1, w2}
AllSuit == Subscriber \X Match
AllCompatible == Player \X Match
Choices == {[inApp |-> FALSE, push |-> TRUE, kinds |-> {"ONE", "TWO", "THREE"}]}
TwoEach == [k \in {"ONE", "TWO", "THREE"} |-> 2]
Symmetry == Permutations(Worker)
=============================================================================
