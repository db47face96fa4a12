----------------------------- MODULE MCEmailSend ----------------------------
(***************************************************************************)
(* Small instances of the outbound email queue for TLC.                    *)
(***************************************************************************)
EXTENDS EmailSendProperties, TLC

CONSTANTS q1, q2, b1, b2, r1

OneRow   == {q1}
TwoRows  == {q1, q2}

\* Both rows are of the same item: one that failed, and its successor.
RowOfItem  == [q \in OneRow |-> "item"]
RowsOfItem == [q \in TwoRows |-> "item"]

TwoBodies == {b1, b2}

BodiesAlike == Permutations(TwoBodies)

=============================================================================
