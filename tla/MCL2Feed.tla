------------------------------ MODULE MCL2Feed ------------------------------
(* Small instances of L2Feed: coin 2 is subscribed to, coin 3 keeps the      *)
(* market moving and coin 1 comes before them in a backfill.                 *)
EXTENDS L2Feed, TLC

OneLevel == 2 :> 1
TwoLevels == (3 :> 1) @@ (2 :> 1)
MCBooks == <<{OneLevel}, {EmptyBook, OneLevel, TwoLevels}, {OneLevel}>>
MCStart == <<OneLevel, OneLevel, OneLevel>>

Sub(kind, shape) == [kind |-> kind, coin |-> 2, shape |-> shape, depth |-> 1]
TwoWanted == "s1" :> {Sub("l2Book", 2), Sub("l2Diff", 2)} @@ "s2" :> {Sub("l2Diff", 1)}
OneWanted == "s1" :> {Sub("l2Book", 2), Sub("l2Diff", 1)}
=============================================================================
