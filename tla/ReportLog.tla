------------------------------ MODULE ReportLog ------------------------------
(***************************************************************************)
(* What the on-chain reports promise a reader of the chain: every row was  *)
(* tested before it is posted, none is posted twice, and the rows of a     *)
(* pass appear in the order they were tested.                              *)
(***************************************************************************)
EXTENDS Integers, Sequences

VARIABLES
  tested,   \* rows the passes have finished: [pass, n, ...], n counting within the pass
  posted    \* rows on the chain, in order

Before(r, s) == r.pass = s.pass => r.n < s.n

Init == tested = {} /\ posted = <<>>

Test ==
  /\ \E row \in tested' \ tested :
       /\ tested' = tested \cup {row}
       /\ \A r \in tested : Before(r, row)
  /\ UNCHANGED posted

Post ==
  /\ Len(posted') > Len(posted) /\ SubSeq(posted', 1, Len(posted)) = posted
  /\ \A i \in (Len(posted) + 1)..Len(posted') :
       posted'[i] \in tested /\ \A j \in 1..(i - 1) : Before(posted'[j], posted'[i])
  /\ UNCHANGED tested

Next == Test \/ Post
Spec == Init /\ [][Next]_<<tested, posted>>
==============================================================================
