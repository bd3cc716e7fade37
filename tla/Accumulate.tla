----------------------------- MODULE Accumulate -----------------------------
(***************************************************************************)
(* Sums over sequences and selections from them, as the iterators of the   *)
(* code compute them.  The selection is SelectSeq; it is a recursive       *)
(* function here so that it can be reasoned about.                         *)
(***************************************************************************)
EXTENDS Integers, FiniteSets, SequencesExt

SumOver(seq, value(_)) == SumFunction([i \in DOMAIN seq |-> value(seq[i])])

\* The elements of seq at the indices in at.
Kept(seq, at) ==
  LET kept[n \in 0 .. Len(seq)] ==
        IF n = 0 THEN <<>>
        ELSE IF n \in at THEN Append(kept[n - 1], seq[n]) ELSE kept[n - 1]
  IN  kept[Len(seq)]

KeepIf(seq, Test(_)) == Kept(seq, {i \in DOMAIN seq : Test(seq[i])})
=============================================================================
