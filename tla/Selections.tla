----------------------------- MODULE Selections -----------------------------
(***************************************************************************)
(* The elements of a sequence that pass a test, in their order: SelectSeq, *)
(* by definitions that a proof can expand.                                 *)
(***************************************************************************)
EXTENDS SequencesExt

Kept(s, passes) ==
  LET upTo[i \in 0..Len(s)] ==
        IF i = 0 THEN <<>>
        ELSE IF passes[i] THEN Append(upTo[i - 1], s[i]) ELSE upTo[i - 1]
  IN  upTo[Len(s)]

Passing(s, Test(_)) == Kept(s, [i \in DOMAIN s |-> Test(s[i])])
=============================================================================
