---- MODULE Selection ----
(***************************************************************************)
(* Choosing members of a sequence by membership in a set.  SelectSeq does  *)
(* the same; this form is a recursive function, which can be reasoned      *)
(* about (SelectionProofs).                                                *)
(***************************************************************************)
EXTENDS Integers, Sequences

\* The members of s that are in S, in their order.
Keep(s, S) ==
  LET f[i \in 0 .. Len(s)] ==
        IF i = 0 THEN <<>> ELSE IF s[i] \in S THEN Append(f[i - 1], s[i]) ELSE f[i - 1]
  IN f[Len(s)]
====
