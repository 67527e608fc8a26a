------------------------------- MODULE ItemLists -------------------------------
(***************************************************************************)
(* What every filter of the collector does with the items of a document: it  *)
(* goes through them in order and appends those it lets in to another list   *)
(* (filterKeywords, filterFeedKeywords, applyNoiseGate and their like).      *)
(***************************************************************************)
EXTENDS Naturals, Sequences

\* The items of a document that are in a set, in its order.
Chosen(doc, keep) ==
    LET some[n \in 0 .. Len(doc)] ==
            IF n = 0 THEN <<>> ELSE IF doc[n] \in keep THEN Append(some[n - 1], doc[n]) ELSE some[n - 1]
    IN  some[Len(doc)]
=============================================================================
