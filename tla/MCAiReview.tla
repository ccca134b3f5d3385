----------------------------- MODULE MCAiReview -----------------------------
(* Small instance of AiReview: every thread has a rival.                   *)
EXTENDS AiReview, TLC

Symmetric == Permutations(Runs) \cup Permutations(Reviewers) \cup Permutations(Handlers)
=============================================================================
