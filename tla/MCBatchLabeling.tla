-------------------------- MODULE MCBatchLabeling --------------------------
(* Model-checking instances of BatchLabeling. *)
EXTENDS BatchLabeling, TLC

\* Every answer a Teacher invocation may end with, and those left when
\* exceptions and rejections are not the question.
AllAnswers   == {"success", "schema_invalid", "endpoint_error", "rejected", "raise"}
TwoAnswers   == {"success", "endpoint_error"}

Symmetry == Permutations(Keys) \cup Permutations(Runs)
=============================================================================
