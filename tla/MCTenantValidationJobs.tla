----------------------- MODULE MCTenantValidationJobs -----------------------
(* Small instances of TenantValidationJobs for TLC. *)
EXTENDS TenantValidationJobs, TLC

CONSTANTS j1, j2, h1, h2, t1, t2, contoso

MCRetryDelay == <<1, 2>>
MCAnswers == {contoso, "unexpected_failure", "invalid_credentials"}
MCAnswersTransient == {contoso, "unexpected_failure"}

Symmetry == Permutations(Jobs) \cup Permutations(Handlers) \cup Permutations(Ticks)
=============================================================================
