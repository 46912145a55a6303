------------------------------- MODULE Totals -------------------------------
(* What a loop adds up.                                                    *)
EXTENDS Integers, SequencesExt

Total(numbers) == FoldLeft(LAMBDA sum, n : sum + n, 0, numbers)

=============================================================================
