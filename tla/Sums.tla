-------------------------------- MODULE Sums --------------------------------
(***************************************************************************)
(* The sum of finitely many numbers, as the values of a function: lengths   *)
(* of texts and messages, sizes of files, tokens of a usage.                *)
(***************************************************************************)
EXTENDS Integers, FiniteSets, FiniteSetsExt

Total(numbers) == FoldSet(LAMBDA i, sum : sum + numbers[i], 0, DOMAIN numbers)
=============================================================================
