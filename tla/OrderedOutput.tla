---------------------------- MODULE OrderedOutput ----------------------------
(***************************************************************************)
(* What df/parallel.c promises to virt-df and virt-alignment-scan: the     *)
(* results of the domains are printed one after the other in the order of  *)
(* the list, each once, and then the result of all of them is returned.    *)
(***************************************************************************)
EXTENDS Naturals

CONSTANT nr_domains  \* number of domains

VARIABLES
  count,    \* how many results are printed: those of the domains 0..count - 1
  returned  \* start_threads has returned

outputVars == <<count, returned>>

OutputInit == count = 0 /\ returned = FALSE

PrintNext ==
  /\ count < nr_domains /\ ~returned
  /\ count' = count + 1 /\ UNCHANGED returned

Return == ~returned /\ returned' = TRUE /\ UNCHANGED count

OutputNext == PrintNext \/ Return
OutputSpec == OutputInit /\ [][OutputNext]_outputVars

=============================================================================
