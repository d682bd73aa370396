------------------------------- MODULE MCPmap -------------------------------
(***************************************************************************)
(* Five pages in two regions with a hole between them; the kernel occupies *)
(* the middle page of the second.  Callers also pass -1, what a failed     *)
(* get_free_page returned, and 3, an address in the hole.                  *)
(***************************************************************************)
EXTENDS Pmap

MCBase == <<0, 1, 4, 5, 6>>
MCPtr == {-1, 3} \cup {MCBase[i] : i \in 1..5}
==============================================================================
