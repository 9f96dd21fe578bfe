------------------------------- MODULE MC_MMU -------------------------------
(***************************************************************************)
(* Instances of MMU for TLC.  Two processes, one of them with the id 0 that *)
(* RAM's process_id fields start with.                                     *)
(***************************************************************************)
EXTENDS MMU, TLC

MCProcs == {0, 3}
MCLimit == (0 :> 2) @@ (3 :> 2)

=============================================================================
