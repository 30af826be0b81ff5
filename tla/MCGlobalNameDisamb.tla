------------------------- MODULE MCGlobalNameDisamb -------------------------
(* Three DisambNames of two references, all of one family: two of the     *)
(* given names share an initial, so short and initialized forms collide.  *)
EXTENDS GlobalNameDisamb

MCPersonNames ==
    { [family |-> "Smith", initial |-> "J", given |-> "John"],
      [family |-> "Smith", initial |-> "J", given |-> "Jane"],
      [family |-> "Smith", initial |-> "A", given |-> "Adam"] }

=============================================================================
