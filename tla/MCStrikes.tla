------------------------------ MODULE MCStrikes ------------------------------
(***************************************************************************)
(* Instances of Strikes for TLC.                                           *)
(***************************************************************************)
EXTENDS Strikes

Plain == [pink_immune |-> FALSE, pink_to_true |-> FALSE, fixed_pct |-> 0, percent_pct |-> 0,
          pink_reduce_pct |-> 0, heal_block |-> FALSE, heal_mod_pct |-> 0,
          damage_immune |-> FALSE, reduce_pct |-> 0, suppressed |-> {},
          ignore_shield |-> FALSE, add_pct |-> 0, add_flat |-> 0, zero_damage |-> FALSE]

\* A target that turns pink damage into true damage, with reductions and immunities
\* that are suppressed; one that resists, is immune to attacks for a while, cannot
\* recover and attacks with a void skill; one that reduces attacks to nothing and
\* breaks through as an attacker.
Standings ==
  {Plain,
   [Plain EXCEPT !.pink_immune = TRUE, !.pink_to_true = TRUE, !.reduce_pct = 100,
                 !.suppressed = {"BLOCK", "MITIGATE"}],
   [Plain EXCEPT !.fixed_pct = 50, !.percent_pct = 100, !.pink_reduce_pct = 50, !.heal_block = TRUE,
                 !.damage_immune = TRUE, !.reduce_pct = 50, !.add_pct = 100, !.zero_damage = TRUE],
   [Plain EXCEPT !.ignore_shield = TRUE, !.add_flat = 1, !.heal_mod_pct = -50, !.reduce_pct = 100]}

Given == {[priority |-> 1, quantity |-> 1, source |-> 1, duration |-> 1],
          [priority |-> 2, quantity |-> 2, source |-> 2, duration |-> 0]}
=============================================================================
