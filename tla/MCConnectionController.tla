----------------------- MODULE MCConnectionController -----------------------
(* Instances of ConnectionController for TLC. *)
EXTENDS ConnectionController, TLC

CONSTANTS u1, u2, u3, s0, s1, s2

UserSymmetry == Permutations(Users)

(* Presets 1 and 2 share a group; 3 is a local node of its own. *)
MCGroup == (1 :> "mainnet") @@ (2 :> "mainnet") @@ (3 :> "localnet")
MCLocal == Networks \cap {3}
=============================================================================
