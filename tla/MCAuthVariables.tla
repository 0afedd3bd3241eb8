-------------------------- MODULE MCAuthVariables --------------------------
(***************************************************************************)
(* A small instance of AuthVariables: two signers, one private variable,   *)
(* two time stamps, and every build of the two PCDs.  The requests of a    *)
(* behaviour are about the PK and the modes, the three kinds of keys, or a *)
(* private variable.                                                       *)
(***************************************************************************)
EXTENDS AuthVariables, TLC

CONSTANTS k1, k2

MCPayloads == {<<>>, <<k1>>, <<k2>>}
MCShapes ==
  [n \in Names |->
     {[nv |-> TRUE, at |-> TRUE, append |-> a] : a \in BOOLEAN}
     \union CASE n = "v" -> [nv : BOOLEAN, at : BOOLEAN, append : {FALSE}]
              [] n = "db" -> {[nv |-> TRUE, at |-> FALSE, append |-> FALSE]}
              [] OTHER -> {}]
MCScopes == {{"PK", "CustomMode", "SecureBootEnable", "buttons"},
             {"PK", "KEK", "db"}, {"v", "buttons", "policy"}}
MCPcds == [require : {TRUE}, enforce : BOOLEAN]
          \union {[require |-> FALSE, enforce |-> TRUE]}
Symmetry == Permutations(Keys)
=============================================================================
