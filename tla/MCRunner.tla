------------------------------ MODULE MCRunner ------------------------------
(* A small instance of Runner: two updates of one chat, one of another and  *)
(* one that has no key.                                                     *)
EXTENDS Runner

MCKeyOf == <<"a", "a", "b", NoKey>>
=============================================================================
