----------------------------- MODULE MCValkey -----------------------------
(* A small instance of Valkey: two users, one with two questions that share *)
(* a prompt with the other user's but not its model.                       *)
EXTENDS Valkey

CONSTANTS alice, bob, a1, a2, b1, small, large, prompt

MCAsker    == [q \in {a1, a2, b1} |-> IF q = b1 THEN bob ELSE alice]
MCModelOf  == [q \in {a1, a2, b1} |-> IF q = a2 THEN large ELSE small]
MCPromptOf == [q \in {a1, a2, b1} |-> prompt]
============================================================================
