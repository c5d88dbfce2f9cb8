----------------------------- MODULE MCPiiFlow -----------------------------
(* A small instance of PiiFlow: one chat with two turns, which run at once  *)
(* when the first is resumed while the second is asked.                    *)
EXTENDS PiiFlow

CONSTANTS a1, a2, alice, ann, bea, ned, meg

MCSessionOf == [t \in {a1, a2} |-> alice]
MCQuestion  == [t \in {a1, a2} |-> IF t = a1 THEN <<ann>> ELSE <<bea>>]
MCRowTexts  == [t \in {a1, a2} |-> {<<bea>>, <<ned, meg>>}]
============================================================================
