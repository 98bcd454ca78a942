---------------------------- MODULE MCLlmRouter ----------------------------
(* LlmRouter for TLC: text requests, and a vision request v1.               *)
EXTENDS LlmRouter

CONSTANT v1

MCCapOf == [r \in Requests |-> IF r = v1 THEN "vision" ELSE "text"]
MCCapLimit == [c \in Capabilities |-> 1]

=============================================================================
