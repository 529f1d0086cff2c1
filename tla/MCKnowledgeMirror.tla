-------------------------- MODULE MCKnowledgeMirror --------------------------
(* A small instance of KnowledgeMirror: four releases.                       *)
EXTENDS KnowledgeMirror

CONSTANTS a, b, c, d
=============================================================================
