----------------------------- MODULE Documents -----------------------------
(* What is common to the modules about stored documents.                   *)

CONSTANT None \* an absent document, field or request
=============================================================================
