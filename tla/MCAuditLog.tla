----------------------------- MODULE MCAuditLog -----------------------------
(* AuditLog and AuditReview on a small instance.                           *)
EXTENDS AuditReview
CONSTANTS g1, g2, b1, b2
=============================================================================
