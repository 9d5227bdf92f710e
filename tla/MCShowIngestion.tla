-------------------------- MODULE MCShowIngestion --------------------------
(* Small instances of ShowIngestion: three calls, pages of two episodes. *)
EXTENDS ShowIngestion, TLC

CONSTANTS f1, f2, g1
=============================================================================
