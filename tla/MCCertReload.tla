------------------------------ MODULE MCCertReload -----------------------------
(* Instance of CertReload for TLC. *)
EXTENDS CertReload
================================================================================
