--------------------------- MODULE MCCertificates ---------------------------
(* CertificateFiles for TLC: Certificates.cfg gives the constants.         *)
EXTENDS CertificateFiles

(* Bound: three certificates with two signatures are explored as far as    *)
(* they are made, and no further.                                          *)
FewOfBoth == made + signs < MaxCerts + MaxSigns
=============================================================================
