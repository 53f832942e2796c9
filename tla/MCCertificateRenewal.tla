------------------------ MODULE MCCertificateRenewal ------------------------
(* Small instances of CertificateRenewal for TLC.                          *)
EXTENDS CertificateRenewal, TLC

CONSTANTS m1, m2, m3, p1, p2

\* Every certificate verifies against every profile.
TrustsAll == [p \in Profiles |-> Materials]

\* p2 does not accept the first certificate.
TrustsSome == [p \in Profiles |-> IF p = p1 THEN Materials
                                            ELSE Materials \ {m1}]
=============================================================================
