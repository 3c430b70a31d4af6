--------------------------- MODULE MCMtlsBundle ----------------------------
(***************************************************************************)
(* Model values for checking MtlsBundle with TLC.                          *)
(***************************************************************************)
EXTENDS MtlsBundle

Given(cert, key, ca) == [cert |-> cert, key |-> key, ca |-> ca]

(* No mTLS, one flag forgotten, the right flags of each side, the own      *)
(* certificate as the CA, and a key for a certificate.                     *)
UserFlags == {Given("", "", ""), Given(ServerCrt, ServerKey, ""),
              Given(ServerCrt, ServerKey, CaCrt), Given(ClientCrt, ClientKey, CaCrt),
              Given(ServerCrt, ServerKey, ServerCrt), Given(ClientKey, ClientKey, CaCrt)}
=============================================================================
