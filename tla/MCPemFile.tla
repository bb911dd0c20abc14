-------------------------------- MODULE MCPemFile --------------------------------
(* Blocks for checking PemFile: good and bad keys and certificates.         *)
EXTENDS PemFile

B(t, u, v) == [type |-> t, usage |-> u, valid |-> v,
               can |-> IF t = "EC PRIVATE KEY" THEN {"sign"} ELSE {"sign", "decrypt"}]

MCBlocks == {
  B("PRIVATE KEY", "", TRUE), B("EC PRIVATE KEY", "sign", TRUE),
  B("EC PRIVATE KEY", "decrypt", TRUE),
  B("RSA PRIVATE KEY", "", FALSE), B("PRIVATE KEY", "other", TRUE),
  B("CERTIFICATE", "", TRUE), B("CERTIFICATE", "", FALSE),
  B("OCSP RESPONSE", "", TRUE), B("SIGNED CERTIFICATE TIMESTAMP", "", TRUE),
  B("DH PARAMETERS", "", TRUE)}
================================================================================
