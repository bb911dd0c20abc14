---------------------------- MODULE MCCertDirectory ----------------------------
(* ClientHellos for checking CertDirectory: an old client that says nothing  *)
(* of signature schemes, a new one that sends no server name, and two bad    *)
(* server names.                                                             *)
EXTENDS CertDirectory, TLC

www == <<"www", "example">>

Hello(name, s, c) == [serverName |-> name, schemes |-> s, suites |-> c]

MCHellos == {
  Hello(www, None, {"ecdsa", "rsa", "other"}),
  Hello(EmptyName, {"ecdsa", "other"}, {"other"}),
  Hello(<<"", "example">>, {"rsa"}, {"rsa"}),
  Hello(<<"a/b", "example">>, {"rsa"}, {"rsa"})}

\* Handshakes are interchangeable.
Symmetry == Permutations(Handshakes)

MCDefault == www
MCSlashLabels == {"a/b"}
================================================================================
