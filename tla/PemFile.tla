-------------------------------- MODULE PemFile --------------------------------
(***************************************************************************)
(* LoadCertificate of cert/cert.go: one pass over the PEM blocks of a file *)
(* that was read in one piece.  pem.Decode skips whatever is not a block,  *)
(* so a file is the sequence of its blocks.  A block has a type, a Usage   *)
(* header (private keys only), a body that parses or does not, and what    *)
(* keys of its algorithm can do.                                           *)
(***************************************************************************)
EXTENDS Naturals, Sequences, FiniteSets

CONSTANTS
  Blocks,     \* blocks that files may contain: [type, usage, valid, can]
  MaxBlocks   \* bound: length of a file

ASSUME PemFileAssumption ==
  /\ MaxBlocks \in Nat
  /\ \A block \in Blocks : block.can \subseteq {"sign", "decrypt"}

KeyTypes == {"PRIVATE KEY", "RSA PRIVATE KEY", "EC PRIVATE KEY"}
OtherTypes == {"CERTIFICATE", "OCSP RESPONSE", "SIGNED CERTIFICATE TIMESTAMP"}

\* What Go leaves in a field nobody has assigned to.
Nil == [type |-> "nil", usage |-> "", valid |-> FALSE, can |-> {}]

VARIABLES
  file,      \* the blocks of the file
  data,      \* those not yet decoded
  loaded,    \* cert: the certificate that is being put together
  returned   \* "loop", or how LoadCertificate returned

loadVars == <<file, data, loaded, returned>>

LoadInit ==
  /\ file \in UNION {[1..n -> Blocks] : n \in 0..MaxBlocks}
  /\ data = file
  /\ loaded = [PrivateKey |-> Nil, Certificate |-> <<>>, OCSPStaple |-> Nil,
               SignedCertificateTimestamps |-> <<>>]
  /\ returned = "loop"
-----------------------------------------------------------------------------
(* Faulty variants of definitions below, each a plausible slip in the      *)
(* code.  No action uses them: putting one in the place of the definition  *)
(* it is a variant of shows that a property can fail.                      *)

\* A second private key replaces the first.
SecondKey_Allowed == FALSE

\* The key has to come before the certificates.
SecondKey_FirstOnly == loaded.PrivateKey # Nil \/ loaded.Certificate # <<>>

\* Certificates are put at the front.
Chained_Reversed(block) == <<block>> \o loaded.Certificate
-----------------------------------------------------------------------------
Return(outcome) == returned' = outcome /\ UNCHANGED <<file, data, loaded>>

\* A case of the switch stored the block: the loop goes on with the rest.
Store(value) ==
  /\ loaded' = value
  /\ data' = Tail(data)
  /\ UNCHANGED <<file, returned>>

\* The loop has decoded a block of one of these types.
Decoded(types) == returned = "loop" /\ data # <<>> /\ Head(data).type \in types

SecondKey == loaded.PrivateKey # Nil

\* makePrivateKey: the key must parse and support the usage it is marked for.
Usable(block) == block.valid /\ block.usage \in {""} \cup block.can

PrivateKey ==
  /\ Decoded(KeyTypes)
  /\ IF SecondKey \/ ~Usable(Head(data))
     THEN Return("error")
     ELSE Store([loaded EXCEPT !.PrivateKey = Head(data)])

Chained(block) == Append(loaded.Certificate, block)

Certificate ==
  /\ Decoded({"CERTIFICATE"})
  /\ Store([loaded EXCEPT !.Certificate = Chained(Head(data))])

OCSPResponse ==
  /\ Decoded({"OCSP RESPONSE"})
  /\ IF loaded.OCSPStaple # Nil
     THEN Return("error")
     ELSE Store([loaded EXCEPT !.OCSPStaple = Head(data)])

Timestamp ==
  /\ Decoded({"SIGNED CERTIFICATE TIMESTAMP"})
  /\ Store([loaded EXCEPT !.SignedCertificateTimestamps = Append(@, Head(data))])

Unrecognized ==
  /\ returned = "loop" /\ data # <<>>
  /\ Head(data).type \notin KeyTypes \cup OtherTypes
  /\ Return("error")

\* x509.ParseCertificate is called for the first certificate only.
Leaf(chain) == chain[1]

\* No block is left: the checks after the loop.
Finish ==
  /\ returned = "loop" /\ data = <<>>
  /\ IF \/ loaded.PrivateKey = Nil
        \/ loaded.Certificate = <<>>
        \/ ~Leaf(loaded.Certificate).valid
     THEN Return("error")
     ELSE Return("ok")

LoadNext ==
  \/ PrivateKey
  \/ Certificate
  \/ OCSPResponse
  \/ Timestamp
  \/ Unrecognized
  \/ Finish

LoadSpec == LoadInit /\ [][LoadNext]_loadVars
-----------------------------------------------------------------------------
(* Properties.                                                             *)

Having(types) == {i \in DOMAIN file : file[i].type \in types}
One(S) == \A i, j \in S : i = j

\* The documented format (cert/cert.go:42-47, README.md:132-137): one key in
\* PKCS#8 format, which is what a block PRIVATE KEY that parses contains, a
\* chain, and so on; no other blocks, and no headers.
Documented ==
  LET keys == Having({"PRIVATE KEY"})
      chain == Having({"CERTIFICATE"})
  IN /\ keys # {} /\ One(keys)
     /\ chain # {}
     /\ One(Having({"OCSP RESPONSE"}))
     /\ \A i \in DOMAIN file : file[i].type \in {"PRIVATE KEY"} \cup OtherTypes
     /\ \A i \in keys \cup chain : file[i].valid /\ file[i].usage = ""

\* What the code asks of a file: one key in any of three formats, which can do
\* what its Usage header marks it for, a leaf certificate that parses, at
\* most one response, and nothing unknown.
Serviceable ==
  LET keys == Having(KeyTypes)
      chain == Having({"CERTIFICATE"})
  IN /\ keys # {} /\ One(keys) /\ \A i \in keys : Usable(file[i])
     /\ chain # {} /\ \A i \in chain : (\A j \in chain : i <= j) => file[i].valid
     /\ One(Having({"OCSP RESPONSE"}))
     /\ \A i \in DOMAIN file : file[i].type \in KeyTypes \cup OtherTypes

\* LoadCertificate accepts every file of the documented format, in whatever
\* order its blocks come.  A file that it could not serve is refused when it is
\* loaded, and not by handshakes later on: one with two keys, of which either
\* could be meant, with a key that cannot do what it is marked for, or without
\* a leaf, wherever in the file the reason is (cert/cert.go:42-135).  Between
\* the two formats is what the code accepts beyond its documentation.
FileVerdict ==
  /\ returned = "error" => ~Documented
  /\ returned = "ok" => Serviceable

\* seq is the blocks of these types, in the order of the file: that of block
\* i comes after those of the blocks before it.
InFileOrder(seq, types) ==
  /\ Len(seq) = Cardinality(Having(types))
  /\ \A i \in Having(types) : seq[Cardinality(Having(types) \cap 1..i)] = file[i]

\* The chain is sent to clients in the order of the file, with nothing of the
\* file left out.
ChainInOrder ==
  returned = "ok" =>
    /\ InFileOrder(loaded.Certificate, {"CERTIFICATE"})
    /\ InFileOrder(loaded.SignedCertificateTimestamps, {"SIGNED CERTIFICATE TIMESTAMP"})
    /\ \A i \in DOMAIN file :
         file[i].type = "OCSP RESPONSE" => loaded.OCSPStaple = file[i]
================================================================================
