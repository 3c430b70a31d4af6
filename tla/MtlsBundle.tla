----------------------------- MODULE MtlsBundle -----------------------------
(***************************************************************************)
(* The certificates of mTLS: the mtls command that rewrites a directory of *)
(* five files (mtls/command.go), a server and a client that load theirs    *)
(* from it while it may be rewritten (protocol/mtls.go and the Before of   *)
(* both commands), and the handshake between what they loaded.             *)
(*                                                                         *)
(* A certificate or key is what identifies it: whose it is, and the run of *)
(* the mtls command that made it.  Each run has a CA of its own, whose key *)
(* is kept nowhere, so gen also names the CA a leaf is signed with.        *)
(***************************************************************************)
EXTENDS Naturals, Sequences

CONSTANTS
  MaxGen,  (* bound: runs of the mtls command on the directory             *)
  Flags    (* what users pass as --cert, --key and --ca                    *)

CaCrt     == "ca.crt"
ServerCrt == "server.crt"
ServerKey == "server.key"
ClientCrt == "client.crt"
ClientKey == "client.key"
Files == {CaCrt, ServerCrt, ServerKey, ClientCrt, ClientKey}

ASSUME BundleAssumption ==
  /\ MaxGen \in Nat
  /\ Flags \subseteq [cert : Files \cup {""}, key : Files \cup {""}, ca : Files \cup {""}]

VARIABLES
  files,   (* the directory                                                *)
  gen,     (* runs of the mtls command so far                              *)
  writer,  (* the file the current run is at, 0 when none runs             *)
  opened,  (* it has opened that file, which truncates it                  *)
  party,   (* the server and the client process                            *)
  link     (* they are connected                                           *)

vars == <<files, gen, writer, opened, party, link>>
mtlsVars == <<gen, writer, opened>>

Roles == {"server", "client"}

(* What a file holds: nothing yet, less than a PEM block, or a PEM block.  *)
Missing == [kind |-> "missing", role |-> "", gen |-> 0]
Partial == [kind |-> "partial", role |-> "", gen |-> 0]
Ca(g)         == [kind |-> "crt", role |-> "ca", gen |-> g]
Leaf(role, g) == [kind |-> "crt", role |-> role, gen |-> g]
Key(role, g)  == [kind |-> "key", role |-> role, gen |-> g]

(* Mutant: the client's pair is written before the server's.               *)
WriteClientFirst ==
  << [file |-> CaCrt,     pem |-> Ca(gen)],
     [file |-> ClientCrt, pem |-> Leaf("client", gen)],
     [file |-> ClientKey, pem |-> Key("client", gen)],
     [file |-> ServerCrt, pem |-> Leaf("server", gen)],
     [file |-> ServerKey, pem |-> Key("server", gen)] >>

(* Mutant: the CA is written when everything else is in place.             *)
WriteCaLast ==
  << [file |-> ServerCrt, pem |-> Leaf("server", gen)],
     [file |-> ServerKey, pem |-> Key("server", gen)],
     [file |-> ClientCrt, pem |-> Leaf("client", gen)],
     [file |-> ClientKey, pem |-> Key("client", gen)],
     [file |-> CaCrt,     pem |-> Ca(gen)] >>

(* The files in the order Action writes them, and what goes into each.     *)
Writes ==
  << [file |-> CaCrt,     pem |-> Ca(gen)],
     [file |-> ServerCrt, pem |-> Leaf("server", gen)],
     [file |-> ServerKey, pem |-> Key("server", gen)],
     [file |-> ClientCrt, pem |-> Leaf("client", gen)],
     [file |-> ClientKey, pem |-> Key("client", gen)] >>

Blank(pc) == [pc |-> pc, flags |-> [cert |-> "", key |-> "", ca |-> ""], wss |-> FALSE,
              cert |-> Missing, key |-> Missing, ca |-> Missing]

Init ==
  /\ files = [f \in Files |-> Missing]
  /\ gen = 0 /\ writer = 0 /\ opened = FALSE
  /\ party = [r \in Roles |-> Blank("off")]
  /\ link = FALSE

-----------------------------------------------------------------------------
(* The mtls command.                                                       *)

(* Everything is generated before the first file is touched.               *)
Generate ==
  /\ writer = 0 /\ gen < MaxGen
  /\ gen' = gen + 1 /\ writer' = 1
  /\ UNCHANGED <<files, opened, party, link>>

(* OpenFile with O_CREATE and O_TRUNC.                                     *)
OpenOutput ==
  /\ writer # 0 /\ ~opened
  /\ files' = [files EXCEPT ![Writes[writer].file] = Partial]
  /\ opened' = TRUE
  /\ UNCHANGED <<gen, writer, party, link>>

(* Mutant: the command does not end after the last file.                   *)
EncodeOn ==
  /\ writer # 0 /\ opened
  /\ files' = [files EXCEPT ![Writes[writer].file] = Writes[writer].pem]
  /\ opened' = FALSE
  /\ writer' = writer + 1
  /\ UNCHANGED <<gen, party, link>>

(* pem.Encode, then the next file.                                         *)
Encode ==
  /\ writer # 0 /\ opened
  /\ files' = [files EXCEPT ![Writes[writer].file] = Writes[writer].pem]
  /\ opened' = FALSE
  /\ writer' = (writer + 1) % (Len(Writes) + 1)
  /\ UNCHANGED <<gen, party, link>>

(* An error of OpenFile or Encode ends the command, as does a kill; what   *)
(* was written stays.                                                      *)
Abort ==
  /\ writer # 0
  /\ writer' = 0 /\ opened' = FALSE
  /\ UNCHANGED <<files, gen, party, link>>

-----------------------------------------------------------------------------
(* Loading.  The two commands differ in the role they ask of their         *)
(* certificate, and in the scheme the client's URL has to agree with.      *)

(* Leaf.Verify: the leaf is a root itself or signed by one, and its        *)
(* extended key usage, which a CA has none of, allows the role.            *)
Verifies(leaf, ca, role) ==
  /\ leaf.kind = "crt" /\ ca.kind = "crt"
  /\ leaf = ca \/ (ca.role = "ca" /\ ca.gen = leaf.gen)
  /\ leaf.role \in {role, "ca"}

(* Mutant: the key is not compared with the certificate.                   *)
PairParses(cert, key) == cert.kind = "crt" /\ key.kind = "key"

(* LoadX509KeyPair: both parse and the key is the certificate's.           *)
PairMatches(cert, key) ==
  /\ cert.kind = "crt" /\ key.kind = "key"
  /\ cert.role = key.role /\ cert.gen = key.gen

(* AppendCertsFromPEM, then the verification of the own certificate.       *)
Loads(p, ca, role) == ca.kind = "crt" /\ Verifies(p.cert, ca, role)

(* What the flags lead to: no mTLS, an error, or loading.                  *)
FirstStep(flags, wss) ==
  CASE {flags.cert, flags.key, flags.ca} = {""} -> IF wss THEN "refused" ELSE "plain"
    [] "" \notin {flags.cert, flags.key, flags.ca} -> "cert"
    [] OTHER -> "refused"

(* A command starts; the server has no URL.                                *)
Start(r) ==
  /\ party[r].pc = "off"
  /\ \E f \in Flags, wss \in BOOLEAN :
       /\ r = "server" => ~wss
       /\ party' = [party EXCEPT ![r] = [Blank(FirstStep(f, wss)) EXCEPT !.flags = f, !.wss = wss]]
  /\ UNCHANGED <<files, mtlsVars, link>>

ReadCert(r) ==
  /\ party[r].pc = "cert"
  /\ LET c == files[party[r].flags.cert] IN
     party' = [party EXCEPT ![r] = IF c = Missing THEN Blank("refused")
                                   ELSE [@ EXCEPT !.cert = c, !.pc = "key"]]
  /\ UNCHANGED <<files, mtlsVars, link>>

ReadKey(r) ==
  /\ party[r].pc = "key"
  /\ LET k == files[party[r].flags.key] IN
     party' = [party EXCEPT ![r] = IF PairMatches(@.cert, k)
                                   THEN [@ EXCEPT !.key = k, !.pc = "ca"]
                                   ELSE Blank("refused")]
  /\ UNCHANGED <<files, mtlsVars, link>>

(* The client refuses a configuration its ws:// URL has no use for.        *)
ReadCa(r) ==
  /\ party[r].pc = "ca"
  /\ LET c == files[party[r].flags.ca] IN
     party' = [party EXCEPT ![r] = IF Loads(@, c, r) /\ (r = "client" => @.wss)
                                   THEN [@ EXCEPT !.ca = c, !.pc = "tls"]
                                   ELSE Blank("refused")]
  /\ UNCHANGED <<files, mtlsVars, link>>

(* A process ends, and with it the connection.                             *)
Stop(r) ==
  /\ party[r].pc # "off"
  /\ party' = [party EXCEPT ![r] = Blank("off")]
  /\ link' = FALSE
  /\ UNCHANGED <<files, mtlsVars>>

-----------------------------------------------------------------------------
(* The connection.                                                         *)

(* An endpoint that is none of mcptp's: it speaks TLS with a certificate   *)
(* of another CA and checks nothing.                                       *)
Stranger(r) == [Blank("stranger") EXCEPT !.cert = Leaf(r, 0)]

StrangerAppears(r) ==
  /\ party[r].pc = "off"
  /\ party' = [party EXCEPT ![r] = Stranger(r)]
  /\ UNCHANGED <<files, mtlsVars, link>>

(* Mutant: a client certificate is asked for but not verified.             *)
RequestsClientCert(s, c) == c.cert.kind = "crt"

(* RequireAndVerifyClientCert.                                             *)
ServerAccepts(s, c) == s.pc = "tls" => Verifies(c.cert, s.ca, "client")

(* Mutant: InsecureSkipVerify without VerifyConnection.                    *)
ClientSkipsVerify(s, c) == s.cert.kind = "crt"

(* VerifyConnection.                                                       *)
ClientAccepts(s, c) == c.pc = "tls" => Verifies(s.cert, c.ca, "server")

Tls(p) == p.pc \in {"tls", "stranger"}

Handshake(s, c) ==
  \/ s.pc = "plain" /\ c.pc = "plain"
  \/ Tls(s) /\ Tls(c) /\ ServerAccepts(s, c) /\ ClientAccepts(s, c)

Connect ==
  /\ ~link /\ Handshake(party["server"], party["client"])
  /\ link' = TRUE
  /\ UNCHANGED <<files, mtlsVars, party>>

Next ==
  \/ Generate \/ OpenOutput \/ Encode \/ Abort \/ Connect
  \/ \E r \in Roles : Start(r) \/ ReadCert(r) \/ ReadKey(r) \/ ReadCa(r)
                      \/ Stop(r) \/ StrangerAppears(r)

Spec == Init /\ [][Next]_vars

-----------------------------------------------------------------------------
Pem == {Missing, Partial} \cup
       [kind : {"crt", "key"}, role : {"ca"} \cup Roles, gen : 0..MaxGen]

FlagValues == [cert : Files \cup {""}, key : Files \cup {""}, ca : Files \cup {""}]

Parties ==
  [pc : {"off", "cert", "key", "ca", "plain", "tls", "refused", "stranger"},
   flags : FlagValues, wss : BOOLEAN, cert : Pem, key : Pem, ca : Pem]

(* Every variable holds a value of its type.                               *)
TypeOK ==
  /\ files \in [Files -> Pem]
  /\ gen \in 0..MaxGen /\ writer \in 0..5 /\ opened \in BOOLEAN
  /\ party \in [Roles -> Parties]
  /\ link \in BOOLEAN

(* A configuration that loaded is of one run of the mtls command and made  *)
(* for the side that loaded it, however the three reads interleave with a  *)
(* rewrite of the directory and whatever an aborted one left behind.       *)
LoadedIsOneGeneration ==
  \A r \in Roles :
    LET p == party[r] IN
    p.pc = "tls" => /\ p.cert = Leaf(r, p.ca.gen) /\ p.key = Key(r, p.ca.gen)
                    /\ p.ca.kind = "crt" /\ p.ca.gen \in 1..gen

(* Who is connected trusts the same CA: a server or a client with mTLS has *)
(* a peer with mTLS of the same generation and the other role, and one     *)
(* without is connected in the clear only when it was asked for by both.   *)
LinkIsMutual ==
  link /\ (\E r \in Roles : party[r].pc # "stranger") =>
    LET s == party["server"]  c == party["client"] IN
    \/ s.pc = "plain" /\ c.pc = "plain" /\ ~c.wss
       /\ {s.flags.cert, s.flags.key, s.flags.ca, c.flags.cert, c.flags.key, c.flags.ca} = {""}
    \/ s.pc = "tls" /\ c.pc = "tls" /\ s.cert = Leaf("server", c.ca.gen)
       /\ c.cert = Leaf("client", s.ca.gen) /\ s.ca = c.ca

(* What role r would load from the directory as it is, with its own flags. *)
CrtOf(r) == IF r = "server" THEN ServerCrt ELSE ClientCrt
KeyOf(r) == IF r = "server" THEN ServerKey ELSE ClientKey
Loaded(r) == [Blank("tls") EXCEPT !.cert = files[CrtOf(r)], !.key = files[KeyOf(r)],
                                  !.ca = files[CaCrt]]
CanLoad(r) ==
  PairMatches(files[CrtOf(r)], files[KeyOf(r)]) /\ Loads(Loaded(r), files[CaCrt], r)

(* A run that got to its end leaves a bundle both sides can load.  One     *)
(* that was aborted may leave a server without usable clients, never a     *)
(* client without a usable server.                                         *)
RotationOrder ==
  /\ CanLoad("client") => CanLoad("server")
  /\ writer = 0 /\ files[ClientKey] = Key("client", gen) => CanLoad("client")

(* What a side has when it is done loading is what the directory holds at  *)
(* that moment, not the remains of a bundle that was replaced between its  *)
(* three reads: it is the CA, written first and read last, that tells.     *)
LoadIsCurrent ==
  [][\A r \in Roles :
       party[r].pc = "ca" /\ party'[r].pc = "tls" =>
         LET p == party'[r] IN
         /\ p.cert = files[p.flags.cert] /\ p.key = files[p.flags.key]
         /\ p.ca = files[p.flags.ca]]_vars
=============================================================================
