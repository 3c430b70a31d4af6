-------------------------- MODULE MtlsBundleProofs --------------------------
(***************************************************************************)
(* The safety of the certificate bundle for any number of runs of the mtls *)
(* command and any flags.                                                  *)
(***************************************************************************)
EXTENDS MtlsBundle, TLAPS

(* The files in the order of Writes, and what run g puts into each.        *)
FileAt == [i \in 1..5 |-> CASE i = 1 -> CaCrt     [] i = 2 -> ServerCrt
                            [] i = 3 -> ServerKey [] i = 4 -> ClientCrt
                            [] OTHER -> ClientKey]

Output(i, g) == CASE i = 1 -> Ca(g)
                  [] i = 2 -> Leaf("server", g) [] i = 3 -> Key("server", g)
                  [] i = 4 -> Leaf("client", g) [] OTHER -> Key("client", g)

(***************************************************************************)
(* The inductive invariant of the directory.  A file holds what its run    *)
(* put there, or is empty.  The current run wrote the files before writer  *)
(* and none of the others; where a file is as new as the CA, so is every   *)
(* file written before it.                                                 *)
(***************************************************************************)
Holds(i, g) == files[FileAt[i]] = Output(i, g)

Written == \A i \in 1..5 :
  files[FileAt[i]] \in {Missing, Partial} \/ \E g \in 1..gen : Holds(i, g)

Progress ==
  /\ opened => writer # 0 /\ files[FileAt[writer]] = Partial
  /\ writer # 0 =>
       /\ gen # 0
       /\ \A i \in 1..5 : i < writer => Holds(i, gen)
       /\ \A i \in 1..5 : i >= writer => ~Holds(i, gen)

Ordered ==
  /\ \A g \in 1..gen : \A i, j \in 1..5 :
       i < j /\ Holds(1, g) /\ Holds(j, g) => Holds(i, g)
  /\ gen # 0 => \A j \in 1..5 : Holds(j, gen) => Holds(1, gen)

Directory == Written /\ Progress /\ Ordered

(***************************************************************************)
(* What a party has read is from a run so far, and has passed the checks   *)
(* of the reads before.                                                    *)
(***************************************************************************)
Genuine(p) ==
  /\ p = Missing \/ p = Partial \/ p.gen \in 1..gen
  /\ p.kind = "key" => p.role \in Roles

Checked(r, p) ==
  /\ p.pc = "stranger" => p = Stranger(r)
  /\ p.pc # "stranger" => Genuine(p.cert) /\ Genuine(p.key) /\ Genuine(p.ca)
  /\ p.pc \in {"cert", "key", "ca"} => "" \notin {p.flags.cert, p.flags.key, p.flags.ca}
  /\ p.pc = "plain" => ~p.wss /\ {p.flags.cert, p.flags.key, p.flags.ca} = {""}
  /\ p.pc \in {"ca", "tls"} => PairMatches(p.cert, p.key)
  /\ p.pc = "tls" => p.ca.kind = "crt" /\ Verifies(p.cert, p.ca, r)

AllChecked == \A r \in Roles : Checked(r, party[r])

LinkInv == link => Handshake(party["server"], party["client"])

IInv == TypeOK /\ Directory /\ AllChecked /\ LinkInv

-----------------------------------------------------------------------------
(* The directory as the mtls command sees it: by the order of its writes.  *)

LEMMA Bound == MaxGen \in Nat
BY BundleAssumption

LEMMA WritesInOrder ==
  /\ Len(Writes) = 5
  /\ \A i \in 1..5 : Writes[i].file = FileAt[i] /\ Writes[i].pem = Output(i, gen)
<1>1. Len(Writes) = 5
  BY DEF Writes
<1>2. ASSUME NEW i \in 1..5
      PROVE  Writes[i].file = FileAt[i] /\ Writes[i].pem = Output(i, gen)
  <2>1. CASE i = 1
    BY <2>1 DEF Writes, FileAt, Output
  <2>2. CASE i = 2
    BY <2>2 DEF Writes, FileAt, Output
  <2>3. CASE i = 3
    BY <2>3 DEF Writes, FileAt, Output
  <2>4. CASE i = 4
    BY <2>4 DEF Writes, FileAt, Output
  <2>5. CASE i = 5
    BY <2>5 DEF Writes, FileAt, Output
  <2> QED
    BY <2>1, <2>2, <2>3, <2>4, <2>5
<1> QED
  BY <1>1, <1>2

LEMMA FileOrder ==
  /\ \A i \in 1..5 : FileAt[i] \in Files
  /\ \A i, j \in 1..5 : FileAt[i] = FileAt[j] => i = j
  /\ \A f \in Files : \E i \in 1..5 : f = FileAt[i]
<1>1. /\ FileAt[1] = CaCrt /\ FileAt[2] = ServerCrt /\ FileAt[3] = ServerKey
      /\ FileAt[4] = ClientCrt /\ FileAt[5] = ClientKey
  BY DEF FileAt
<1>2. \A i \in 1..5 : i = 1 \/ i = 2 \/ i = 3 \/ i = 4 \/ i = 5
  OBVIOUS
<1> QED
  BY <1>1, <1>2 DEF Files, CaCrt, ServerCrt, ServerKey, ClientCrt, ClientKey

(* What a run writes is no empty file, and tells which run it was.         *)
LEMMA OutputFacts ==
  ASSUME NEW i \in 1..5, NEW g \in Nat
  PROVE  /\ Output(i, g).gen = g
         /\ Output(i, g).kind \in {"crt", "key"}
         /\ Output(i, g).kind = "key" => Output(i, g).role \in Roles
         /\ Output(i, g) \notin {Missing, Partial}
         /\ Output(i, g) \in [kind : {"crt", "key"}, role : {"ca"} \cup Roles, gen : {g}]
<1>1. Output(i, g) \in {Ca(g), Leaf("server", g), Key("server", g),
                       Leaf("client", g), Key("client", g)}
  BY DEF Output
<1>2. ASSUME NEW c \in {Ca(g), Leaf("server", g), Key("server", g),
                        Leaf("client", g), Key("client", g)}
      PROVE  /\ c.gen = g
             /\ c.kind \in {"crt", "key"}
             /\ c.kind = "key" => c.role \in Roles
             /\ c \notin {Missing, Partial}
             /\ c \in [kind : {"crt", "key"}, role : {"ca"} \cup Roles, gen : {g}]
  <2>1. PICK kind \in {"crt", "key"}, role \in {"ca"} \cup Roles :
          c = [kind |-> kind, role |-> role, gen |-> g] /\ (kind = "key" => role \in Roles)
    <3>1. CASE c = Ca(g)
      BY <3>1 DEF Ca
    <3>2. CASE c = Leaf("server", g) \/ c = Leaf("client", g)
      BY <3>2 DEF Leaf, Roles
    <3>3. CASE c = Key("server", g) \/ c = Key("client", g)
      BY <3>3 DEF Key, Roles
    <3> QED
      BY <3>1, <3>2, <3>3
  <2> QED
    BY <2>1 DEF Missing, Partial
<1> QED
  BY <1>1, <1>2

LEMMA HoldsOne ==
  ASSUME NEW i \in 1..5, NEW g \in Nat, NEW h \in Nat, Holds(i, g), Holds(i, h)
  PROVE  g = h
<1>1. Output(i, g).gen = g /\ Output(i, h).gen = h
  BY OutputFacts
<1> QED
  BY <1>1 DEF Holds

LEMMA InitInv == Init => IInv
<1> SUFFICES ASSUME Init PROVE IInv
  OBVIOUS
<1>1. Blank("off") \in Parties
  BY DEF Blank, Parties, FlagValues, Pem
<1>2. TypeOK
  <2>1. files \in [Files -> Pem] /\ party \in [Roles -> Parties]
    BY <1>1 DEF Init, Pem
  <2>2. gen = 0 /\ writer = 0 /\ opened = FALSE /\ link = FALSE
    BY DEF Init
  <2>3. gen \in 0..MaxGen /\ writer \in 0..5
    BY <2>2, Bound
  <2> QED
    BY <2>1, <2>2, <2>3 DEF TypeOK
<1>3. Directory
  BY FileOrder DEF Init, Directory, Written, Progress, Ordered
<1>4. AllChecked
  BY DEF Init, AllChecked, Checked, Blank, Genuine, Missing
<1>5. LinkInv
  BY DEF Init, LinkInv
<1> QED
  BY <1>2, <1>3, <1>4, <1>5 DEF IInv

(* A file is written where writer is, and only there.                      *)
LEMMA OneFileWritten ==
  ASSUME TypeOK, writer # 0, NEW c, files' = [files EXCEPT ![Writes[writer].file] = c]
  PROVE  /\ writer \in 1..5
         /\ \A i \in 1..5 : files'[FileAt[i]] = IF i = writer THEN c ELSE files[FileAt[i]]
<1>1. writer \in 1..5
  BY DEF TypeOK
<1>2. Writes[writer].file = FileAt[writer]
  BY <1>1, WritesInOrder
<1> QED
  BY <1>1, <1>2, FileOrder DEF TypeOK

LEMMA DirectoryStep ==
  ASSUME TypeOK, Directory, [Next]_vars
  PROVE  Directory' /\ gen' \in {gen, gen + 1}
<1> USE DEF Directory
<1>0. gen \in Nat /\ writer \in 0..5
  BY Bound DEF TypeOK
<1>1. CASE UNCHANGED <<files, mtlsVars>>
  BY <1>1 DEF Written, Progress, Ordered, Holds, mtlsVars
<1>2. CASE Generate
  <2>1. \A i \in 1..5 : ~Holds(i, gen + 1)
    <3> SUFFICES ASSUME NEW i \in 1..5, Holds(i, gen + 1) PROVE FALSE
      OBVIOUS
    <3>1. Output(i, gen + 1) \notin {Missing, Partial} /\ Output(i, gen + 1).gen = gen + 1
      BY <1>0, OutputFacts
    <3>2. PICK g \in 1..gen : Holds(i, g)
      BY <3>1 DEF Written, Holds
    <3>3. Output(i, g).gen = g
      BY <1>0, OutputFacts
    <3> QED
      BY <1>0, <3>1, <3>2, <3>3 DEF Holds
  <2>2. files' = files /\ gen' = gen + 1 /\ writer' = 1 /\ opened' = opened /\ writer = 0
    BY <1>2 DEF Generate
  <2>3. Written'
    BY <1>0, <2>2 DEF Written, Holds
  <2>4. Progress'
    BY <1>0, <2>2, <2>1 DEF Progress, Holds
  <2>5. Ordered'
    BY <1>0, <2>1, <2>2 DEF Ordered, Holds
  <2> QED
    BY <2>2, <2>3, <2>4, <2>5
<1>3. CASE OpenOutput
  <2>1. /\ writer \in 1..5
        /\ \A i \in 1..5 : files'[FileAt[i]] = IF i = writer THEN Partial ELSE files[FileAt[i]]
    BY <1>3, OneFileWritten DEF OpenOutput
  <2>2. \A i \in 1..5, g \in Nat : Partial # Output(i, g)
    BY OutputFacts
  <2>3. /\ UNCHANGED <<gen, writer>>
        /\ \A i \in 1..5, g \in Nat : Holds(i, g)' <=> i # writer /\ Holds(i, g)
    BY <1>3, <2>1, <2>2 DEF OpenOutput, Holds
  <2>4. Written'
    BY <1>0, <2>1, <2>3 DEF Written
  <2>5. Progress'
    BY <1>0, <2>1, <2>3 DEF Progress
  <2>6. Ordered'
    <3>1. \A g \in 1..gen : \A j \in 1..5 : writer # 1 /\ Holds(1, g) /\ Holds(j, g) => j <= writer
      BY <1>0, <2>1, HoldsOne DEF Progress
    <3> QED
      BY <1>0, <2>1, <2>3, <3>1 DEF Ordered, Progress
  <2> QED
    BY <2>3, <2>4, <2>5, <2>6
<1>4. CASE Encode
  <2>1. /\ writer \in 1..5
        /\ \A i \in 1..5 : files'[FileAt[i]] = IF i = writer THEN Output(writer, gen)
                                                          ELSE files[FileAt[i]]
    BY <1>4, OneFileWritten, WritesInOrder DEF Encode, TypeOK
  <2>2. \A g \in Nat : Output(writer, gen) = Output(writer, g) <=> g = gen
    BY <1>0, <2>1, OutputFacts
  <2>3. /\ UNCHANGED gen
        /\ \A i \in 1..5, g \in Nat :
             Holds(i, g)' <=> IF i = writer THEN g = gen ELSE Holds(i, g)
    BY <1>4, <2>1, <2>2 DEF Encode, Holds
  <2>4. writer' = (writer + 1) % 6 /\ opened' = FALSE
    BY <1>4, WritesInOrder DEF Encode
  <2>5. writer' = IF writer = 5 THEN 0 ELSE writer + 1
    BY <1>0, <2>1, <2>4
  <2>6. Written'
    BY <1>0, <2>1, <2>3 DEF Written, Progress
  <2>7. Progress'
    BY <1>0, <2>1, <2>3, <2>4, <2>5 DEF Progress
  <2>8. Ordered'
    <3>1. \A g \in 1..gen : \A j \in 1..5 : writer # 1 /\ Holds(1, g) /\ Holds(j, g) =>
            g = gen \/ j <= writer
      BY <1>0, <2>1, HoldsOne DEF Progress
    <3>2. \A j \in 1..5 : Holds(j, gen)' => j <= writer
      BY <1>0, <2>1, <2>3 DEF Progress
    <3> QED
      BY <1>0, <2>1, <2>3, <3>1, <3>2 DEF Ordered, Progress
  <2> QED
    BY <2>3, <2>6, <2>7, <2>8
<1>5. CASE Abort
  BY <1>5 DEF Abort, Written, Progress, Ordered, Holds
<1> QED
  BY <1>1, <1>2, <1>3, <1>4, <1>5
     DEF Next, Connect, Start, ReadCert, ReadKey, ReadCa, Stop, StrangerAppears, vars, mtlsVars

-----------------------------------------------------------------------------
(* The parties.                                                            *)

LEMMA Fields ==
  ASSUME NEW p \in Parties
  PROVE  /\ p.flags \in FlagValues /\ p.wss \in BOOLEAN
         /\ p.cert \in Pem /\ p.key \in Pem /\ p.ca \in Pem
         /\ p.flags.cert \in Files \cup {""} /\ p.flags.key \in Files \cup {""}
         /\ p.flags.ca \in Files \cup {""}
BY DEF Parties, FlagValues

LEMMA BlankIsParty ==
  ASSUME NEW pc \in {"off", "cert", "key", "ca", "plain", "tls", "refused", "stranger"}
  PROVE  Blank(pc) \in Parties
BY DEF Blank, Parties, FlagValues, Pem

(* What a file holds is fit to be read.                                    *)
LEMMA FilesAreGenuine ==
  ASSUME TypeOK, Written, NEW f \in Files
  PROVE  Genuine(files[f])
<1>1. PICK i \in 1..5 : f = FileAt[i]
  BY FileOrder
<1>2. CASE files[f] \in {Missing, Partial}
  <2>1. Missing.kind # "key" /\ Partial.kind # "key"
    BY DEF Missing, Partial
  <2> QED
    BY <1>2, <2>1 DEF Genuine
<1>3. CASE \E g \in 1..gen : Holds(i, g)
  <2>1. PICK g \in 1..gen : files[f] = Output(i, g)
    BY <1>1, <1>3 DEF Holds
  <2>2. g \in Nat
    BY Bound DEF TypeOK
  <2> QED
    BY <2>1, <2>2, OutputFacts DEF Genuine
<1> QED
  BY <1>1, <1>2, <1>3 DEF Written

(* Another run takes nothing from what was read.                           *)
LEMMA GenuineStays ==
  ASSUME TypeOK, gen' \in {gen, gen + 1}, NEW c, Genuine(c)
  PROVE  Genuine(c)'
BY Bound DEF TypeOK, Genuine

(* One party becomes p, or none changes.                                   *)
LEMMA PartyBecomes ==
  ASSUME TypeOK, AllChecked, gen' = gen,
         NEW r \in Roles, NEW p \in Parties, Checked(r, p),
         party' = [party EXCEPT ![r] = p]
  PROVE  party' \in [Roles -> Parties] /\ AllChecked'
<1>1. party' \in [Roles -> Parties]
  BY DEF TypeOK
<1>2. \A c : Genuine(c) => Genuine(c)'
  BY DEF Genuine
<1>3. \A q \in Roles : \A c : Checked(q, c) => Checked(q, c)'
  BY <1>2 DEF Checked
<1>4. AllChecked'
  BY <1>3 DEF AllChecked, TypeOK
<1> QED
  BY <1>1, <1>4

LEMMA PartiesStay ==
  ASSUME TypeOK, AllChecked, gen' \in {gen, gen + 1}, UNCHANGED party
  PROVE  AllChecked'
<1>1. \A c : Genuine(c) => Genuine(c)'
  BY GenuineStays
<1> QED
  BY <1>1 DEF AllChecked, Checked

LEMMA StartKeeps ==
  ASSUME TypeOK, AllChecked, NEW r \in Roles, Start(r)
  PROVE  party' \in [Roles -> Parties] /\ AllChecked'
<1>1. PICK f \in Flags, wss \in BOOLEAN :
        party' = [party EXCEPT ![r] =
                    [Blank(FirstStep(f, wss)) EXCEPT !.flags = f, !.wss = wss]]
  BY DEF Start
<1> DEFINE b == Blank(FirstStep(f, wss))
           p == [[b EXCEPT !.flags = f] EXCEPT !.wss = wss]
<1>2. f \in FlagValues
  BY BundleAssumption DEF FlagValues
<1>3. FirstStep(f, wss) \in {"refused", "plain", "cert"}
  BY DEF FirstStep
<1>4. b \in Parties
  BY <1>3, BlankIsParty
<1>5. p \in Parties
  BY <1>2, <1>4 DEF Parties
<1>6. /\ p.pc = FirstStep(f, wss) /\ p.flags = f /\ p.wss = wss
      /\ p.cert = Missing /\ p.key = Missing /\ p.ca = Missing
  BY <1>2, <1>4 DEF Blank
<1>7. party' = [party EXCEPT ![r] = p]
  BY <1>1
<1> HIDE DEF p
<1>8. Checked(r, p)
  <2>1. Genuine(Missing)
    BY DEF Genuine, Missing
  <2>2. p.pc = "cert" => "" \notin {f.cert, f.key, f.ca}
    BY <1>6 DEF FirstStep
  <2>3. p.pc = "plain" => ~wss /\ {f.cert, f.key, f.ca} = {""}
    BY <1>6 DEF FirstStep
  <2> QED
    BY <1>3, <1>6, <2>1, <2>2, <2>3 DEF Checked
<1> QED
  BY <1>5, <1>7, <1>8, PartyBecomes DEF Start, mtlsVars

(* The three reads: each takes what the file holds, or ends in a refusal.  *)
LEMMA ReadKeeps ==
  ASSUME TypeOK, Written, AllChecked, NEW r \in Roles, ReadCert(r) \/ ReadKey(r) \/ ReadCa(r)
  PROVE  party' \in [Roles -> Parties] /\ AllChecked'
<1> DEFINE p == party[r]
<1>0. p \in Parties /\ Checked(r, p)
  BY DEF TypeOK, AllChecked
<1>1. Blank("refused") \in Parties /\ Checked(r, Blank("refused"))
  <2>1. Blank("refused").pc = "refused" /\ Genuine(Missing)
    BY DEF Blank, Genuine, Missing
  <2> QED
    BY <2>1, BlankIsParty DEF Checked, Blank
<1>2. gen' = gen
  BY DEF ReadCert, ReadKey, ReadCa, mtlsVars
<1>3. CASE ReadCert(r)
  <2> DEFINE q == [[p EXCEPT !.cert = files[p.flags.cert]] EXCEPT !.pc = "key"]
  <2>1. /\ p.pc = "cert"
        /\ party' = [party EXCEPT ![r] = Blank("refused")] \/ party' = [party EXCEPT ![r] = q]
    BY <1>3, <1>0 DEF ReadCert, TypeOK
  <2>2. p.flags.cert \in Files
    BY <1>0, <2>1, Fields DEF Checked
  <2>3. files[p.flags.cert] \in Pem /\ Genuine(files[p.flags.cert])
    BY <2>2, FilesAreGenuine DEF TypeOK
  <2>4. /\ q \in Parties
        /\ q.pc = "key" /\ q.cert = files[p.flags.cert] /\ q.flags = p.flags
        /\ q.key = p.key /\ q.ca = p.ca
    BY <1>0, <2>3 DEF Parties
  <2> HIDE DEF q
  <2>5. Checked(r, q)
    BY <1>0, <2>1, <2>3, <2>4 DEF Checked
  <2> QED
    BY <1>1, <1>2, <2>1, <2>4, <2>5, PartyBecomes
<1>4. CASE ReadKey(r)
  <2> DEFINE k == files[p.flags.key]
             q == [[p EXCEPT !.key = k] EXCEPT !.pc = "ca"]
  <2>1. /\ p.pc = "key"
        /\ \/ party' = [party EXCEPT ![r] = Blank("refused")]
           \/ PairMatches(p.cert, k) /\ party' = [party EXCEPT ![r] = q]
    BY <1>4, <1>0 DEF ReadKey, TypeOK
  <2>2. p.flags.key \in Files
    BY <1>0, <2>1, Fields DEF Checked
  <2>3. k \in Pem /\ Genuine(k)
    BY <2>2, FilesAreGenuine DEF TypeOK
  <2>4. /\ q \in Parties
        /\ q.pc = "ca" /\ q.key = k /\ q.flags = p.flags
        /\ q.cert = p.cert /\ q.ca = p.ca
    BY <1>0, <2>3 DEF Parties
  <2> HIDE DEF q, k
  <2>5. PairMatches(p.cert, k) => Checked(r, q)
    BY <1>0, <2>1, <2>3, <2>4 DEF Checked
  <2> QED
    BY <1>1, <1>2, <2>1, <2>4, <2>5, PartyBecomes
<1>5. CASE ReadCa(r)
  <2> DEFINE c == files[p.flags.ca]
             q == [[p EXCEPT !.ca = c] EXCEPT !.pc = "tls"]
  <2>1. /\ p.pc = "ca"
        /\ \/ party' = [party EXCEPT ![r] = Blank("refused")]
           \/ Loads(p, c, r) /\ party' = [party EXCEPT ![r] = q]
    BY <1>5, <1>0 DEF ReadCa, TypeOK
  <2>2. p.flags.ca \in Files
    BY <1>0, <2>1, Fields DEF Checked
  <2>3. c \in Pem /\ Genuine(c)
    BY <2>2, FilesAreGenuine DEF TypeOK
  <2>4. /\ q \in Parties
        /\ q.pc = "tls" /\ q.ca = c /\ q.cert = p.cert /\ q.key = p.key
    BY <1>0, <2>3 DEF Parties
  <2> HIDE DEF q, c
  <2>5. Loads(p, c, r) => Checked(r, q)
    BY <1>0, <2>1, <2>3, <2>4 DEF Checked, Loads
  <2> QED
    BY <1>1, <1>2, <2>1, <2>4, <2>5, PartyBecomes
<1> QED
  BY <1>3, <1>4, <1>5

LEMMA StopKeeps ==
  ASSUME TypeOK, AllChecked, NEW r \in Roles, Stop(r) \/ StrangerAppears(r)
  PROVE  party' \in [Roles -> Parties] /\ AllChecked'
<1>0. gen' = gen
  BY DEF Stop, StrangerAppears, mtlsVars
<1>1. CASE Stop(r)
  <2>1. Blank("off").pc = "off" /\ Genuine(Missing)
    BY DEF Blank, Genuine, Missing
  <2>2. Checked(r, Blank("off"))
    BY <2>1 DEF Checked, Blank
  <2> QED
    BY <1>0, <1>1, <2>2, BlankIsParty, PartyBecomes DEF Stop
<1>2. CASE StrangerAppears(r)
  <2>1. Stranger(r) \in Parties /\ Stranger(r).pc = "stranger"
    <3>1. Leaf(r, 0) \in Pem
      BY Bound DEF Leaf, Pem
    <3>2. Blank("stranger") \in Parties /\ Blank("stranger").pc = "stranger"
      BY BlankIsParty DEF Blank
    <3> QED
      BY <3>1, <3>2 DEF Stranger, Parties
  <2>2. Checked(r, Stranger(r))
    BY <2>1 DEF Checked
  <2> QED
    BY <1>0, <1>2, <2>1, <2>2, PartyBecomes DEF StrangerAppears
<1> QED
  BY <1>1, <1>2

-----------------------------------------------------------------------------
(* The files keep their type.                                              *)
LEMMA CommandKeepsType ==
  ASSUME TypeOK, Directory, Generate \/ OpenOutput \/ Encode \/ Abort
  PROVE  TypeOK'
<1>0. gen \in Nat /\ gen \in 0..MaxGen /\ MaxGen \in Nat
  BY Bound DEF TypeOK
<1>1. CASE Generate
  <2>1. gen + 1 \in 0..MaxGen
    BY <1>0, <1>1 DEF Generate
  <2> QED
    BY <1>1, <2>1 DEF Generate, TypeOK
<1>2. CASE OpenOutput
  <2>1. files' \in [Files -> Pem]
    BY <1>2 DEF OpenOutput, TypeOK, Pem
  <2> QED
    BY <1>2, <2>1 DEF OpenOutput, TypeOK
<1>3. CASE Encode
  <2>1. writer \in 1..5
    BY <1>3 DEF Encode, TypeOK
  <2>2. Writes[writer].pem \in Pem
    BY <1>0, <2>1, WritesInOrder, OutputFacts DEF Pem
  <2>3. files' \in [Files -> Pem]
    BY <1>3, <2>2 DEF Encode, TypeOK
  <2>4. writer' = (writer + 1) % 6
    BY <1>3, WritesInOrder DEF Encode
  <2>5. writer' \in 0..5
    BY <2>1, <2>4
  <2> QED
    BY <1>3, <2>3, <2>5 DEF Encode, TypeOK
<1>4. CASE Abort
  <2>1. writer' \in 0..5
    BY <1>4 DEF Abort
  <2> QED
    BY <1>4, <2>1 DEF Abort, TypeOK
<1> QED
  BY <1>1, <1>2, <1>3, <1>4

LEMMA NextKeeps == IInv /\ [Next]_vars => IInv'
<1> SUFFICES ASSUME IInv, [Next]_vars PROVE IInv'
  OBVIOUS
<1> USE DEF IInv
<1>1. Directory' /\ gen' \in {gen, gen + 1}
  BY DirectoryStep
<1>2. CASE Generate \/ OpenOutput \/ Encode \/ Abort
  <2>1. UNCHANGED <<party, link>>
    BY <1>2 DEF Generate, OpenOutput, Encode, Abort
  <2>2. TypeOK' /\ AllChecked'
    BY <1>1, <1>2, <2>1, CommandKeepsType, PartiesStay
  <2> QED
    BY <1>1, <2>1, <2>2 DEF LinkInv
<1>3. ASSUME NEW r \in Roles,
             Start(r) \/ ReadCert(r) \/ ReadKey(r) \/ ReadCa(r) \/ Stop(r) \/ StrangerAppears(r)
      PROVE  IInv'
  <2>1. party' \in [Roles -> Parties] /\ AllChecked'
    BY <1>3, StartKeeps, ReadKeeps, StopKeeps DEF Directory
  <2>2. /\ UNCHANGED <<files, gen, writer, opened>>
        /\ link' \in BOOLEAN
    BY <1>3 DEF Start, ReadCert, ReadKey, ReadCa, Stop, StrangerAppears, mtlsVars, TypeOK
  <2>3. TypeOK'
    BY <2>1, <2>2 DEF TypeOK
  <2>4. LinkInv'
    <3>1. CASE Stop(r)
      BY <3>1 DEF Stop, LinkInv
    <3>2. CASE ~Stop(r)
      <4>1. party[r].pc \in {"off", "cert", "key", "ca"} /\ link' = link
        BY <1>3, <3>2 DEF Start, ReadCert, ReadKey, ReadCa, StrangerAppears
      <4>2. ~link
        BY <4>1 DEF LinkInv, Handshake, Tls, Roles
      <4> QED
        BY <4>1, <4>2 DEF LinkInv
    <3> QED
      BY <3>1, <3>2
  <2> QED
    BY <1>1, <2>1, <2>3, <2>4
<1>4. CASE Connect
  <2>1. TypeOK' /\ AllChecked'
    BY <1>1, <1>4, PartiesStay DEF Connect, TypeOK, mtlsVars
  <2> QED
    BY <1>1, <1>4, <2>1 DEF Connect, LinkInv
<1>5. CASE UNCHANGED vars
  <2>1. TypeOK' /\ AllChecked'
    BY <1>1, <1>5, PartiesStay DEF vars, TypeOK
  <2> QED
    BY <1>1, <1>5, <2>1 DEF vars, LinkInv
<1> QED
  BY <1>2, <1>3, <1>4, <1>5 DEF Next

LEMMA Invariance == Spec => []IInv
<1> QED
  BY InitInv, NextKeeps, PTL DEF Spec

-----------------------------------------------------------------------------
(* Files, parties and the command's place keep their types, through every  *)
(* interrupted run of the mtls command and every load.                     *)
THEOREM TypeCorrect == Spec => []TypeOK
<1> QED
  BY Invariance, PTL DEF IInv

(* A certificate that passed the checks of loading, and what checked it.   *)
LEMMA LoadedFacts ==
  ASSUME IInv, NEW r \in Roles, party[r].pc = "tls"
  PROVE  LET p == party[r] IN
         /\ p.cert = Leaf(r, p.ca.gen) /\ p.key = Key(r, p.ca.gen)
         /\ p.ca = p.cert \/ p.ca = Ca(p.ca.gen)
         /\ p.ca.kind = "crt" /\ p.ca.gen \in 1..gen
         /\ p.flags \in FlagValues
<1> DEFINE p == party[r]
<1>1. p \in Parties /\ Checked(r, p)
  BY DEF IInv, TypeOK, AllChecked
<1>2. /\ p.cert.kind = "crt" /\ p.key.kind = "key" /\ p.ca.kind = "crt"
      /\ p.cert.role = p.key.role /\ p.cert.gen = p.key.gen
      /\ p.cert.role \in {r, "ca"}
      /\ p.cert = p.ca \/ (p.ca.role = "ca" /\ p.ca.gen = p.cert.gen)
      /\ Genuine(p.cert) /\ Genuine(p.key) /\ Genuine(p.ca)
  BY <1>1 DEF Checked, PairMatches, Verifies
<1>3. p.key.role \in Roles
  BY <1>2 DEF Genuine
<1>4. p.cert.role = r /\ p.key.role = r /\ p.cert.gen = p.ca.gen /\ p.key.gen = p.ca.gen
  BY <1>2, <1>3 DEF Roles
<1>0. Missing.kind = "missing" /\ Partial.kind = "partial"
  BY DEF Missing, Partial
<1>5. ASSUME NEW c \in Pem, c.kind \in {"crt", "key"}
      PROVE  c = [kind |-> c.kind, role |-> c.role, gen |-> c.gen]
  <2>1. c \in [kind : {"crt", "key"}, role : {"ca"} \cup Roles, gen : 0..MaxGen]
    BY <1>0, <1>5 DEF Pem
  <2> QED
    BY <2>1
<1>6. p.cert \in Pem /\ p.key \in Pem /\ p.ca \in Pem /\ p.flags \in FlagValues
  BY <1>1, Fields
<1>7. p.cert = Leaf(r, p.ca.gen) /\ p.key = Key(r, p.ca.gen)
  BY <1>2, <1>4, <1>5, <1>6 DEF Leaf, Key
<1>8. p.ca = p.cert \/ p.ca = Ca(p.ca.gen)
  BY <1>2, <1>5, <1>6 DEF Ca
<1>9. p.ca.gen \in 1..gen
  BY <1>0, <1>2 DEF Genuine
<1> QED
  BY <1>2, <1>6, <1>7, <1>8, <1>9

(* A configuration that loaded is of one run of the mtls command and made  *)
(* for the side that loaded it.                                            *)
THEOREM LoadedOfOneGeneration == Spec => []LoadedIsOneGeneration
<1>1. IInv => LoadedIsOneGeneration
  BY LoadedFacts DEF LoadedIsOneGeneration
<1> QED
  BY <1>1, Invariance, PTL

(* Who is connected trusts the same CA, or uses no TLS on either side.     *)
THEOREM LinksAreMutual == Spec => []LinkIsMutual
<1>1. ASSUME IInv PROVE LinkIsMutual
  <2> DEFINE s == party["server"]
             c == party["client"]
  <2> SUFFICES ASSUME link, \E r \in Roles : party[r].pc # "stranger"
               PROVE  \/ /\ s.pc = "plain" /\ c.pc = "plain" /\ ~c.wss
                         /\ {s.flags.cert, s.flags.key, s.flags.ca,
                             c.flags.cert, c.flags.key, c.flags.ca} = {""}
                      \/ /\ s.pc = "tls" /\ c.pc = "tls"
                         /\ s.cert = Leaf("server", c.ca.gen)
                         /\ c.cert = Leaf("client", s.ca.gen) /\ s.ca = c.ca
    BY DEF LinkIsMutual
  <2>1. Checked("server", s) /\ Checked("client", c) /\ Handshake(s, c)
    BY <1>1 DEF IInv, AllChecked, LinkInv, Roles
  <2>2. CASE s.pc = "plain" /\ c.pc = "plain"
    BY <2>1, <2>2 DEF Checked
  <2>3. CASE Tls(s) /\ Tls(c) /\ ServerAccepts(s, c) /\ ClientAccepts(s, c)
    <3>0. /\ Leaf("client", 0).gen = 0 /\ Leaf("server", 0).gen = 0
          /\ \A g : Leaf("client", g).role = "client" /\ Leaf("server", g).role = "server"
          /\ \A g, h : Leaf("client", g) # Leaf("server", h)
          /\ \A g : Leaf("client", g).gen = g /\ Leaf("server", g).gen = g /\ Ca(g).gen = g
      BY DEF Leaf, Ca
    <3>1. s.pc = "tls" => /\ s.cert = Leaf("server", s.ca.gen)
                          /\ s.ca = s.cert \/ s.ca = Ca(s.ca.gen)
                          /\ s.ca.gen \in 1..gen
      BY <1>1, LoadedFacts DEF Roles
    <3>2. c.pc = "tls" => /\ c.cert = Leaf("client", c.ca.gen)
                          /\ c.ca = c.cert \/ c.ca = Ca(c.ca.gen)
                          /\ c.ca.gen \in 1..gen
      BY <1>1, LoadedFacts DEF Roles
    <3>3. s.pc = "stranger" => s.cert = Leaf("server", 0)
      BY <2>1 DEF Checked, Stranger, Blank
    <3>4. c.pc = "stranger" => c.cert = Leaf("client", 0)
      BY <2>1 DEF Checked, Stranger, Blank
    <3>5. s.pc \in {"tls", "stranger"} /\ c.pc \in {"tls", "stranger"}
      BY <2>3 DEF Tls
    <3>6. s.pc = "tls" => c.cert = s.ca \/ (s.ca.role = "ca" /\ s.ca.gen = c.cert.gen)
      BY <2>3 DEF ServerAccepts, Verifies
    <3>7. c.pc = "tls" => s.cert = c.ca \/ (c.ca.role = "ca" /\ c.ca.gen = s.cert.gen)
      BY <2>3 DEF ClientAccepts, Verifies
    <3>8. ~(s.pc = "tls" /\ c.pc = "stranger")
      BY <3>0, <3>1, <3>4, <3>6
    <3>9. ~(s.pc = "stranger" /\ c.pc = "tls")
      BY <3>0, <3>2, <3>3, <3>7
    <3>10. s.pc = "tls" /\ c.pc = "tls"
      BY <3>5, <3>8, <3>9 DEF Roles
    <3>11. s.ca = Ca(s.ca.gen) /\ c.ca = Ca(c.ca.gen) /\ s.ca.gen = c.ca.gen
      BY <3>0, <3>1, <3>2, <3>6, <3>7, <3>10
    <3> QED
      BY <3>1, <3>2, <3>10, <3>11
  <2> QED
    BY <2>1, <2>2, <2>3 DEF Handshake
<1> QED
  BY <1>1, Invariance, PTL

-----------------------------------------------------------------------------
(* What the five files can hold.                                           *)
LEMMA FileFacts ==
  ASSUME IInv
  PROVE  /\ files[CaCrt] \in {Missing, Partial} \/ \E g \in 1..gen : files[CaCrt] = Ca(g)
         /\ \A r \in Roles :
              /\ \/ files[CrtOf(r)] \in {Missing, Partial}
                 \/ \E g \in 1..gen : files[CrtOf(r)] = Leaf(r, g)
              /\ \/ files[KeyOf(r)] \in {Missing, Partial}
                 \/ \E g \in 1..gen : files[KeyOf(r)] = Key(r, g)
<1>1. /\ FileAt[1] = CaCrt
      /\ FileAt[2] = CrtOf("server") /\ FileAt[3] = KeyOf("server")
      /\ FileAt[4] = CrtOf("client") /\ FileAt[5] = KeyOf("client")
  BY DEF FileAt, CrtOf, KeyOf
<1>2. \A g : /\ Output(1, g) = Ca(g)
             /\ Output(2, g) = Leaf("server", g) /\ Output(3, g) = Key("server", g)
             /\ Output(4, g) = Leaf("client", g) /\ Output(5, g) = Key("client", g)
  BY DEF Output
<1>3. Written
  BY DEF IInv, Directory
<1> QED
  BY <1>1, <1>2, <1>3 DEF Written, Holds, Roles

(* What can be loaded is the pair of the run whose CA is in the directory. *)
LEMMA CanLoadFacts ==
  ASSUME IInv, NEW r \in Roles
  PROVE  CanLoad(r) <=> \E g \in 1..gen : /\ files[CaCrt] = Ca(g)
                                          /\ files[CrtOf(r)] = Leaf(r, g)
                                          /\ files[KeyOf(r)] = Key(r, g)
<1> DEFINE crt == files[CrtOf(r)]
           key == files[KeyOf(r)]
           ca  == files[CaCrt]
<1>0. /\ Missing.kind = "missing" /\ Partial.kind = "partial"
      /\ \A g : Ca(g).kind = "crt" /\ Ca(g).role = "ca" /\ Ca(g).gen = g
      /\ \A g : Leaf(r, g).kind = "crt" /\ Leaf(r, g).role = r /\ Leaf(r, g).gen = g
      /\ \A g : Key(r, g).kind = "key" /\ Key(r, g).role = r /\ Key(r, g).gen = g
      /\ r # "ca"
  BY DEF Missing, Partial, Ca, Leaf, Key, Roles
<1>1. Loaded(r).cert = crt
  BY DEF Loaded, Blank
<1>2. CanLoad(r) <=> PairMatches(crt, key) /\ ca.kind = "crt" /\ Verifies(crt, ca, r)
  BY <1>1 DEF CanLoad, Loads
<1> HIDE DEF crt, key, ca
<1>3. ASSUME CanLoad(r)
      PROVE  \E g \in 1..gen : ca = Ca(g) /\ crt = Leaf(r, g) /\ key = Key(r, g)
  <2>1. /\ crt.kind = "crt" /\ key.kind = "key" /\ ca.kind = "crt"
        /\ crt.gen = key.gen
        /\ crt = ca \/ (ca.role = "ca" /\ ca.gen = crt.gen)
    BY <1>2, <1>3 DEF PairMatches, Verifies
  <2>2. PICK g \in 1..gen : crt = Leaf(r, g)
    BY <1>0, <2>1, FileFacts DEF crt
  <2>3. PICK h \in 1..gen : key = Key(r, h)
    BY <1>0, <2>1, FileFacts DEF key
  <2>4. PICK k \in 1..gen : ca = Ca(k)
    BY <1>0, <2>1, FileFacts DEF ca
  <2> QED
    BY <1>0, <2>1, <2>2, <2>3, <2>4
<1>4. ASSUME NEW g \in 1..gen, ca = Ca(g), crt = Leaf(r, g), key = Key(r, g)
      PROVE  CanLoad(r)
  BY <1>0, <1>2, <1>4 DEF PairMatches, Verifies
<1> QED
  BY <1>3, <1>4 DEF crt, key, ca

(* A rotation that was aborted may leave a server without usable clients,  *)
(* never the reverse, and one that got to its end leaves both usable.      *)
THEOREM RotationKeepsOrder == Spec => []RotationOrder
<1>1. ASSUME IInv PROVE RotationOrder
  <2>0. /\ FileAt[1] = CaCrt
        /\ FileAt[2] = CrtOf("server") /\ FileAt[3] = KeyOf("server")
        /\ FileAt[4] = CrtOf("client") /\ FileAt[5] = KeyOf("client")
        /\ KeyOf("client") = ClientKey
    BY DEF FileAt, CrtOf, KeyOf
  <2>1. \A g : /\ Holds(1, g) <=> files[CaCrt] = Ca(g)
               /\ Holds(2, g) <=> files[CrtOf("server")] = Leaf("server", g)
               /\ Holds(3, g) <=> files[KeyOf("server")] = Key("server", g)
               /\ Holds(4, g) <=> files[CrtOf("client")] = Leaf("client", g)
               /\ Holds(5, g) <=> files[KeyOf("client")] = Key("client", g)
    BY <2>0 DEF Holds, Output
  <2>2. /\ CanLoad("server") <=> \E g \in 1..gen : Holds(1, g) /\ Holds(2, g) /\ Holds(3, g)
        /\ CanLoad("client") <=> \E g \in 1..gen : Holds(1, g) /\ Holds(4, g) /\ Holds(5, g)
    BY <1>1, <2>1, CanLoadFacts DEF Roles
  <2>3. gen \in Nat /\ Ordered /\ Written
    BY <1>1, Bound DEF IInv, TypeOK, Directory
  <2>4. CanLoad("client") => CanLoad("server")
    BY <2>2, <2>3 DEF Ordered
  <2>5. ASSUME files[ClientKey] = Key("client", gen)
        PROVE  CanLoad("client")
    <3>1. Holds(5, gen)
      BY <2>0, <2>1, <2>5
    <3>2. gen # 0
      <4>1. Output(5, gen) \notin {Missing, Partial} /\ \A g \in Nat : Output(5, g).gen = g
        BY <2>3, OutputFacts
      <4>2. PICK g \in 1..gen : Holds(5, g)
        BY <3>1, <4>1, <2>3 DEF Written, Holds
      <4> QED
        BY <2>3, <4>2
    <3>3. gen \in 1..gen /\ Holds(1, gen)
      BY <2>3, <3>1, <3>2 DEF Ordered
    <3>4. Holds(4, gen)
      BY <2>3, <3>1, <3>3 DEF Ordered
    <3> QED
      BY <2>2, <3>1, <3>3, <3>4
  <2> QED
    BY <2>4, <2>5 DEF RotationOrder
<1> QED
  BY <1>1, Invariance, PTL

-----------------------------------------------------------------------------
(***************************************************************************)
(* What a loading party has read is still in its file, or that file and    *)
(* every one written before it have gone on to a later run.                *)
(***************************************************************************)
Replaced(i, g) == g < gen /\ \A j \in 1..5 : j <= i => ~Holds(j, g)

Fresh(f, c) ==
  \/ c \in {Missing, Partial}
  \/ \E i \in 1..5 : \E g \in 1..gen :
       f = FileAt[i] /\ c = Output(i, g) /\ (Holds(i, g) \/ Replaced(i, g))

FreshReads(p) ==
  /\ p.pc \in {"key", "ca"} => Fresh(p.flags.cert, p.cert)
  /\ p.pc = "ca" => Fresh(p.flags.key, p.key)

AllFresh == \A r \in Roles : FreshReads(party[r])

(* A file that is rewritten is one of an earlier run, and so are then all  *)
(* that were written before it.                                            *)
LEMMA ReplacedInOrder ==
  ASSUME TypeOK, Directory, [Next]_vars, NEW i \in 1..5, NEW g \in 1..gen,
         Holds(i, g) \/ Replaced(i, g)
  PROVE  (Holds(i, g) \/ Replaced(i, g))'
<1> USE DEF Directory
<1>0. gen \in Nat /\ g \in Nat
  BY Bound DEF TypeOK
<1>1. CASE UNCHANGED files /\ gen' \in {gen, gen + 1}
  BY <1>0, <1>1 DEF Holds, Replaced
<1>2. CASE OpenOutput
  <2>1. /\ writer \in 1..5 /\ gen' = gen
        /\ \A j \in 1..5 : files'[FileAt[j]] = IF j = writer THEN Partial ELSE files[FileAt[j]]
    BY <1>2, OneFileWritten DEF OpenOutput
  <2>2. \A j \in 1..5 : Partial # Output(j, g)
    BY <1>0, OutputFacts
  <2>3. \A j \in 1..5 : Holds(j, g)' <=> j # writer /\ Holds(j, g)
    BY <2>1, <2>2 DEF Holds
  <2>4. CASE Holds(i, g) /\ i = writer
    <3>1. g # gen
      BY <2>1, <2>4 DEF Progress
    <3>2. \A j \in 1..5 : j < writer => ~Holds(j, g)
      BY <1>0, <2>1, <3>1, HoldsOne DEF Progress
    <3> QED
      BY <1>0, <2>1, <2>3, <2>4, <3>1, <3>2 DEF Replaced
  <2>5. CASE Holds(i, g) /\ i # writer
    BY <2>3, <2>5
  <2>6. CASE Replaced(i, g)
    BY <2>1, <2>3, <2>6 DEF Replaced
  <2> QED
    BY <2>4, <2>5, <2>6
<1>3. CASE Encode
  <2>1. /\ writer \in 1..5 /\ gen' = gen /\ files[FileAt[writer]] = Partial
        /\ \A j \in 1..5 : files'[FileAt[j]] = IF j = writer THEN Output(writer, gen)
                                                           ELSE files[FileAt[j]]
    BY <1>3, OneFileWritten, WritesInOrder DEF Encode, TypeOK, Progress
  <2>2. \A j \in 1..5 : Partial # Output(j, g)
    BY <1>0, OutputFacts
  <2>3. Output(writer, gen) = Output(writer, g) => g = gen
    BY <1>0, <2>1, OutputFacts
  <2>4. \A j \in 1..5 : Holds(j, g)' => (IF j = writer THEN g = gen ELSE Holds(j, g))
    BY <2>1, <2>3 DEF Holds
  <2>5. CASE Holds(i, g)
    <3>1. i # writer
      BY <2>1, <2>2, <2>5 DEF Holds
    <3> QED
      BY <2>1, <2>5, <3>1 DEF Holds
  <2>6. CASE Replaced(i, g)
    BY <1>0, <2>1, <2>4, <2>6 DEF Replaced
  <2> QED
    BY <2>5, <2>6
<1>4. OpenOutput \/ Encode \/ (UNCHANGED files /\ gen' \in {gen, gen + 1})
  BY DEF Next, Generate, Abort, Connect, Start, ReadCert, ReadKey, ReadCa, Stop, StrangerAppears,
         vars, mtlsVars
<1> QED
  BY <1>1, <1>2, <1>3, <1>4

LEMMA FreshStays ==
  ASSUME TypeOK, Directory, [Next]_vars, NEW f, NEW c, Fresh(f, c)
  PROVE  Fresh(f, c)'
<1>0. gen \in Nat /\ gen' \in {gen, gen + 1}
  BY DirectoryStep, Bound DEF TypeOK
<1>1. CASE c \in {Missing, Partial}
  BY <1>1 DEF Fresh
<1>2. CASE c \notin {Missing, Partial}
  <2>1. PICK i \in 1..5 : \E g \in 1..gen :
          f = FileAt[i] /\ c = Output(i, g) /\ (Holds(i, g) \/ Replaced(i, g))
    BY <1>2 DEF Fresh
  <2>2. PICK g \in 1..gen : f = FileAt[i] /\ c = Output(i, g) /\ (Holds(i, g) \/ Replaced(i, g))
    BY <2>1
  <2>3. (Holds(i, g) \/ Replaced(i, g))' /\ g \in 1..gen'
    BY <1>0, <2>2, ReplacedInOrder
  <2> QED
    BY <2>2, <2>3 DEF Fresh
<1> QED
  BY <1>1, <1>2

LEMMA JustRead ==
  ASSUME Written, NEW f \in Files
  PROVE  Fresh(f, files[f])
<1>1. PICK i \in 1..5 : f = FileAt[i]
  BY FileOrder
<1> QED
  BY <1>1 DEF Written, Fresh, Holds

LEMMA FreshKept == IInv /\ AllFresh /\ [Next]_vars => AllFresh'
<1> SUFFICES ASSUME IInv, AllFresh, [Next]_vars, NEW r \in Roles, NEW q, q = party'[r]
             PROVE  FreshReads(q)'
  BY DEF AllFresh
<1> DEFINE p == party[r]
<1>0. /\ TypeOK /\ Directory /\ Written /\ p \in Parties /\ Checked(r, p) /\ FreshReads(p)
      /\ party \in [Roles -> Parties]
  BY DEF IInv, TypeOK, Directory, AllChecked, AllFresh
<1>1. \A f, c : Fresh(f, c) => Fresh(f, c)'
  BY <1>0, FreshStays
<1>2. CASE q = p
  BY <1>0, <1>1, <1>2 DEF FreshReads
<1>3. CASE q.pc \notin {"key", "ca"}
  BY <1>3 DEF FreshReads
<1>4. CASE ReadCert(r) /\ q.pc = "key"
  <2>1. Blank("refused").pc = "refused"
    BY DEF Blank
  <2>2. p.pc = "cert" /\ q = [[p EXCEPT !.cert = files[p.flags.cert]] EXCEPT !.pc = "key"]
    BY <1>0, <1>4, <2>1 DEF ReadCert
  <2>3. q.cert = files[p.flags.cert] /\ q.flags = p.flags
    BY <1>0, <2>2 DEF Parties
  <2>4. p.flags.cert \in Files
    BY <1>0, <2>2, Fields DEF Checked
  <2>5. Fresh(q.flags.cert, q.cert)'
    BY <1>0, <1>1, <2>3, <2>4, JustRead
  <2> QED
    BY <1>4, <2>5 DEF FreshReads
<1>5. CASE ReadKey(r) /\ q.pc = "ca"
  <2>1. Blank("refused").pc = "refused"
    BY DEF Blank
  <2>2. p.pc = "key" /\ q = [[p EXCEPT !.key = files[p.flags.key]] EXCEPT !.pc = "ca"]
    BY <1>0, <1>5, <2>1 DEF ReadKey
  <2>3. q.cert = p.cert /\ q.key = files[p.flags.key] /\ q.flags = p.flags
    BY <1>0, <2>2 DEF Parties
  <2>4. p.flags.key \in Files
    BY <1>0, <2>2, Fields DEF Checked
  <2>5. Fresh(q.flags.key, q.key)' /\ Fresh(q.flags.cert, q.cert)'
    BY <1>0, <1>1, <2>2, <2>3, <2>4, JustRead DEF FreshReads
  <2> QED
    BY <2>5 DEF FreshReads
<1>6. \/ q = p \/ q.pc \notin {"key", "ca"}
      \/ ReadCert(r) /\ q.pc = "key"
      \/ ReadKey(r) /\ q.pc = "ca"
  <2>0. \A pc : Blank(pc).pc = pc
    BY DEF Blank
  <2>1. CASE UNCHANGED party
    BY <2>1
  <2>2. ASSUME NEW s \in Roles, s # r,
               Start(s) \/ ReadCert(s) \/ ReadKey(s) \/ ReadCa(s) \/ Stop(s) \/ StrangerAppears(s)
        PROVE  q = p
    BY <1>0, <2>2 DEF Start, ReadCert, ReadKey, ReadCa, Stop, StrangerAppears
  <2>3. CASE Start(r)
    <3>1. PICK f \in Flags, wss \in BOOLEAN :
            q = [Blank(FirstStep(f, wss)) EXCEPT !.flags = f, !.wss = wss]
      BY <1>0, <2>3 DEF Start
    <3>2. q.pc = FirstStep(f, wss)
      BY <3>1 DEF Blank
    <3> QED
      BY <3>2 DEF FirstStep
  <2>4. CASE ReadCert(r)
    BY <1>0, <2>0, <2>4 DEF ReadCert, Parties
  <2>5. CASE ReadKey(r)
    BY <1>0, <2>0, <2>5 DEF ReadKey, Parties
  <2>6. CASE ReadCa(r)
    BY <1>0, <2>0, <2>6 DEF ReadCa, Parties
  <2>7. CASE Stop(r) \/ StrangerAppears(r)
    BY <1>0, <2>0, <2>7 DEF Stop, StrangerAppears, Stranger, Blank
  <2>8. UNCHANGED party \/ \E s \in Roles :
          Start(s) \/ ReadCert(s) \/ ReadKey(s) \/ ReadCa(s) \/ Stop(s) \/ StrangerAppears(s)
    BY DEF Next, Generate, OpenOutput, Encode, Abort, Connect, vars
  <2> QED
    BY <2>1, <2>2, <2>3, <2>4, <2>5, <2>6, <2>7, <2>8
<1> QED
  BY <1>2, <1>3, <1>4, <1>5, <1>6

LEMMA InitFresh == Init => AllFresh
<1>1. Blank("off").pc = "off"
  BY DEF Blank
<1>2. Init => \A r \in Roles : party[r].pc = "off"
  BY <1>1 DEF Init
<1> QED
  BY <1>2 DEF AllFresh, FreshReads

(* The last read is of a CA that belongs to the two before: neither of     *)
(* them can have been replaced.                                            *)
LEMMA LastReadTells ==
  ASSUME IInv, AllFresh, NEW r \in Roles, ReadCa(r), party'[r].pc = "tls"
  PROVE  LET q == party'[r] IN
         /\ q.cert = files[q.flags.cert] /\ q.key = files[q.flags.key]
         /\ q.ca = files[q.flags.ca]
<1> DEFINE p == party[r]
           q == party'[r]
           ca == files[p.flags.ca]
<1>0. /\ p \in Parties /\ Checked(r, p) /\ FreshReads(p) /\ Written /\ gen \in Nat
      /\ party \in [Roles -> Parties]
  BY Bound DEF IInv, TypeOK, Directory, AllChecked, AllFresh
<1>1. /\ p.pc = "ca" /\ Verifies(p.cert, ca, r)
      /\ q = [[p EXCEPT !.ca = ca] EXCEPT !.pc = "tls"]
  <2>1. Blank("refused").pc = "refused"
    BY DEF Blank
  <2> QED
    BY <1>0, <2>1 DEF ReadCa, Loads
<1>2. q.cert = p.cert /\ q.key = p.key /\ q.ca = ca /\ q.flags = p.flags
  BY <1>0, <1>1 DEF Parties
<1>3. /\ p.cert.kind = "crt" /\ p.key.kind = "key" /\ ca.kind = "crt"
      /\ p.cert.role = p.key.role /\ p.cert.gen = p.key.gen
      /\ p.cert = ca \/ (ca.role = "ca" /\ ca.gen = p.cert.gen)
      /\ p.key.role \in Roles
  BY <1>0, <1>1 DEF Checked, PairMatches, Verifies, Genuine
<1>4. Missing.kind = "missing" /\ Partial.kind = "partial"
  BY DEF Missing, Partial
<1>5. \A g : /\ Output(1, g) = Ca(g)
             /\ Output(2, g) = Leaf("server", g) /\ Output(3, g) = Key("server", g)
             /\ Output(4, g) = Leaf("client", g) /\ Output(5, g) = Key("client", g)
  BY DEF Output
<1>6. \A g : /\ Ca(g).kind = "crt" /\ Ca(g).role = "ca" /\ Ca(g).gen = g
             /\ \A s : /\ Leaf(s, g).kind = "crt" /\ Leaf(s, g).role = s /\ Leaf(s, g).gen = g
                       /\ Key(s, g).kind = "key" /\ Key(s, g).role = s /\ Key(s, g).gen = g
  BY DEF Ca, Leaf, Key
<1>7. \A i \in 1..5 : i = 1 \/ i = 2 \/ i = 3 \/ i = 4 \/ i = 5
  OBVIOUS
<1> HIDE DEF p, q, ca
<1>8. PICK i \in {2, 4} : \E g \in 1..gen :
        p.flags.cert = FileAt[i] /\ p.cert = Output(i, g) /\ (Holds(i, g) \/ Replaced(i, g))
  <2>1. Fresh(p.flags.cert, p.cert) /\ p.cert \notin {Missing, Partial}
    BY <1>0, <1>1, <1>3, <1>4 DEF FreshReads
  <2>2. PICK i \in 1..5 : \E g \in 1..gen :
          p.flags.cert = FileAt[i] /\ p.cert = Output(i, g) /\ (Holds(i, g) \/ Replaced(i, g))
    BY <2>1 DEF Fresh
  <2>3. i # 1 /\ i # 3 /\ i # 5
    BY <1>3, <1>5, <1>6, <2>2 DEF Roles
  <2> QED
    BY <1>7, <2>2, <2>3
<1>9. PICK g \in 1..gen :
        p.flags.cert = FileAt[i] /\ p.cert = Output(i, g) /\ (Holds(i, g) \/ Replaced(i, g))
  BY <1>8
<1>10. PICK k \in {3, 5} : \E h \in 1..gen :
         p.flags.key = FileAt[k] /\ p.key = Output(k, h) /\ (Holds(k, h) \/ Replaced(k, h))
  <2>1. Fresh(p.flags.key, p.key) /\ p.key \notin {Missing, Partial}
    BY <1>0, <1>1, <1>3, <1>4 DEF FreshReads
  <2>2. PICK k \in 1..5 : \E h \in 1..gen :
          p.flags.key = FileAt[k] /\ p.key = Output(k, h) /\ (Holds(k, h) \/ Replaced(k, h))
    BY <2>1 DEF Fresh
  <2>3. k # 1 /\ k # 2 /\ k # 4
    BY <1>3, <1>5, <1>6, <2>2
  <2> QED
    BY <1>7, <2>2, <2>3
<1>11. PICK h \in 1..gen :
         p.flags.key = FileAt[k] /\ p.key = Output(k, h) /\ (Holds(k, h) \/ Replaced(k, h))
  BY <1>10
<1>12. h = g /\ k = i + 1
  BY <1>3, <1>5, <1>6, <1>8, <1>9, <1>10, <1>11
<1>13. Holds(i, g)
  <2>1. CASE p.cert = ca
    <3>1. PICK m \in 1..5 : p.flags.ca = FileAt[m]
      <4>1. p.flags.ca \in Files
        BY <1>0, <1>1, Fields DEF Checked
      <4> QED
        BY <4>1, FileOrder
    <3>2. PICK o \in 1..gen : ca = Output(m, o)
      BY <1>0, <1>3, <1>4, <3>1 DEF Written, Holds, ca
    <3>3. m \in {2, 4}
      BY <1>3, <1>5, <1>6, <1>7, <2>1, <3>2 DEF Roles
    <3>4. o = g
      <4>1. i \in 1..5 /\ g \in Nat /\ o \in Nat
        BY <1>0
      <4>2. Output(i, g).gen = g /\ Output(m, o).gen = o
        BY <4>1, OutputFacts
      <4> QED
        BY <1>9, <2>1, <3>2, <4>2
    <3>5. m = i
      <4>1. \A x : Output(2, x).role = "server" /\ Output(4, x).role = "client"
        BY <1>5, <1>6
      <4>2. Output(i, g) = Output(m, o)
        BY <1>9, <2>1, <3>2
      <4> QED
        BY <1>8, <3>3, <4>1, <4>2
    <3> QED
      BY <3>1, <3>2, <3>4, <3>5 DEF Holds, ca
  <2>2. CASE ca.role = "ca" /\ ca.gen = p.cert.gen
    <3>1. PICK m \in 1..5 : p.flags.ca = FileAt[m]
      <4>1. p.flags.ca \in Files
        BY <1>0, <1>1, Fields DEF Checked
      <4> QED
        BY <4>1, FileOrder
    <3>2. PICK o \in 1..gen : ca = Output(m, o)
      BY <1>0, <1>3, <1>4, <3>1 DEF Written, Holds, ca
    <3>3. m = 1 /\ o = g
      BY <1>5, <1>6, <1>7, <1>8, <1>9, <2>2, <3>2
    <3>4. Holds(1, g)
      BY <3>1, <3>2, <3>3 DEF Holds, ca
    <3>5. ~Replaced(i, g)
      BY <1>8, <3>4 DEF Replaced
    <3> QED
      BY <1>9, <3>5
  <2> QED
    BY <1>3, <2>1, <2>2
<1>14. Holds(k, g)
  <2>1. ~Replaced(k, g)
    BY <1>8, <1>12, <1>13 DEF Replaced
  <2> QED
    BY <1>11, <1>12, <2>1
<1> QED
  BY <1>2, <1>9, <1>11, <1>12, <1>13, <1>14 DEF Holds, q, ca

(* However the reads of LoadX509KeyPair and of the CA interleave with the  *)
(* mtls command, aborted or not, a side that does load has what the        *)
(* directory holds at that moment.                                         *)
THEOREM LoadsAreCurrent == Spec => LoadIsCurrent
<1> DEFINE Current ==
      \A r \in Roles :
        party[r].pc = "ca" /\ party'[r].pc = "tls" =>
          LET p == party'[r] IN
          /\ p.cert = files[p.flags.cert] /\ p.key = files[p.flags.key]
          /\ p.ca = files[p.flags.ca]
<1>1. ASSUME IInv, AllFresh, [Next]_vars PROVE [Current]_vars
  <2> SUFFICES ASSUME NEW r \in Roles, party[r].pc = "ca", party'[r].pc = "tls"
               PROVE  LET p == party'[r] IN
                      /\ p.cert = files[p.flags.cert] /\ p.key = files[p.flags.key]
                      /\ p.ca = files[p.flags.ca]
    OBVIOUS
  <2>1. ReadCa(r)
    <3>1. party'[r] # party[r] /\ party \in [Roles -> Parties]
      BY <1>1 DEF IInv, TypeOK
    <3>2. PICK s \in Roles :
            Start(s) \/ ReadCert(s) \/ ReadKey(s) \/ ReadCa(s) \/ Stop(s) \/ StrangerAppears(s)
      BY <1>1, <3>1 DEF Next, Generate, OpenOutput, Encode, Abort, Connect, vars
    <3>3. s = r
      BY <3>1, <3>2 DEF Start, ReadCert, ReadKey, ReadCa, Stop, StrangerAppears
    <3>4. Blank("off").pc = "off"
      BY DEF Blank
    <3> QED
      BY <3>1, <3>2, <3>3, <3>4 DEF Start, ReadCert, ReadKey, Stop, StrangerAppears
  <2> QED
    BY <1>1, <2>1, LastReadTells
<1>2. Spec => []AllFresh
  BY Invariance, InitFresh, FreshKept, PTL DEF Spec
<1>3. IInv /\ AllFresh /\ [Next]_vars => [Current]_vars
  BY <1>1
<1> QED
  BY Invariance, <1>2, <1>3, PTL DEF Spec, LoadIsCurrent
=============================================================================
