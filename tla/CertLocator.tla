---------------------------- MODULE CertLocator ----------------------------
(***************************************************************************)
(* certs/locator.go and cmd/librarian: the librarian stows the configured  *)
(* certificates and keys on disk, copilot names the same files in the      *)
(* gateway it publishes without ever looking at them.                      *)
(*                                                                         *)
(* A pair of the configuration is a record [Id, Hosts]: the certificate    *)
(* and the key are both known by Id, and Hosts are the DNS names of the    *)
(* certificate.  A chain that does not decode, does not parse or has no    *)
(* DNS name has Hosts = <<>>, because createPemInfo fails alike.  The      *)
(* directory of a pair is named after its first host.                      *)
(***************************************************************************)
EXTENDS GoMap, Integers, FiniteSets

CONSTANTS
    PemLists,       \* the TLSPems that may be deployed
    Roots,          \* the values of IstioCertRootPath, "" if it is not set
    MaxFailures     \* bound: writes that fail

VARIABLES
    pems,           \* TLSPems of the librarian's configuration
    root,           \* IstioCertRootPath, after Load
    disk,           \* directory -> [crt, key]
    lib,            \* the librarian: where it is, which pair it is at
    failures        \* writes that failed so far

libVars == <<pems, root, disk, lib, failures>>

istioCertRootPath == "/etc/istio"
-----------------------------------------------------------------------------
Malformed(pair) == pair.Hosts = <<>>

createPemInfo(dir, pair) == [Hosts |-> pair.Hosts, Dir |-> <<dir, pair.Hosts[1]>>]

\* Faulty variant: malformed pairs are passed over.
LocateSkipping(dir, list) ==
    LET good == SelectSeq(list, LAMBDA pair : ~Malformed(pair))
    IN  [i \in DOMAIN good |-> createPemInfo(dir, good[i])]

\* The pairs before the first malformed one.
Locate(dir, list) ==
    [i \in {n \in DOMAIN list : \A j \in 1 .. n : ~Malformed(list[j])} |-> createPemInfo(dir, list[i])]

\* snapshot/config.go: one HTTPS server for each pair that is located, after
\* the HTTP server.
CreateGatewayResources(list) ==
    LET located == Locate(istioCertRootPath, list)
    IN  <<[Hosts |-> <<"*">>, Dir |-> <<>>]>> \o [i \in DOMAIN located |-> located[i]]
-----------------------------------------------------------------------------
(***************************************************************************)
(* The librarian: Load, then Stow, one pair after the other.               *)
(***************************************************************************)
Load(path) == IF path = "" THEN "/etc/istio" ELSE path

Resting == {"off", "stowed", "malformed", "failed"}

\* A deployment, or another run with the same configuration.
Librarian(list, path) ==
    /\ lib.pc \in Resting
    /\ pems' = list /\ root' = Load(path)
    /\ lib' = [pc |-> "pair", i |-> 1]
    /\ UNCHANGED <<disk, failures>>

Dir == createPemInfo(root, pems[lib.i]).Dir

Failing ==
    /\ failures < MaxFailures /\ failures' = failures + 1
    /\ lib' = [lib EXCEPT !.pc = "failed"]
    /\ UNCHANGED <<pems, root>>

StowMalformed ==
    /\ lib.pc = "pair" /\ lib.i <= Len(pems) /\ Malformed(pems[lib.i])
    /\ lib' = [lib EXCEPT !.pc = "malformed"]
    /\ UNCHANGED <<pems, root, disk, failures>>

\* Faulty variant: the first pair clears what earlier runs have left.
MakeDirAfresh ==
    /\ lib.pc = "pair" /\ lib.i <= Len(pems) /\ ~Malformed(pems[lib.i])
    /\ lib' = [lib EXCEPT !.pc = "cert"]
    /\ disk' = LET kept == IF lib.i = 1 THEN EmptyMap ELSE disk
               IN  IF Dir \in DOMAIN kept THEN kept
                   ELSE Put(kept, Dir, [crt |-> "none", key |-> "none"])
    /\ UNCHANGED <<pems, root, failures>>

\* os.Stat, os.MkdirAll
MakeDir ==
    /\ lib.pc = "pair" /\ lib.i <= Len(pems) /\ ~Malformed(pems[lib.i])
    /\ lib' = [lib EXCEPT !.pc = "cert"]
    /\ disk' = IF Dir \in DOMAIN disk THEN disk
               ELSE Put(disk, Dir, [crt |-> "none", key |-> "none"])
    /\ UNCHANGED <<pems, root, failures>>

MakeDirFails ==
    /\ lib.pc = "pair" /\ lib.i <= Len(pems) /\ ~Malformed(pems[lib.i])
    /\ Dir \notin DOMAIN disk
    /\ Failing
    /\ UNCHANGED disk

\* Faulty variant: the keys are left for a second pass.
StowCertsFirst ==
    /\ lib.pc = "cert"
    /\ disk' = [disk EXCEPT ![Dir].crt = pems[lib.i].Id]
    /\ lib' = IF lib.i < Len(pems) THEN [pc |-> "pair", i |-> lib.i + 1] ELSE [lib EXCEPT !.pc = "key"]
    /\ UNCHANGED <<pems, root, failures>>

StowCert ==
    /\ lib.pc = "cert"
    /\ disk' = [disk EXCEPT ![Dir].crt = pems[lib.i].Id]
    /\ lib' = [lib EXCEPT !.pc = "key"]
    /\ UNCHANGED <<pems, root, failures>>

\* WriteFile truncates before it writes: an error or a crash leaves the old
\* contents or less than the new ones.
StowCertFails ==
    /\ lib.pc = "cert"
    /\ \E left \in {disk[Dir].crt, "torn crt"} : disk' = [disk EXCEPT ![Dir].crt = left]
    /\ Failing

StowKey ==
    /\ lib.pc = "key"
    /\ disk' = [disk EXCEPT ![Dir].key = pems[lib.i].Id]
    /\ lib' = [pc |-> "pair", i |-> lib.i + 1]
    /\ UNCHANGED <<pems, root, failures>>

StowKeyFails ==
    /\ lib.pc = "key"
    /\ \E left \in {disk[Dir].key, "torn key"} : disk' = [disk EXCEPT ![Dir].key = left]
    /\ Failing

StowDone ==
    /\ lib.pc = "pair" /\ lib.i > Len(pems)
    /\ lib' = [lib EXCEPT !.pc = "stowed"]
    /\ UNCHANGED <<pems, root, disk, failures>>

Stow ==
    \/ StowMalformed \/ MakeDir \/ MakeDirFails
    \/ StowCert \/ StowCertFails \/ StowKey \/ StowKeyFails \/ StowDone
-----------------------------------------------------------------------------
Init ==
    /\ pems = <<>> /\ root = istioCertRootPath /\ disk = EmptyMap
    /\ lib = [pc |-> "off", i |-> 1] /\ failures = 0

Next == (\E list \in PemLists, path \in Roots : Librarian(list, path)) \/ Stow

Spec == Init /\ [][Next]_libVars
-----------------------------------------------------------------------------
(***************************************************************************)
(* Properties.                                                             *)
(***************************************************************************)
\* The pair whose files a directory should hold: of several with the same
\* first host the last one wins.
Owner(located, i) ==
    CHOOSE j \in DOMAIN located :
        /\ located[j].Dir = located[i].Dir
        /\ \A k \in DOMAIN located : located[k].Dir = located[i].Dir => k <= j

\* Stow and Locate stop at the same pair: once a run has ended without a
\* failed write, even if it ended at a malformed pair, every file that Locate
\* names is there and holds the certificate and the key of the last pair with
\* that first host.
LocatedIsStowed ==
    lib.pc \in {"stowed", "malformed"} =>
        LET located == Locate(root, pems) IN
        \A i \in DOMAIN located :
            /\ located[i].Dir \in DOMAIN disk
            /\ LET id == pems[Owner(located, i)].Id
               IN  disk[located[i].Dir] = [crt |-> id, key |-> id]

Mismatched == {d \in DOMAIN disk : disk[d].crt # disk[d].key}

\* A certificate beside another's key is the trace of a failed write or of the
\* write in progress, one directory for each: files of other pairs stay usable
\* while one pair is replaced.
MismatchedBounded ==
    Cardinality(Mismatched) <= failures + (IF lib.pc = "key" THEN 1 ELSE 0)
=============================================================================
