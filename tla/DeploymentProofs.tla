-------------------------- MODULE DeploymentProofs -------------------------
(***************************************************************************)
(* The files of the librarian and the members of copilot, for any          *)
(* certificates, any root paths, any configuration files and any number of *)
(* failed writes.                                                          *)
(***************************************************************************)
EXTENDS Deployment, Integers, FiniteSets, FiniteSetTheorems, DataTheorems
-----------------------------------------------------------------------------
(***************************************************************************)
(* The librarian.  Its properties are about runs that have ended; the      *)
(* invariant says how far a run has come.                                  *)
(***************************************************************************)
Pairs == [Id : STRING, Hosts : Seq(STRING)]

\* The directory of the j-th pair.
DirOf(j) == <<root, pems[j].Hosts[1]>>

\* What a file may hold.
Contents == STRING \cup {"none", "torn crt", "torn key"}

FilePairs == [crt : Contents, key : Contents]

Whole(id) == [crt |-> id, key |-> id]

InPair == lib.pc \in {"cert", "key"}

LibShape ==
    /\ pems \in Seq(Pairs)
    /\ lib \in [pc : {"off", "pair", "cert", "key", "stowed", "malformed", "failed"}, i : Nat \ {0}]
    /\ failures \in Nat
    /\ IsFiniteSet(DOMAIN disk) /\ disk \in [DOMAIN disk -> FilePairs]

\* The pairs that have been stowed, and the one that is being stowed.
Reached == IF InPair THEN lib.i ELSE lib.i - 1

\* No later pair of the run has had the same first host so far.
LastWithDir(j) == \A k \in 1 .. Reached : DirOf(k) = DirOf(j) => k <= j

Progress ==
    /\ lib.pc \notin {"off", "failed"} =>
          /\ lib.i - 1 <= Len(pems)
          /\ \A j \in 1 .. lib.i - 1 :
                /\ ~Librarian!Malformed(pems[j])
                /\ DirOf(j) \in DOMAIN disk
                /\ LastWithDir(j) => disk[DirOf(j)] = Whole(pems[j].Id)
    /\ InPair => /\ lib.i <= Len(pems) /\ ~Librarian!Malformed(pems[lib.i])
                 /\ DirOf(lib.i) \in DOMAIN disk
    /\ lib.pc = "key" => disk[DirOf(lib.i)].crt = pems[lib.i].Id
    /\ lib.pc = "malformed" => lib.i <= Len(pems) /\ Librarian!Malformed(pems[lib.i])
    /\ lib.pc = "stowed" => lib.i > Len(pems)

\* The directory whose certificate has been written and whose key has not.
HalfWritten == IF lib.pc = "key" THEN {DirOf(lib.i)} ELSE {}

\* The write in progress aside, each mismatch has a failed write of its own.
Excused == Cardinality(Librarian!Mismatched \ HalfWritten) <= failures

LibInv == LibShape /\ Progress /\ Excused

\* The librarian counts as everyone does.
LEMMA SameCardinality == ASSUME NEW S PROVE Librarian!Cardinality(S) = Cardinality(S)
BY DEF Cardinality, Librarian!Cardinality

\* A mismatched directory is one of finitely many.
LEMMA MismatchedFinite == LibShape => IsFiniteSet(Librarian!Mismatched)
<1> SUFFICES ASSUME LibShape PROVE IsFiniteSet(Librarian!Mismatched)
  OBVIOUS
<1>1. Librarian!Mismatched \subseteq DOMAIN disk
  BY DEF Librarian!Mismatched
<1> QED
  BY <1>1, FS_Subset DEF LibShape

\* The same directory, as the code computes it.
LEMMA DirIsDirOf == Librarian!Dir = DirOf(lib.i)
BY DEF Librarian!Dir, Librarian!createPemInfo, DirOf

\* No directory but one changes between matched and mismatched, so the count
\* outside that one does not grow.
LEMMA OneDirectory ==
    ASSUME LibShape, Excused, NEW d,
           Librarian!Mismatched' \ HalfWritten' \subseteq (Librarian!Mismatched \ HalfWritten) \cup {d},
           failures' = failures + 1
    PROVE  Excused'
<1> DEFINE Old == Librarian!Mismatched \ HalfWritten
           New == Librarian!Mismatched' \ HalfWritten'
<1>1. IsFiniteSet(Old)
  BY MismatchedFinite, FS_Subset
<1>2. failures \in Nat /\ Cardinality(Old) <= failures
  BY DEF LibShape, Excused
<1>3. New \subseteq Old \cup {d}
  OBVIOUS
<1> HIDE DEF Old, New
<1>4. /\ IsFiniteSet(Old \cup {d}) /\ Cardinality(Old) \in Nat
      /\ Cardinality(Old \cup {d}) \in Nat
      /\ Cardinality(Old \cup {d}) <= Cardinality(Old) + 1
  BY <1>1, FS_AddElement, FS_CardinalityType
<1>5. Cardinality(New) \in Nat /\ Cardinality(New) <= Cardinality(Old \cup {d})
  BY <1>3, <1>4, FS_Subset, FS_CardinalityType
<1>6. Cardinality(New) <= failures'
  BY <1>2, <1>4, <1>5
<1> QED
  BY <1>6 DEF Excused, New

\* A step that mismatches no further directory needs no further excuse.
LEMMA NoDirectory ==
    ASSUME LibShape, Excused,
           Librarian!Mismatched' \ HalfWritten' \subseteq Librarian!Mismatched \ HalfWritten,
           failures' = failures
    PROVE  Excused'
<1> DEFINE Old == Librarian!Mismatched \ HalfWritten
           New == Librarian!Mismatched' \ HalfWritten'
<1>1. IsFiniteSet(Old)
  BY MismatchedFinite, FS_Subset
<1>2. failures \in Nat /\ Cardinality(Old) <= failures
  BY DEF LibShape, Excused
<1>3. New \subseteq Old
  OBVIOUS
<1> HIDE DEF Old, New
<1>4. Cardinality(New) \in Nat /\ Cardinality(Old) \in Nat /\ Cardinality(New) <= Cardinality(Old)
  BY <1>1, <1>3, FS_Subset, FS_CardinalityType
<1>5. Cardinality(New) <= failures'
  BY <1>2, <1>4
<1> QED
  BY <1>5 DEF Excused, New

\* A run starts with nothing stowed; what earlier runs have left stays.
LEMMA LibrarianInv ==
    ASSUME NEW list \in PemLists, NEW path
    PROVE  LibInv /\ Librarian!Librarian(list, path) => LibInv'
<1> SUFFICES ASSUME LibInv, Librarian!Librarian(list, path) PROVE LibInv'
  OBVIOUS
<1> USE DEF LibInv
<1>1. /\ pems' = list /\ lib' = [pc |-> "pair", i |-> 1] /\ lib.pc # "key"
      /\ disk' = disk /\ failures' = failures
      /\ lib'.pc = "pair" /\ lib'.i = 1
  BY DEF Librarian!Librarian, Librarian!Resting
<1>2. list \in Seq(Pairs)
  BY PemsAssumption DEF Pairs
<1>3. LibShape'
  BY <1>1, <1>2 DEF LibShape
<1>4. Progress'
  BY <1>1, <1>2 DEF Progress, InPair
<1>5. Excused'
  BY <1>1, NoDirectory DEF Librarian!Mismatched, HalfWritten
<1> QED
  BY <1>3, <1>4, <1>5

\* The run ends, or is about to go on with the next pair, and no file changes.
LEMMA RestInv ==
    ASSUME LibInv, lib.pc = "pair", UNCHANGED <<pems, root, disk, failures>>,
           \/ /\ lib.i <= Len(pems) /\ Librarian!Malformed(pems[lib.i])
              /\ lib' = [lib EXCEPT !.pc = "malformed"]
           \/ lib.i > Len(pems) /\ lib' = [lib EXCEPT !.pc = "stowed"]
    PROVE  LibInv'
<1> USE DEF LibInv
<1>1. lib'.i = lib.i /\ lib'.pc \in {"malformed", "stowed"} /\ lib.i \in Nat \ {0}
  BY DEF LibShape
<1>2. LibShape'
  BY DEF LibShape
<1>3. \A j : DirOf(j)' = DirOf(j) /\ LastWithDir(j)' = LastWithDir(j)
  BY <1>1 DEF DirOf, LastWithDir, Reached, InPair
<1>4. Progress'
  BY <1>1, <1>3 DEF Progress, InPair, LibShape
<1>5. Excused'
  BY <1>1, NoDirectory DEF Librarian!Mismatched, HalfWritten
<1> QED
  BY <1>2, <1>4, <1>5

\* A directory that is made holds no certificate without its key.
LEMMA MakeDirInv == LibInv /\ Librarian!MakeDir => LibInv'
<1> SUFFICES ASSUME LibInv, Librarian!MakeDir PROVE LibInv'
  OBVIOUS
<1> USE DEF LibInv
<1> DEFINE d == DirOf(lib.i)
<1>1. /\ lib.pc = "pair" /\ lib.i <= Len(pems) /\ ~Librarian!Malformed(pems[lib.i])
      /\ lib' = [lib EXCEPT !.pc = "cert"]
      /\ UNCHANGED <<pems, root, failures>>
  BY DEF Librarian!MakeDir
<1>2. disk' = IF d \in DOMAIN disk THEN disk
              ELSE [x \in DOMAIN disk \cup {d} |-> IF x = d THEN [crt |-> "none", key |-> "none"] ELSE disk[x]]
  BY DirIsDirOf DEF Librarian!MakeDir, Librarian!Put
<1>3. lib'.i = lib.i /\ lib'.pc = "cert" /\ lib.i \in Nat \ {0}
  BY <1>1 DEF LibShape
<1>4. /\ DOMAIN disk' = DOMAIN disk \cup {d}
      /\ \A x \in DOMAIN disk : disk'[x] = disk[x]
      /\ d \notin DOMAIN disk => disk'[d] = [crt |-> "none", key |-> "none"]
  BY <1>2
<1>5. LibShape'
  <2>1. IsFiniteSet(DOMAIN disk')
    BY <1>4, FS_AddElement DEF LibShape
  <2>2. disk' \in [DOMAIN disk' -> FilePairs]
    <3>1. [crt |-> "none", key |-> "none"] \in FilePairs
      BY DEF FilePairs, Contents
    <3>2. \A x \in DOMAIN disk' : disk'[x] \in FilePairs
      BY <1>4, <3>1 DEF LibShape
    <3>3. disk' = [x \in DOMAIN disk' |-> disk'[x]]
      BY <1>2 DEF LibShape
    <3> QED
      BY <3>2, <3>3
  <2> QED
    BY <1>1, <2>1, <2>2 DEF LibShape
<1> HIDE DEF d
<1>6. \A j : DirOf(j)' = DirOf(j)
  BY <1>1 DEF DirOf
<1>7. ASSUME NEW j \in 1 .. lib.i - 1, LastWithDir(j)' PROVE LastWithDir(j)
  <2>1. \A k \in 1 .. lib.i : DirOf(k) = DirOf(j) => k <= j
    BY <1>3, <1>6, <1>7 DEF LastWithDir, Reached, InPair
  <2> QED
    BY <1>1, <1>3, <2>1 DEF LastWithDir, Reached, InPair
<1>8. Progress'
  <2>1. ASSUME NEW j \in 1 .. lib.i - 1
        PROVE  /\ ~Librarian!Malformed(pems[j]) /\ DirOf(j) \in DOMAIN disk'
               /\ LastWithDir(j)' => disk'[DirOf(j)] = Whole(pems[j].Id)
    BY <1>1, <1>4, <1>7 DEF Progress
  <2>2. d \in DOMAIN disk' /\ d = DirOf(lib.i)
    BY <1>4 DEF d
  <2> QED
    BY <1>1, <1>3, <1>6, <2>1, <2>2 DEF Progress, InPair, LibShape
<1>9. Excused'
  <2>1. Librarian!Mismatched' \subseteq Librarian!Mismatched
    BY <1>4 DEF Librarian!Mismatched
  <2> QED
    BY <1>1, <1>3, <2>1, NoDirectory DEF HalfWritten
<1> QED
  BY <1>5, <1>8, <1>9

\* A certificate is written beside the key of an earlier pair: from here to
\* the key the directory is half written, and no earlier pair of the run
\* with the same first host is the last one any more.
LEMMA StowCertInv == LibInv /\ Librarian!StowCert => LibInv'
<1> SUFFICES ASSUME LibInv, Librarian!StowCert PROVE LibInv'
  OBVIOUS
<1> USE DEF LibInv
<1> DEFINE d == DirOf(lib.i)
<1>1. /\ lib.pc = "cert" /\ lib' = [lib EXCEPT !.pc = "key"]
      /\ UNCHANGED <<pems, root, failures>>
      /\ disk' = [disk EXCEPT ![d].crt = pems[lib.i].Id]
  BY DirIsDirOf DEF Librarian!StowCert
<1>2. /\ lib'.i = lib.i /\ lib'.pc = "key" /\ lib.i \in 1 .. Len(pems)
      /\ d \in DOMAIN disk /\ disk[d] \in FilePairs
      /\ pems[lib.i].Id \in Contents
  <2>1. lib'.i = lib.i /\ lib'.pc = "key" /\ lib.i \in 1 .. Len(pems)
    BY <1>1 DEF LibShape, Progress, InPair
  <2>2. d \in DOMAIN disk /\ disk[d] \in FilePairs
    BY <1>1 DEF LibShape, Progress, InPair
  <2>3. pems[lib.i] \in Pairs
    BY <2>1 DEF LibShape
  <2> QED
    BY <2>1, <2>2, <2>3 DEF Pairs, Contents
<1> HIDE DEF d
<1>3. /\ DOMAIN disk' = DOMAIN disk
      /\ \A x \in DOMAIN disk \ {d} : disk'[x] = disk[x]
      /\ disk'[d] = [crt |-> pems[lib.i].Id, key |-> disk[d].key]
  BY <1>1, <1>2 DEF LibShape, FilePairs
<1>4. LibShape'
  <2>1. disk' \in [DOMAIN disk' -> FilePairs]
    BY <1>1, <1>2 DEF LibShape, FilePairs
  <2> QED
    BY <1>1, <1>3, <2>1 DEF LibShape
<1>5. \A j : DirOf(j)' = DirOf(j) /\ LastWithDir(j)' = LastWithDir(j)
  BY <1>1, <1>2 DEF DirOf, LastWithDir, Reached, InPair
<1>6. Progress'
  <2>1. ASSUME NEW j \in 1 .. lib.i - 1
        PROVE  /\ ~Librarian!Malformed(pems[j]) /\ DirOf(j) \in DOMAIN disk'
               /\ LastWithDir(j) => disk'[DirOf(j)] = Whole(pems[j].Id)
    <3>1. LastWithDir(j) => DirOf(j) # d
      BY <1>1, <1>2 DEF LastWithDir, Reached, InPair, d
    <3> QED
      BY <1>1, <1>3, <3>1 DEF Progress
  <2>2. disk'[d].crt = pems[lib.i].Id /\ d = DirOf(lib.i)
    BY <1>3 DEF d
  <2> QED
    BY <1>1, <1>2, <1>3, <1>5, <2>1, <2>2 DEF Progress, InPair
<1>7. Excused'
  <2>1. HalfWritten' = {d} /\ HalfWritten = {}
    BY <1>1, <1>2, <1>5 DEF HalfWritten, d
  <2>2. Librarian!Mismatched' \ {d} \subseteq Librarian!Mismatched
    BY <1>3 DEF Librarian!Mismatched
  <2> QED
    BY <1>1, <2>1, <2>2, NoDirectory
<1> QED
  BY <1>4, <1>6, <1>7

\* The key completes the pair, which is now the last one with its first host.
LEMMA StowKeyInv == LibInv /\ Librarian!StowKey => LibInv'
<1> SUFFICES ASSUME LibInv, Librarian!StowKey PROVE LibInv'
  OBVIOUS
<1> USE DEF LibInv
<1> DEFINE d == DirOf(lib.i)
           id == pems[lib.i].Id
<1>1. /\ lib.pc = "key" /\ lib' = [pc |-> "pair", i |-> lib.i + 1]
      /\ UNCHANGED <<pems, root, failures>>
      /\ disk' = [disk EXCEPT ![d].key = id]
  BY DirIsDirOf DEF Librarian!StowKey
<1>2. /\ lib'.i = lib.i + 1 /\ lib'.pc = "pair" /\ lib.i \in 1 .. Len(pems)
      /\ d \in DOMAIN disk /\ disk[d] \in FilePairs
      /\ disk[d].crt = id /\ id \in Contents
      /\ ~Librarian!Malformed(pems[lib.i])
  <2>1. lib'.i = lib.i + 1 /\ lib'.pc = "pair" /\ lib.i \in 1 .. Len(pems) /\ disk[d].crt = id
    BY <1>1 DEF LibShape, Progress, InPair
  <2>2. d \in DOMAIN disk /\ disk[d] \in FilePairs /\ ~Librarian!Malformed(pems[lib.i])
    BY <1>1 DEF LibShape, Progress, InPair
  <2>3. pems[lib.i] \in Pairs
    BY <2>1 DEF LibShape
  <2> QED
    BY <2>1, <2>2, <2>3 DEF Pairs, Contents
<1>3. d = DirOf(lib.i) /\ id = pems[lib.i].Id
  OBVIOUS
<1> HIDE DEF d, id
<1>4. /\ DOMAIN disk' = DOMAIN disk
      /\ \A x \in DOMAIN disk \ {d} : disk'[x] = disk[x]
      /\ disk'[d] = Whole(id)
  BY <1>1, <1>2 DEF LibShape, Whole, FilePairs
<1>5. LibShape'
  <2>1. disk' \in [DOMAIN disk' -> FilePairs]
    BY <1>1, <1>2 DEF LibShape, FilePairs
  <2>2. lib'.i \in Nat \ {0}
    BY <1>2
  <2> QED
    BY <1>1, <1>4, <2>1, <2>2 DEF LibShape
<1>6. \A j : DirOf(j)' = DirOf(j) /\ LastWithDir(j)' = LastWithDir(j)
  BY <1>1, <1>2 DEF DirOf, LastWithDir, Reached, InPair
<1>7. Progress'
  <2>1. ASSUME NEW j \in 1 .. lib.i
        PROVE  /\ ~Librarian!Malformed(pems[j]) /\ DirOf(j) \in DOMAIN disk'
               /\ LastWithDir(j) => disk'[DirOf(j)] = Whole(pems[j].Id)
    <3>1. CASE j = lib.i
      BY <1>2, <1>3, <1>4, <3>1
    <3>2. CASE j \in 1 .. lib.i - 1
      <4>1. LastWithDir(j) => DirOf(j) # d
        BY <1>1, <1>2, <1>3, <3>2 DEF LastWithDir, Reached, InPair
      <4> QED
        BY <1>1, <1>4, <3>2, <4>1 DEF Progress
    <3> QED
      BY <1>2, <3>1, <3>2
  <2>2. 1 .. lib'.i - 1 = 1 .. lib.i /\ lib'.i - 1 <= Len(pems)
    BY <1>2
  <2> QED
    BY <1>1, <1>2, <1>6, <2>1, <2>2 DEF Progress, InPair
<1>8. Excused'
  <2>1. HalfWritten' = {} /\ HalfWritten = {d}
    BY <1>1, <1>2, <1>3 DEF HalfWritten
  <2>2. Librarian!Mismatched' \subseteq Librarian!Mismatched \ {d}
    BY <1>4 DEF Librarian!Mismatched, Whole
  <2> QED
    BY <1>1, <2>1, <2>2, NoDirectory
<1> QED
  BY <1>5, <1>7, <1>8

\* A failed write disturbs the directory of its pair and no other.
LEMMA FailingInv ==
    ASSUME LibInv, lib.pc \in {"pair", "cert", "key"}, Librarian!Failing,
           \/ disk' = disk
           \/ InPair /\ \E left \in Contents : disk' = [disk EXCEPT ![Librarian!Dir].crt = left]
           \/ InPair /\ \E left \in Contents : disk' = [disk EXCEPT ![Librarian!Dir].key = left]
    PROVE  LibInv'
<1> USE DEF LibInv
<1> DEFINE d == DirOf(lib.i)
<1>1. /\ lib' = [lib EXCEPT !.pc = "failed"] /\ failures' = failures + 1
      /\ UNCHANGED <<pems, root>> /\ failures \in Nat
  BY DEF Librarian!Failing, LibShape
<1>2. lib'.pc = "failed"
  BY <1>1 DEF LibShape
<1>3. \/ disk' = disk
      \/ d \in DOMAIN disk /\ \E left \in Contents : disk' = [disk EXCEPT ![d].crt = left]
      \/ d \in DOMAIN disk /\ \E left \in Contents : disk' = [disk EXCEPT ![d].key = left]
  BY DirIsDirOf DEF Progress
<1> HIDE DEF d
<1>4. /\ DOMAIN disk' = DOMAIN disk
      /\ \A x \in DOMAIN disk \ {d} : disk'[x] = disk[x]
      /\ disk' \in [DOMAIN disk' -> FilePairs]
  BY <1>3 DEF LibShape, FilePairs
<1>5. LibShape'
  BY <1>1, <1>4 DEF LibShape
<1>6. Progress'
  BY <1>2 DEF Progress, InPair
<1>7. Excused'
  <2>1. HalfWritten' = {} /\ HalfWritten \subseteq {d}
    BY <1>2 DEF HalfWritten, d
  <2>2. Librarian!Mismatched' \subseteq Librarian!Mismatched \cup {d}
    BY <1>4 DEF Librarian!Mismatched
  <2> QED
    BY <1>1, <2>1, <2>2, OneDirectory
<1> QED
  BY <1>5, <1>6, <1>7

\* Every step of the librarian preserves its invariant.
LEMMA LibNextInv == LibInv /\ [Librarian!Next]_libVars => LibInv'
<1> SUFFICES ASSUME LibInv, [Librarian!Next]_libVars PROVE LibInv'
  OBVIOUS
<1>1. CASE \E list \in PemLists, path \in Roots : Librarian!Librarian(list, path)
  BY <1>1, LibrarianInv
<1>2. CASE Librarian!StowMalformed \/ Librarian!StowDone
  BY <1>2, RestInv DEF Librarian!StowMalformed, Librarian!StowDone
<1>3. CASE Librarian!MakeDir
  BY <1>3, MakeDirInv
<1>4. CASE Librarian!StowCert
  BY <1>4, StowCertInv
<1>5. CASE Librarian!StowKey
  BY <1>5, StowKeyInv
<1>6. CASE Librarian!MakeDirFails
  BY <1>6, FailingInv DEF Librarian!MakeDirFails
<1>7. CASE Librarian!StowCertFails
  <2>1. disk[Librarian!Dir].crt \in Contents /\ InPair
    BY <1>7, DirIsDirOf DEF Librarian!StowCertFails, LibInv, LibShape, Progress, InPair, FilePairs
  <2>2. \E left \in Contents : disk' = [disk EXCEPT ![Librarian!Dir].crt = left]
    BY <1>7, <2>1 DEF Librarian!StowCertFails, FilePairs, Contents
  <2>3. lib.pc \in {"pair", "cert", "key"} /\ Librarian!Failing
    BY <1>7 DEF Librarian!StowCertFails
  <2> QED
    BY <2>1, <2>2, <2>3, FailingInv
<1>8. CASE Librarian!StowKeyFails
  <2>1. disk[Librarian!Dir].key \in Contents /\ InPair
    BY <1>8, DirIsDirOf DEF Librarian!StowKeyFails, LibInv, LibShape, Progress, InPair, FilePairs
  <2>2. \E left \in Contents : disk' = [disk EXCEPT ![Librarian!Dir].key = left]
    BY <1>8, <2>1 DEF Librarian!StowKeyFails, FilePairs, Contents
  <2>3. lib.pc \in {"pair", "cert", "key"} /\ Librarian!Failing
    BY <1>8 DEF Librarian!StowKeyFails
  <2> QED
    BY <2>1, <2>2, <2>3, FailingInv
<1>9. CASE UNCHANGED libVars
  BY <1>9 DEF libVars, LibInv, LibShape, Progress, Excused, InPair, DirOf, LastWithDir, Reached, HalfWritten,
              Librarian!Mismatched
<1> QED
  BY <1>1, <1>2, <1>3, <1>4, <1>5, <1>6, <1>7, <1>8, <1>9 DEF Librarian!Next, Librarian!Stow

\* The pairs that Locate returns are those before the first malformed one.
LEMMA LocatedPrefix ==
    ASSUME NEW list \in Seq(Pairs), NEW dir
    PROVE  \E n \in 0 .. Len(list) :
              /\ DOMAIN Librarian!Locate(dir, list) = 1 .. n
              /\ \A i \in 1 .. n : ~Librarian!Malformed(list[i])
              /\ n < Len(list) => Librarian!Malformed(list[n + 1])
              /\ \A i \in 1 .. n : Librarian!Locate(dir, list)[i].Dir = <<dir, list[i].Hosts[1]>>
<1> DEFINE Good == {n \in 1 .. Len(list) : \A j \in 1 .. n : ~Librarian!Malformed(list[j])}
<1>1. /\ DOMAIN Librarian!Locate(dir, list) = Good
      /\ \A i \in Good : Librarian!Locate(dir, list)[i].Dir = <<dir, list[i].Hosts[1]>>
  BY DEF Librarian!Locate, Librarian!createPemInfo
<1>2. Len(list) \in Nat
  OBVIOUS
<1>3. CASE Good = {}
  <2>1. 0 < Len(list) => Librarian!Malformed(list[0 + 1])
    <3> SUFFICES ASSUME 0 < Len(list), ~Librarian!Malformed(list[1]) PROVE FALSE
      OBVIOUS
    <3>1. 1 \in 1 .. Len(list) /\ \A j \in 1 .. 1 : j = 1
      BY <1>2
    <3>2. \A j \in 1 .. 1 : ~Librarian!Malformed(list[j])
      BY <3>1
    <3>3. 1 \in Good
      BY <3>1, <3>2
    <3> QED
      BY <1>3, <3>3
  <2>2. Good = 1 .. 0
    BY <1>3
  <2> QED
    BY <1>1, <1>2, <2>1, <2>2
<1>4. CASE Good # {}
  <2>1. PICK n \in Good : \A j \in Good : j <= n
    BY <1>2, <1>4, LastPosition
  <2>2. Good = 1 .. n
    BY <1>2, <2>1
  <2>3. n < Len(list) => Librarian!Malformed(list[n + 1])
    <3> SUFFICES ASSUME n < Len(list), ~Librarian!Malformed(list[n + 1]) PROVE FALSE
      OBVIOUS
    <3>1. \A j \in 1 .. n + 1 : ~Librarian!Malformed(list[j])
      BY <1>2, <2>1
    <3>2. n + 1 \in Good
      BY <1>2, <2>1, <3>1
    <3> QED
      BY <1>2, <2>1, <3>2
  <2> QED
    BY <1>1, <1>2, <2>1, <2>2, <2>3
<1> QED
  BY <1>3, <1>4

\* Stow and Locate have stopped at the same pair.
LEMMA LocatedAreReached ==
    ASSUME LibInv, lib.pc \in {"stowed", "malformed"}
    PROVE  /\ DOMAIN Librarian!Locate(root, pems) = 1 .. lib.i - 1
           /\ \A i \in 1 .. lib.i - 1 : Librarian!Locate(root, pems)[i].Dir = DirOf(i)
<1>1. pems \in Seq(Pairs) /\ lib.i \in Nat \ {0} /\ lib.i - 1 <= Len(pems) /\ Len(pems) \in Nat
  BY DEF LibInv, LibShape, Progress
<1>2. \A j \in 1 .. lib.i - 1 : ~Librarian!Malformed(pems[j])
  BY DEF LibInv, Progress
<1>3. lib.i <= Len(pems) => Librarian!Malformed(pems[lib.i])
  BY <1>1 DEF LibInv, Progress
<1>4. PICK n \in 0 .. Len(pems) :
         /\ DOMAIN Librarian!Locate(root, pems) = 1 .. n
         /\ \A i \in 1 .. n : ~Librarian!Malformed(pems[i])
         /\ n < Len(pems) => Librarian!Malformed(pems[n + 1])
         /\ \A i \in 1 .. n : Librarian!Locate(root, pems)[i].Dir = <<root, pems[i].Hosts[1]>>
  BY <1>1, LocatedPrefix
<1>5. ~(n < lib.i - 1)
  BY <1>1, <1>2, <1>4
<1>6. ~(n > lib.i - 1)
  BY <1>1, <1>3, <1>4
<1>7. n = lib.i - 1
  BY <1>1, <1>4, <1>5, <1>6
<1> QED
  BY <1>4, <1>7 DEF DirOf

\* The invariant of the librarian implies what the runs check of it.
LEMMA LibInvLocated == LibInv => LocatedIsStowed
<1> SUFFICES ASSUME LibInv, lib.pc \in {"stowed", "malformed"},
                    NEW i \in DOMAIN Librarian!Locate(root, pems)
             PROVE  LET located == Librarian!Locate(root, pems)
                        id == pems[Librarian!Owner(located, i)].Id
                    IN  /\ located[i].Dir \in DOMAIN disk
                        /\ disk[located[i].Dir] = [crt |-> id, key |-> id]
  BY DEF LocatedIsStowed, Librarian!LocatedIsStowed
<1> DEFINE located == Librarian!Locate(root, pems)
           n == lib.i - 1
           Same == {j \in 1 .. n : DirOf(j) = DirOf(i)}
           o == Librarian!Owner(located, i)
<1>1. DOMAIN located = 1 .. n /\ \A j \in 1 .. n : located[j].Dir = DirOf(j)
  BY LocatedAreReached
<1>2. n \in Nat /\ Same \in SUBSET (1 .. n) /\ i \in Same
  BY <1>1 DEF LibInv, LibShape
<1> HIDE DEF n
<1>3. PICK last \in Same : \A j \in Same : j <= last
  BY <1>2, LastPosition
<1>4. /\ last \in DOMAIN located /\ located[last].Dir = located[i].Dir
      /\ \A k \in DOMAIN located : located[k].Dir = located[i].Dir => k <= last
  BY <1>1, <1>2, <1>3
<1>5. /\ o \in DOMAIN located /\ located[o].Dir = located[i].Dir
      /\ \A k \in DOMAIN located : located[k].Dir = located[i].Dir => k <= o
  <2> HIDE DEF located
  <2> QED
    BY <1>4 DEF Librarian!Owner
<1> HIDE DEF o, located
<1>6. o \in 1 .. lib.i - 1 /\ DirOf(o) = DirOf(i) /\ LastWithDir(o)
  BY <1>1, <1>2, <1>5 DEF LastWithDir, Reached, InPair, n
<1>7. DirOf(o) \in DOMAIN disk /\ disk[DirOf(o)] = Whole(pems[o].Id)
  BY <1>6 DEF LibInv, Progress
<1>8. located[i].Dir = DirOf(o)
  BY <1>1, <1>2, <1>6
<1> QED
  BY <1>7, <1>8 DEF Whole, o, located

\* One directory may be half written, the others are excused by a failure.
LEMMA LibInvMismatched == LibInv => MismatchedBounded
<1> SUFFICES ASSUME LibInv PROVE MismatchedBounded
  OBVIOUS
<1> DEFINE All == Librarian!Mismatched
           Old == Librarian!Mismatched \ HalfWritten
           d == DirOf(lib.i)
<1>1. IsFiniteSet(All) /\ IsFiniteSet(Old) /\ failures \in Nat /\ Cardinality(Old) <= failures
  BY MismatchedFinite, FS_Subset DEF LibInv, LibShape, Excused
<1>2. CASE lib.pc = "key"
  <2>1. All \subseteq Old \cup {d}
    BY <1>2 DEF HalfWritten
  <2> HIDE DEF All, Old, d
  <2>2. /\ IsFiniteSet(Old \cup {d}) /\ Cardinality(Old) \in Nat
        /\ Cardinality(Old \cup {d}) \in Nat
        /\ Cardinality(Old \cup {d}) <= Cardinality(Old) + 1
    <3>1. IsFiniteSet(Old)
      BY <1>1
    <3> QED
      BY <3>1, FS_AddElement, FS_CardinalityType
  <2>3. Cardinality(All) \in Nat /\ Cardinality(All) <= Cardinality(Old \cup {d})
    BY <1>1, <2>1, <2>2, FS_Subset, FS_CardinalityType
  <2>4. Cardinality(All) <= failures + 1
    BY <1>1, <2>2, <2>3
  <2> QED
    BY <1>2, <2>4, SameCardinality DEF All, MismatchedBounded, Librarian!MismatchedBounded
<1>3. CASE lib.pc # "key"
  <2>1. All = Old
    BY <1>3 DEF HalfWritten
  <2>2. Cardinality(All) <= failures + 0
    BY <1>1, <2>1
  <2> QED
    BY <1>3, <2>2, SameCardinality DEF MismatchedBounded, Librarian!MismatchedBounded
<1> QED
  BY <1>2, <1>3
-----------------------------------------------------------------------------
(***************************************************************************)
(* The members of copilot.                                                 *)
(***************************************************************************)
Members == 1 .. 5
Running == {"launched", "ready"}

ServerShape ==
    /\ main \in {"exited", "tls", "bbs", "build", "start", "wait", "serve", "stop"}
    /\ member \in [Members -> {"off", "launched", "ready", "stopped", "failed"}]
    /\ told \subseteq Members

\* Members are launched in order.
LaunchedInOrder == \A i, j \in Members : i < j /\ member[j] # "off" => member[i] # "off"

\* Members are told to stop in reverse order, and stop because they are told.
InReverse ==
    /\ \A i \in told, j \in Members : i < j => member[j] \notin Running
    /\ \A i \in Members : member[i] = "stopped" => i \in told
    /\ told # {} => main = "stop"

\* What each state of mainWithError and of the group stands for.
Stages ==
    /\ main \in {"exited", "tls", "bbs", "build"} => member = [m \in Members |-> "off"]
    /\ main = "start" => /\ \E m \in Members : member[m] = "off"
                         /\ \A m \in Members : member[m] # "launched"
    /\ main = "wait" => \E m \in Members : member[m] # "off"
    /\ main = "stop" => signal = TRUE \/ \E m \in Members : member[m] = "failed"
    /\ main # "exited" => code = -1

Order == \A i, j \in Members : i < j /\ member[j] \in Running => member[i] \in {"ready", "failed"}

ServerInv == ServerShape /\ LaunchedInOrder /\ InReverse /\ Stages /\ Order

\* The definitions of the parts, with the members as numbers.
LEMMA SameMembers ==
    /\ Server!Members = Members /\ Server!Off = [m \in Members |-> "off"]
    /\ Server!Launched = {m \in Members : member[m] # "off"}
    /\ LaterNeedEarlier <=> Order
BY DEF Server!Members, Members, Server!Off, Server!Launched, LaterNeedEarlier, Server!LaterNeedEarlier, Order, Running

\* Some members have a last one among them.
LEMMA LastMember ==
    ASSUME NEW T \in SUBSET Members, T # {}
    PROVE  Server!Max(T) \in T /\ \A m \in T : m <= Server!Max(T)
<1>1. PICK i \in T : \A j \in T : j <= i
  BY LastPosition DEF Members
<1>2. \A j \in T : i >= j
  BY <1>1 DEF Members
<1>3. Server!Max(T) \in T /\ \A y \in T : Server!Max(T) >= y
  BY <1>2 DEF Server!Max
<1> QED
  BY <1>3 DEF Members

\* Some members have a first one among them.
LEMMA FirstMember ==
    ASSUME NEW T \in SUBSET Members, T # {}
    PROVE  Server!Min(T) \in T /\ \A m \in T : Server!Min(T) <= m
<1>1. PICK i \in T : \A j \in T : i <= j
  <2> DEFINE U == {6 - m : m \in T}
  <2>1. U \in SUBSET (1 .. 5) /\ U # {}
    <3>1. PICK m \in T : TRUE
      OBVIOUS
    <3>2. 6 - m \in U
      OBVIOUS
    <3>3. \A n \in T : 6 - n \in 1 .. 5
      BY DEF Members
    <3> QED
      BY <3>2, <3>3
  <2> HIDE DEF U
  <2>2. PICK u \in U : \A w \in U : w <= u
    BY <2>1, LastPosition
  <2>3. PICK i \in T : u = 6 - i
    BY DEF U
  <2>4. \A j \in T : 6 - j <= 6 - i
    BY <2>2, <2>3 DEF U
  <2>5. \A j \in T : i <= j
    BY <2>3, <2>4 DEF Members
  <2> QED
    BY <2>5
<1>2. \A j \in T : i =< j
  BY <1>1
<1> QED
  BY <1>2 DEF Server!Min

\* A process that has ended has no members.
LEMMA ExitInv == ASSUME NEW c, Server!Exit(c) PROVE ServerInv'
BY SameMembers DEF Server!Exit, ServerInv, ServerShape, LaunchedInOrder, InReverse, Stages, Order, Running, Members

\* Only mainWithError moves on, before the group is entered.
LEMMA BootingInv ==
    ASSUME ServerInv, UNCHANGED <<member, told, signal, streams>>,
           main \in {"exited", "tls", "bbs", "build"}, main' \in {"tls", "bbs", "build", "start"}, code' = -1
    PROVE  ServerInv'
<1>1. member = [m \in Members |-> "off"] /\ told = {}
  BY DEF ServerInv, Stages, InReverse
<1>2. ServerShape' /\ LaunchedInOrder' /\ InReverse' /\ Order'
  BY DEF ServerInv, ServerShape, LaunchedInOrder, InReverse, Order
<1>3. Stages'
  <2>1. 1 \in Members /\ member[1] = "off" /\ \A m \in Members : member[m] # "launched"
    BY <1>1 DEF Members
  <2> QED
    BY <1>1, <2>1 DEF Stages
<1> QED
  BY <1>2, <1>3 DEF ServerInv

\* The first member that is off is launched when all before it are ready.
LEMMA LaunchInv == ServerInv /\ Server!Launch => ServerInv'
<1> SUFFICES ASSUME ServerInv, Server!Launch PROVE ServerInv'
  OBVIOUS
<1> USE DEF ServerInv
<1> DEFINE T == {n \in Members : member[n] = "off"}
           m == Server!Min(T)
<1>1. /\ main = "start" /\ main' = "wait" /\ UNCHANGED <<told, signal, code>>
      /\ member' = [member EXCEPT ![m] = "launched"]
  BY SameMembers DEF Server!Launch
<1>2. T \in SUBSET Members /\ T # {}
  BY <1>1 DEF Stages
<1>3. m \in T /\ \A n \in T : m <= n
  BY <1>2, FirstMember
<1>4. m \in Members /\ member[m] = "off" /\ \A n \in Members : n < m => member[n] # "off"
  BY <1>3 DEF Members
<1> HIDE DEF m, T
<1>5. \A n \in Members : m < n => member[n] = "off"
  BY <1>4 DEF LaunchedInOrder
<1>6. told = {} /\ \A n \in Members : n < m => member[n] \in {"ready", "failed"}
  BY <1>1, <1>4 DEF InReverse, Stages, ServerShape
<1>7. member'[m] = "launched" /\ \A n \in Members \ {m} : member'[n] = member[n]
  BY <1>1, <1>4 DEF ServerShape
<1>8. ServerShape'
  BY <1>1, <1>4 DEF ServerShape
<1>9. LaunchedInOrder' /\ Order'
  BY <1>4, <1>5, <1>6, <1>7 DEF LaunchedInOrder, Order, Members, Running
<1>10. InReverse' /\ Stages'
  BY <1>1, <1>4, <1>6, <1>7 DEF InReverse, Stages
<1> QED
  BY <1>8, <1>9, <1>10

\* When the last member launched is ready, so are those before it.
LEMMA StartedInv == ServerInv /\ Server!Started => ServerInv'
<1> SUFFICES ASSUME ServerInv, Server!Started PROVE ServerInv'
  OBVIOUS
<1> USE DEF ServerInv
<1> DEFINE T == {n \in Members : member[n] # "off"}
           m == Server!Max(T)
<1>1. /\ main = "wait" /\ member[m] = "ready" /\ main' = IF T = Members THEN "serve" ELSE "start"
      /\ UNCHANGED <<member, told, signal, code>>
  BY SameMembers DEF Server!Started
<1>2. T \in SUBSET Members /\ T # {}
  BY <1>1 DEF Stages
<1>3. m \in T /\ \A n \in T : n <= m
  BY <1>2, LastMember
<1>4. \A n \in Members : n # m /\ member[n] # "off" => member[n] \in {"ready", "failed"}
  BY <1>1, <1>3 DEF Order, Running, Members
<1> HIDE DEF m
<1>5. T # Members => \E n \in Members : member[n] = "off"
  OBVIOUS
<1>6. Stages'
  BY <1>1, <1>4, <1>5 DEF Stages
<1> HIDE DEF T
<1>7. ServerShape' /\ LaunchedInOrder' /\ InReverse' /\ Order'
  BY <1>1 DEF ServerShape, LaunchedInOrder, InReverse, Order
<1> QED
  BY <1>6, <1>7

\* The last member that runs is told, so no later one runs.
LEMMA TellInv == ServerInv /\ Server!Tell => ServerInv'
<1> SUFFICES ASSUME ServerInv, Server!Tell PROVE ServerInv'
  OBVIOUS
<1> USE DEF ServerInv
<1> DEFINE T == {n \in Server!Launched : member[n] \notin Server!Over}
           m == Server!Max(T)
<1>1. /\ main = "stop" /\ T # {} /\ told' = told \cup {m}
      /\ UNCHANGED <<main, member, signal, code>>
  BY DEF Server!Tell
<1>2. T = {n \in Members : member[n] \in Running}
  BY SameMembers DEF ServerShape, Server!Over, Running
<1>3. m \in T /\ \A n \in T : n <= m
  BY <1>1, <1>2, LastMember
<1>4. m \in Members /\ \A n \in Members : m < n => member[n] \notin Running
  BY <1>2, <1>3 DEF Members
<1> HIDE DEF m, T
<1>5. ServerShape' /\ LaunchedInOrder' /\ Order' /\ Stages'
  BY <1>1, <1>4 DEF ServerShape, LaunchedInOrder, Order, Stages
<1>6. InReverse'
  BY <1>1, <1>4 DEF InReverse
<1> QED
  BY <1>5, <1>6

\* A member becomes ready, fails, or stops once it has been told to.
LEMMA MemberInv ==
    ASSUME ServerInv, NEW m \in Members, NEW s \in {"ready", "failed", "stopped"},
           UNCHANGED <<main, told, signal, code>>,
           main \in {"start", "wait", "serve", "stop"},
           member[m] \in Running, member' = [member EXCEPT ![m] = s],
           s = "stopped" => m \in told
    PROVE  ServerInv'
<1> USE DEF ServerInv
<1>1. member'[m] = s /\ \A n \in Members \ {m} : member'[n] = member[n]
  BY DEF ServerShape
<1>2. ServerShape' /\ LaunchedInOrder' /\ InReverse'
  BY <1>1 DEF ServerShape, LaunchedInOrder, InReverse, Running
<1>3. Stages'
  BY <1>1 DEF Stages, Running
<1>4. ASSUME NEW i \in Members, NEW j \in Members, i < j, member'[j] \in Running
      PROVE  member'[i] \in {"ready", "failed"}
  <2>1. member[j] \in Running
    BY <1>1, <1>4
  <2>2. member[i] \in {"ready", "failed"}
    BY <1>4, <2>1 DEF Order
  <2>3. i = m /\ s = "stopped" => FALSE
    BY <1>4, <2>1 DEF InReverse
  <2> QED
    BY <1>1, <2>2, <2>3
<1> QED
  BY <1>2, <1>3, <1>4 DEF Order

\* Every step of copilot and of what happens to it preserves the invariant.
LEMMA ServerNextInv == ServerInv /\ [Server!Next]_serverVars => ServerInv'
<1> SUFFICES ASSUME ServerInv, [Server!Next]_serverVars PROVE ServerInv'
  OBVIOUS
<1>1. ASSUME NEW file, Server!Boot(file) PROVE ServerInv'
  BY <1>1, ExitInv, BootingInv DEF Server!Boot
<1>2. CASE Server!ServerTLS \/ Server!ReachBBS \/ Server!Build
  <2>1. main # "exited" => code = -1
    BY DEF ServerInv, Stages
  <2> QED
    BY <1>2, <2>1, ExitInv, BootingInv DEF Server!ServerTLS, Server!ReachBBS, Server!Build
<1>3. CASE Server!Launch
  BY <1>3, LaunchInv
<1>4. CASE Server!Started
  BY <1>4, StartedInv
<1>5. CASE Server!Notice
  <2>1. /\ main' = "stop" /\ main \in {"wait", "serve"} /\ UNCHANGED <<member, told, signal, code>>
        /\ signal = TRUE \/ \E m \in Members : member[m] = "failed"
    BY <1>5, SameMembers DEF Server!Notice
  <2> QED
    BY <2>1 DEF ServerInv, ServerShape, LaunchedInOrder, InReverse, Order, Stages
<1>6. CASE Server!Tell
  BY <1>6, TellInv
<1>7. CASE Server!Finish \/ Server!BBSUnreachable \/ Server!SnapshotPanics \/ Server!InsertPanics
  BY <1>7, ExitInv DEF Server!Finish, Server!BBSUnreachable, Server!SnapshotPanics, Server!InsertPanics
<1>8. ASSUME NEW m \in Members, Server!Ready(m) \/ Server!Stops(m) \/ Server!Fails(m) PROVE ServerInv'
  BY <1>8, MemberInv DEF Server!Ready, Server!Stops, Server!Fails, Server!InGroup, Running
<1>9. CASE (\E m \in Server!GrpcServers : Server!StreamOpens(m) \/ Server!StreamCloses(m)) \/ UNCHANGED serverVars
  <2>1. UNCHANGED <<main, member, told, signal, code>>
    BY <1>9 DEF Server!StreamOpens, Server!StreamCloses, serverVars
  <2> QED
    BY <2>1 DEF ServerInv, ServerShape, LaunchedInOrder, InReverse, Order, Stages
<1>10. CASE Server!Signal
  <2>1. CASE Server!Exit(143)
    BY <2>1, ExitInv
  <2>2. CASE signal' = TRUE /\ UNCHANGED <<main, member, told, code>>
    BY <2>2 DEF ServerInv, ServerShape, LaunchedInOrder, InReverse, Order, Stages
  <2> QED
    BY <1>10, <2>1, <2>2 DEF Server!Signal
<1> QED
  BY <1>1, <1>2, <1>3, <1>4, <1>5, <1>6, <1>7, <1>8, <1>9, <1>10, SameMembers
  DEF Server!Next, Server!Step, Server!Environment
-----------------------------------------------------------------------------
(***************************************************************************)
(* The two side by side.                                                   *)
(***************************************************************************)
\* Directories are never removed, so what has been stowed once stays there.
StowedThere ==
    \A list \in stowed :
        /\ list \in Seq(Pairs)
        /\ LET located == Librarian!Locate(Librarian!istioCertRootPath, list)
           IN  \A i \in DOMAIN located : located[i].Dir \in DOMAIN disk

Inv == LibInv /\ ServerInv /\ StowedThere

\* At the start the disk is empty and copilot is not running.
LEMMA InitInv == Init => Inv
<1> SUFFICES ASSUME Init PROVE Inv
  OBVIOUS
<1>1. /\ pems = <<>> /\ DOMAIN disk = {} /\ disk = [k \in {} |-> k]
      /\ lib = [pc |-> "off", i |-> 1] /\ failures = 0
  BY DEF Init, Librarian!Init, Librarian!EmptyMap
<1>2. LibShape
  <2>1. IsFiniteSet(DOMAIN disk)
    BY <1>1, FS_EmptySet
  <2>2. disk \in [DOMAIN disk -> FilePairs]
    BY <1>1
  <2> QED
    BY <1>1, <2>1, <2>2 DEF LibShape
<1>3. Progress
  BY <1>1 DEF Progress, InPair
<1>4. Excused
  <2>1. Librarian!Mismatched \ HalfWritten = {}
    BY <1>1 DEF Librarian!Mismatched
  <2>2. Cardinality(Librarian!Mismatched \ HalfWritten) = 0
    BY <2>1, FS_EmptySet
  <2> QED
    BY <1>1, <2>2 DEF Excused
<1>5. ServerInv
  <2>1. main = "exited" /\ member = [m \in Members |-> "off"] /\ told = {}
    BY SameMembers DEF Init, Server!Init
  <2> QED
    BY <2>1 DEF ServerInv, ServerShape, LaunchedInOrder, InReverse, Stages, Order, Running, Members
<1>6. StowedThere
  BY DEF Init, StowedThere
<1> QED
  BY <1>2, <1>3, <1>4, <1>5, <1>6 DEF Inv, LibInv

\* The librarian never removes a directory.
LEMMA DirectoriesStay ==
    ASSUME LibInv, [Librarian!Next]_libVars
    PROVE  DOMAIN disk \subseteq DOMAIN disk'
BY DEF Librarian!Next, Librarian!Librarian, Librarian!Stow, Librarian!StowMalformed, Librarian!MakeDir,
       Librarian!MakeDirFails, Librarian!StowCert, Librarian!StowCertFails, Librarian!StowKey, Librarian!StowKeyFails,
       Librarian!StowDone, Librarian!Put, libVars

\* A step of the librarian, of copilot, or of neither preserves the invariant.
LEMMA NextInv == Inv /\ [Next]_vars => Inv'
<1> SUFFICES ASSUME Inv, [Next]_vars PROVE Inv'
  OBVIOUS
<1>1. \/ [Librarian!Next]_libVars /\ Record /\ UNCHANGED serverVars
      \/ [Server!Next]_serverVars /\ UNCHANGED libVars /\ stowed' = stowed
  BY SameMembers DEF Next, LibrarianStep, CopilotBoots, CopilotStep, vars, libVars, serverVars,
                     Server!Next, Server!Environment
<1>2. LibInv'
  BY <1>1, LibNextInv DEF Inv
<1>3. ServerInv'
  BY <1>1, ServerNextInv DEF Inv
<1>4. DOMAIN disk \subseteq DOMAIN disk'
  BY <1>1, DirectoriesStay DEF Inv, libVars
<1>5. StowedThere'
  <2> SUFFICES ASSUME NEW list \in stowed'
               PROVE  /\ list \in Seq(Pairs)
                      /\ LET located == Librarian!Locate(Librarian!istioCertRootPath, list)
                         IN  \A i \in DOMAIN located : located[i].Dir \in DOMAIN disk'
    BY DEF StowedThere
  <2>1. CASE list \in stowed
    BY <1>4, <2>1 DEF Inv, StowedThere
  <2>2. CASE list \notin stowed
    <3>1. list = pems' /\ lib'.pc \in {"stowed", "malformed"} /\ root' = Librarian!istioCertRootPath
      BY <1>1, <2>2 DEF Record
    <3>2. LocatedIsStowed'
      BY <1>2, LibInvLocated, PTL
    <3> QED
      BY <1>2, <3>1, <3>2 DEF LocatedIsStowed, Librarian!LocatedIsStowed, LibInv, LibShape
  <2> QED
    BY <2>1, <2>2
<1> QED
  BY <1>2, <1>3, <1>5 DEF Inv

\* Inv holds in every reachable state.
THEOREM InductiveInvariant == Spec => []Inv
BY InitInv, NextInv, PTL DEF Spec

\* After a run that no write failed in, the directories that Locate names hold
\* the certificate and the key of the last pair with that first host.
THEOREM FilesMatchGateway == Spec => []LocatedIsStowed
<1>1. Inv => LocatedIsStowed
  BY LibInvLocated DEF Inv
<1> QED
  BY <1>1, InductiveInvariant, PTL

\* Each certificate beside another's key has a failed write of its own, but
\* for the write in progress.
THEOREM MismatchesExcused == Spec => []MismatchedBounded
<1>1. Inv => MismatchedBounded
  BY LibInvMismatched DEF Inv
<1> QED
  BY <1>1, InductiveInvariant, PTL

\* The group starts its members in order and stops them in reverse order, so
\* none runs without those before it, unless they have failed.
THEOREM MembersInOrder == Spec => []LaterNeedEarlier
<1>1. Inv => LaterNeedEarlier
  BY SameMembers DEF Inv, ServerInv
<1> QED
  BY <1>1, InductiveInvariant, PTL

\* The gateway of a copilot that serves names directories that exist, and with
\* no failed write and none in progress their contents belong together.
THEOREM GatewayNamesFiles == Spec => []GatewayResolves
<1>1. Inv => GatewayResolves
  <2> SUFFICES ASSUME Inv, TLSPems \in stowed,
                      NEW i \in DOMAIN Librarian!CreateGatewayResources(TLSPems),
                      Librarian!CreateGatewayResources(TLSPems)[i].Dir # <<>>
               PROVE  LET server == Librarian!CreateGatewayResources(TLSPems)[i]
                      IN  /\ server.Dir \in DOMAIN disk
                          /\ failures = 0 /\ lib.pc # "key" => server.Dir \notin Librarian!Mismatched
    BY DEF GatewayResolves
  <2> DEFINE located == Librarian!Locate(Librarian!istioCertRootPath, TLSPems)
             http == [Hosts |-> <<"*">>, Dir |-> <<>>]
             servers == Librarian!CreateGatewayResources(TLSPems)
  <2>1. TLSPems \in Seq(Pairs) /\ \A k \in DOMAIN located : located[k].Dir \in DOMAIN disk
    BY DEF Inv, StowedThere
  <2>2. PICK n \in Nat : DOMAIN located = 1 .. n
    BY <2>1, LocatedPrefix
  <2>3. servers = <<http>> \o [k \in DOMAIN located |-> located[k]]
    BY DEF Librarian!CreateGatewayResources
  <2> HIDE DEF located, servers
  <2>4. servers[i].Dir \in DOMAIN disk
    <3> DEFINE tail == [k \in 1 .. n |-> located[k]]
    <3>1. tail \in Seq({located[k] : k \in 1 .. n}) /\ Len(tail) = n
      OBVIOUS
    <3>2. servers = <<http>> \o tail
      BY <2>2, <2>3
    <3> HIDE DEF tail, http
    <3>3. i \in 1 .. n + 1 /\ servers[1] = http /\ (i # 1 => servers[i] = tail[i - 1])
      BY <3>1, <3>2 DEF servers
    <3>4. i # 1
      BY <3>3 DEF http, servers
    <3>5. i - 1 \in 1 .. n /\ servers[i] = located[i - 1]
      BY <3>3, <3>4 DEF tail
    <3> QED
      BY <2>1, <2>2, <3>5
  <2>5. ASSUME failures = 0, lib.pc # "key" PROVE Librarian!Mismatched = {}
    <3>1. Cardinality(Librarian!Mismatched) <= 0
      BY <2>5, LibInvMismatched, SameCardinality DEF Inv, MismatchedBounded, Librarian!MismatchedBounded
    <3>2. IsFiniteSet(Librarian!Mismatched)
      BY MismatchedFinite DEF Inv, LibInv
    <3>3. Cardinality(Librarian!Mismatched) = 0
      BY <3>1, <3>2, FS_CardinalityType
    <3> QED
      BY <3>2, <3>3, FS_EmptySet
  <2> QED
    BY <2>4, <2>5 DEF servers
<1> QED
  BY <1>1, InductiveInvariant, PTL

\* Exit code 0 needs a signal and members that have not failed; a panic needs a
\* negative interval, a disabled policy server or a backend set that has
\* subscribed to the events of Diego.
THEOREM ExitCodesExplained == Spec => ExitExplained
<1> DEFINE Explained ==
       /\ (main # "exited" /\ code' = 0)
              => signal /\ \A m \in Server!Members : member[m] # "failed"
       /\ code' = 2 /\ code # 2
              => \/ cfg.PolicyServerDisabled \/ cfg.SyncInterval < 0 \/ cfg.MCPConvergeInterval < 0
                 \/ cfg.BBS = "enabled" /\ member[Server!Diego] \notin {"off", "failed"}
<1>1. ASSUME Inv, [Next]_vars PROVE [Explained]_Server!serverVars
  <2>1. /\ main # "exited" => code = -1
        /\ main = "stop" => signal = TRUE \/ \E m \in Members : member[m] = "failed"
    BY <1>1 DEF Inv, ServerInv, Stages
  <2>2. CASE LibrarianStep \/ UNCHANGED vars
    BY <2>2 DEF LibrarianStep, vars, serverVars, Server!serverVars
  <2>3. CASE CopilotBoots
    BY <2>3 DEF CopilotBoots, Server!Boot, Server!Exit
  <2>4. CASE Server!Finish
    BY <2>1, <2>4, SameMembers DEF Server!Finish, Server!Exit
  <2>5. CASE Server!ServerTLS \/ Server!BBSUnreachable
    BY <2>1, <2>5 DEF Server!ServerTLS, Server!BBSUnreachable, Server!Exit
  <2>6. CASE Server!ReachBBS \/ Server!Build \/ Server!SnapshotPanics \/ Server!InsertPanics
    BY <2>1, <2>6 DEF Server!ReachBBS, Server!Build, Server!SnapshotPanics, Server!InsertPanics, Server!Exit
  <2>7. CASE Server!Signal
    BY <2>1, <2>7 DEF Server!Signal, Server!Exit
  <2>8. CASE \/ Server!Launch \/ Server!Started \/ Server!Notice \/ Server!Tell
             \/ \E m \in Server!GrpcServers : Server!StreamOpens(m) \/ Server!StreamCloses(m)
             \/ \E m \in Server!Members : Server!Ready(m) \/ Server!Stops(m) \/ Server!Fails(m)
    <3>1. code' = code
      BY <2>8 DEF Server!Launch, Server!Started, Server!Notice, Server!Tell, Server!StreamOpens,
                  Server!StreamCloses, Server!Ready, Server!Stops, Server!Fails
    <3> QED
      BY <2>1, <3>1
  <2> QED
    BY <1>1, <2>2, <2>3, <2>4, <2>5, <2>6, <2>7, <2>8 DEF Next, CopilotStep, Server!Step
<1>2. Inv /\ [Next]_vars => [Explained]_Server!serverVars
  BY <1>1
<1> QED
  BY <1>2, InductiveInvariant, PTL DEF Spec, ExitExplained, Server!ExitExplained
=============================================================================
