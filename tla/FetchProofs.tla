---------------------------- MODULE FetchProofs ----------------------------
(***************************************************************************)
(* Theorems about Fetch, for any number of commands, any size of the       *)
(* artifacts, any number of attempts and faults, when one command pulls    *)
(* the build at a time: what is in place is the artifact or, of a host     *)
(* that does not say how long it is, its beginning; and what a pull has    *)
(* proven stays proven until the record has no room for it.                *)
(*                                                                         *)
(* Every inode holds a beginning of the artifact at all times.  So a       *)
(* content is known by its length, and the proof is about lengths, about   *)
(* who holds which inode, and about which artifact a command is at.        *)
(***************************************************************************)
EXTENDS Fetch, FiniteSetTheorems, SequenceTheorems, TLAPS

-----------------------------------------------------------------------------
(* Beginnings of an artifact.                                              *)

Upto(k) == [i \in 1..k |-> i]
Beginnings == {Upto(k) : k \in 0..Chunks}

LEMMA UptoFacts ==
  ASSUME NEW k \in Nat
  PROVE  /\ Upto(k) \in Seq(Nat) /\ Len(Upto(k)) = k /\ DOMAIN Upto(k) = 1..k
         /\ \A i \in 1..k : Upto(k)[i] = i
BY DEF Upto

\* A beginning is known by its length.
LEMMA BeginningFacts ==
  ASSUME NEW c \in Beginnings
  PROVE  /\ c \in Seq(Nat) /\ Len(c) \in 0..Chunks /\ c = Upto(Len(c))
         /\ Len(c) = Chunks <=> c = Whole
         /\ Len(c) = 0 <=> c = <<>>
<1>1. PICK k \in 0..Chunks : c = Upto(k)
  BY DEF Beginnings
<1>2. k \in Nat /\ Chunks \in Nat
  BY FetchAssumption
<1>3. c \in Seq(Nat) /\ Len(c) = k
  BY <1>1, <1>2, UptoFacts
<1>4. Upto(Chunks) = Whole
  BY DEF Upto, Whole
<1>5. Len(Whole) = Chunks
  BY <1>2, <1>4, UptoFacts
<1>6. Len(c) = 0 <=> c = <<>>
  BY <1>3
<1> QED BY <1>1, <1>2, <1>3, <1>4, <1>5, <1>6

LEMMA EndsOfBeginnings ==
  /\ <<>> \in Beginnings /\ Whole \in Beginnings /\ Len(Whole) = Chunks /\ Len(<<>>) = 0
  /\ Whole # <<>>
<1>1. Chunks \in Nat /\ Chunks > 0 /\ Upto(0) = <<>> /\ Upto(Chunks) = Whole
  BY FetchAssumption DEF Upto, Whole
<1>2. Len(Whole) = Chunks
  BY <1>1, UptoFacts
<1>3. 0 \in 0..Chunks /\ Chunks \in 0..Chunks
  BY <1>1
<1>4. <<>> \in Beginnings /\ Whole \in Beginnings
  BY <1>1, <1>3 DEF Beginnings
<1> QED BY <1>1, <1>2, <1>4

\* The next chunk makes it the next beginning, appended or written at its position.
LEMMA NextChunk ==
  ASSUME NEW c \in Beginnings, Len(c) < Chunks
  PROVE  /\ Append(c, Len(c) + 1) \in Beginnings /\ Len(Append(c, Len(c) + 1)) = Len(c) + 1
         /\ WrittenAt(c, Len(c) + 1) = Append(c, Len(c) + 1)
<1> DEFINE k == Len(c)
<1>1. c \in Seq(Nat) /\ k \in Nat /\ Chunks \in Nat /\ k + 1 \in 0..Chunks /\ c = Upto(k)
  BY BeginningFacts, FetchAssumption
<1>2. /\ Append(c, k + 1) \in Seq(Nat) /\ Len(Append(c, k + 1)) = k + 1
      /\ \A i \in 1..(k + 1) : Append(c, k + 1)[i] = IF i = k + 1 THEN k + 1 ELSE c[i]
  BY <1>1
<1>3. \A i \in 1..k : c[i] = i
  BY <1>1, UptoFacts
<1>4. /\ Upto(k + 1) \in Seq(Nat) /\ Len(Upto(k + 1)) = k + 1
      /\ \A i \in 1..(k + 1) : Upto(k + 1)[i] = i
  BY <1>1, UptoFacts
<1>5. \A i \in 1..(k + 1) : i # k + 1 => i \in 1..k
  BY <1>1
<1>6. Append(c, k + 1) = Upto(k + 1)
  <2> DEFINE r == Append(c, k + 1)
             u == Upto(k + 1)
  <2>1. \A i \in 1..(k + 1) : r[i] = u[i]
    BY <1>2, <1>3, <1>4, <1>5
  <2> HIDE DEF r, u, k
  <2> QED BY <1>2, <1>4, <2>1, SMTT(30) DEF r, u
<1>7. WrittenAt(c, k + 1) = Upto(k + 1)
  <2>1. (k + 1) > k /\ \A i \in 1..(k + 1) : (i # k + 1 => i <= k)
    BY <1>1
  <2>2. WrittenAt(c, k + 1) = [i \in 1..(k + 1) |-> IF i = k + 1 THEN k + 1 ELSE IF i <= k THEN c[i] ELSE 0]
    BY <2>1 DEF WrittenAt
  <2>3. \A i \in 1..(k + 1) : (IF i = k + 1 THEN k + 1 ELSE IF i <= k THEN c[i] ELSE 0) = i
    BY <1>3, <1>5, <2>1
  <2> HIDE DEF k
  <2> QED BY <2>2, <2>3 DEF Upto
<1>8. Upto(k + 1) \in Beginnings
  BY <1>1 DEF Beginnings
<1> HIDE DEF k
<1> QED BY <1>2, <1>6, <1>7, <1>8 DEF k

LEMMA BeginningIsPrefix ==
  ASSUME NEW c \in Beginnings
  PROVE  IsPrefix(c, Whole)
<1>0. Whole \in Beginnings /\ Len(Whole) = Chunks
  BY EndsOfBeginnings
<1>1. /\ c \in Seq(Nat) /\ Whole \in Seq(Nat) /\ Len(c) \in 0..Chunks /\ Len(Whole) = Chunks
      /\ Chunks \in Nat
  <2>1. c \in Seq(Nat) /\ Len(c) \in 0..Chunks
    BY BeginningFacts
  <2>2. Whole \in Seq(Nat)
    BY <1>0, BeginningFacts
  <2> QED BY <1>0, <2>1, <2>2, FetchAssumption
<1>2. \A i \in 1..Len(c) : c[i] = i /\ i \in 1..Chunks
  <2>1. c = Upto(Len(c)) /\ Len(c) \in Nat
    BY <1>1, BeginningFacts
  <2>2. \A i \in 1..Len(c) : Upto(Len(c))[i] = i
    BY <2>1, UptoFacts
  <2> QED BY <1>1, <2>1, <2>2
<1>3. \A i \in 1..Len(c) : Whole[i] = i
  BY <1>2 DEF Whole
<1> DEFINE k == Len(c)
           s == SubSeq(c, 1, k)
           t == SubSeq(Whole, 1, k)
<1>4. k \in Nat /\ k <= Chunks
  BY <1>1
<1>5. /\ s \in Seq(Nat) /\ Len(s) = k /\ \A i \in 1..k : s[i] = c[i]
      /\ t \in Seq(Nat) /\ Len(t) = k /\ \A i \in 1..k : t[i] = Whole[i]
  BY <1>1, <1>4
<1>6. \A i \in 1..k : s[i] = t[i]
  BY <1>2, <1>3, <1>5
<1>7. s = t
  <2> HIDE DEF s, t, k
  <2> QED BY <1>4, <1>5, <1>6
<1> QED BY <1>1, <1>4, <1>7 DEF IsPrefix

-----------------------------------------------------------------------------
(* The invariant, while one command pulls at a time.                       *)

Labels == {"idle", "ask", "head", "try", "answer", "body", "publish", "fetched", "unpack", "place",
           "record", "raise", "bake", "mkfs", "done", "failed"}

\* Where a command is about to change the files of the artifact it is at.
Fetching == {"head", "try", "answer", "body", "publish", "fetched", "unpack", "place"}

Shape ==
    /\ apart \in BOOLEAN /\ lengths \in BOOLEAN /\ named \subseteq Artifacts
    /\ gzipped \in BOOLEAN
    /\ name \in [Names -> Inodes \cup {None}]
    /\ data \in [Inodes -> Beginnings]
    /\ proven \in [Artifacts -> 0..Chunks] /\ above \in 0..MaxKept
    /\ pc \in [Processes -> Labels]
    /\ at \in [Processes -> 1..2]
    /\ size \in [Processes -> 0..Chunks]
    /\ handle \in [Processes -> Inodes \cup {None}]
    /\ appends \in [Processes -> BOOLEAN]
    /\ entries \in [Processes -> [Artifacts -> 0..Chunks]]

\* One command is at work, and only its inode is held; no inode has two names.
OneAtATime ==
    /\ \A p, q \in Processes : Busy(p) /\ Busy(q) => p = q
    /\ \A p \in Processes : handle[p] # None <=> pc[p] \in {"body", "unpack", "mkfs"}
    /\ \A m, n \in Names : name[m] = name[n] /\ name[m] # None => m = n

\* What a command knows at each of its steps.
Knows(p) ==
    /\ pc[p] \in Fetching => Wanted(p) \in named /\ proven[Wanted(p)] = 0
    /\ pc[p] = "answer" => size[p] = SizeOf(Part(p))
    /\ pc[p] = "body" => handle[p] = name[Part(p)] /\ size[p] = SizeOf(Part(p))
    /\ pc[p] = "publish" /\ lengths => SizeOf(Part(p)) = Chunks
    /\ pc[p] = "fetched" => IsFile(Target[Wanted(p)])
    /\ pc[p] \in {"unpack", "place"} => Wanted(p) = "kernel" /\ IsFile("Image.gz")
    /\ pc[p] = "unpack" => handle[p] = name["Image.part"]
    /\ pc[p] = "place" /\ gzipped => Content("Image.part") \in {<<>>, Whole}
    /\ pc[p] = "place" /\ lengths => SizeOf("Image.part") = Chunks
    /\ pc[p] = "mkfs" => \A n \in Names : name[n] # handle[p]

\* What its act will say of the artifacts it is past is what they are.
EntriesTrue(p) ==
    /\ "kernel" \in named /\ (pc[p] = "record" \/ (pc[p] \in Fetching \cup {"ask"} /\ at[p] = 2))
          => entries[p]["kernel"] = SizeOf("Image")
    /\ "modules" \in named /\ pc[p] = "record" => entries[p]["modules"] = SizeOf("modules.tar.xz")

\* The files under their own names, and what the record says of them.
FilesSound ==
    /\ gzipped => Content("Image") \in {<<>>, Whole}
    /\ Complete("disk.ext4")
    /\ lengths => \A f \in Files : Complete(f)
    /\ \A a \in named : proven[a] # 0 => IsFile(Local[a]) /\ SizeOf(Local[a]) = proven[a]
    /\ above = MaxKept => proven = Nothing

Inductive ==
    apart => /\ Shape /\ OneAtATime /\ FilesSound
             /\ \A p \in Processes : Knows(p) /\ EntriesTrue(p)

-----------------------------------------------------------------------------
(* Names, inodes, and the command at work.                                 *)

LEMMA ArtifactFacts ==
  /\ Artifacts = {"kernel", "modules"} /\ Len(Want) = 2
  /\ Want[1] = "kernel" /\ Want[2] = "modules"
  /\ Target["kernel"] = "Image.gz" /\ Target["modules"] = "modules.tar.xz"
  /\ Local["kernel"] = "Image" /\ Local["modules"] = "modules.tar.xz"
  /\ PartOf["kernel"] = "Image.gz.part" /\ PartOf["modules"] = "modules.tar.xz.part"
<1>1. Want \in Seq({"kernel", "modules"}) /\ Len(Want) = 2 /\ Want[1] = "kernel" /\ Want[2] = "modules"
  BY DEF Want
<1>2. DOMAIN Want = 1..2
  BY <1>1
<1>3. Artifacts = {"kernel", "modules"}
  BY <1>1, <1>2 DEF Artifacts, ToSet
<1> QED BY <1>1, <1>3 DEF Target, Local, PartOf

\* What a command is at: the kernel and its three files, or the modules and their two.
LEMMA PlacesOf ==
  ASSUME Shape, NEW p \in Processes
  PROVE  \/ /\ at[p] = 1 /\ Wanted(p) = "kernel" /\ Part(p) = "Image.gz.part"
            /\ Target[Wanted(p)] = "Image.gz" /\ Local[Wanted(p)] = "Image"
         \/ /\ at[p] = 2 /\ Wanted(p) = "modules" /\ Part(p) = "modules.tar.xz.part"
            /\ Target[Wanted(p)] = "modules.tar.xz" /\ Local[Wanted(p)] = "modules.tar.xz"
<1>1. at[p] = 1 \/ at[p] = 2
  BY DEF Shape
<1> QED BY <1>1, ArtifactFacts DEF Wanted, Part

LEMMA NamesAreFinite == IsFiniteSet(Names)
<1>1. IsFiniteSet({})
  BY FS_EmptySet
<1>2. IsFiniteSet({"Image.gz"})
  BY FS_Singleton
<1>3. IsFiniteSet({"Image.gz"} \cup {"Image"})
  BY <1>2, FS_AddElement
<1>4. IsFiniteSet({"Image.gz"} \cup {"Image"} \cup {"modules.tar.xz"})
  BY <1>3, FS_AddElement
<1>5. IsFiniteSet({"Image.gz"} \cup {"Image"} \cup {"modules.tar.xz"} \cup {"Image.gz.part"})
  BY <1>4, FS_AddElement
<1>6. IsFiniteSet({"Image.gz"} \cup {"Image"} \cup {"modules.tar.xz"} \cup {"Image.gz.part"}
                    \cup {"Image.part"})
  BY <1>5, FS_AddElement
<1>7. IsFiniteSet({"Image.gz"} \cup {"Image"} \cup {"modules.tar.xz"} \cup {"Image.gz.part"}
                    \cup {"Image.part"} \cup {"modules.tar.xz.part"})
  BY <1>6, FS_AddElement
<1>8. IsFiniteSet({"Image.gz"} \cup {"Image"} \cup {"modules.tar.xz"} \cup {"Image.gz.part"}
                    \cup {"Image.part"} \cup {"modules.tar.xz.part"} \cup {"disk.ext4"})
  BY <1>7, FS_AddElement
<1>9. Names = {"Image.gz"} \cup {"Image"} \cup {"modules.tar.xz"} \cup {"Image.gz.part"}
                    \cup {"Image.part"} \cup {"modules.tar.xz.part"} \cup {"disk.ext4"}
  BY DEF Names, Files
<1> QED BY <1>8, <1>9

LEMMA NoInodeIsNone == None \notin Inodes
BY FetchAssumption DEF Inodes

\* While no command holds an inode there is one for a new file.
LEMMA FreshIsFree ==
  ASSUME Shape, NEW p \in Processes, \A q \in Processes : handle[q] = None
  PROVE  FreshInode \in Inodes /\ \A n \in Names : name[n] # FreshInode
<1> DEFINE bound == {name[n] : n \in Names}
           most == Cardinality(Names) + Cardinality(Processes)
<1>1. IsFiniteSet(bound) /\ Cardinality(bound) <= Cardinality(Names)
  <2>1. IsFiniteSet(Names)
    BY NamesAreFinite
  <2>2. name \in Surjection(Names, bound)
    BY DEF Surjection, Shape
  <2> HIDE DEF bound
  <2> QED BY <2>1, <2>2, FS_Surjection
<1>2. Cardinality(Names) \in Nat /\ Cardinality(Processes) \in Nat /\ Cardinality(bound) \in Nat
  BY <1>1, NamesAreFinite, FetchAssumption, FS_CardinalityType
<1>3. Cardinality(Processes) > 0
  <2>1. Processes # {} /\ IsFiniteSet(Processes)
    BY FetchAssumption
  <2> QED BY <1>2, <2>1, FS_EmptySet
<1>4. most \in Nat /\ most > Cardinality(bound) /\ Inodes = 1..most
  BY <1>1, <1>2, <1>3 DEF Inodes
<1>5. IsFiniteSet(1..most) /\ Cardinality(1..most) = most
  <2> HIDE DEF most
  <2>1. 1 \in Int /\ most \in Int
    BY <1>4
  <2>2. IsFiniteSet(1..most) /\ Cardinality(1..most) = IF 1 > most THEN 0 ELSE most - 1 + 1
    BY <2>1, FS_Interval
  <2> QED BY <1>4, <2>1, <2>2
<1>6. PICK i \in Inodes : i \notin bound
  <2>1. ~(Inodes \subseteq bound)
    <3> SUFFICES ASSUME Inodes \subseteq bound PROVE FALSE
      OBVIOUS
    <3>1. Cardinality(Inodes) <= Cardinality(bound)
      BY <1>1, FS_Subset
    <3> HIDE DEF bound, most
    <3> QED BY <1>2, <1>4, <1>5, <3>1
  <2> QED BY <2>1
<1>7. \A n \in Names : name[n] # i
  BY <1>6
<1>8. \A q \in Processes : handle[q] # i
  BY <1>6, NoInodeIsNone
<1> QED BY <1>6, <1>7, <1>8 DEF FreshInode

\* What is referred to keeps what it holds.
LEMMA KeptFacts ==
  ASSUME NEW nn \in [Names -> Inodes \cup {None}], NEW hh, NEW held \in [Inodes -> Beginnings]
  PROVE  /\ Kept(nn, hh, held) \in [Inodes -> Beginnings]
         /\ \A n \in Names : nn[n] # None => Kept(nn, hh, held)[nn[n]] = held[nn[n]]
<1>1. <<>> \in Beginnings
  BY EndsOfBeginnings
<1> QED BY <1>1 DEF Kept

\* The contents of the files are beginnings of an artifact.
LEMMA ContentFacts ==
  ASSUME Shape, NEW n \in Names
  PROVE  /\ Content(n) \in Beginnings /\ SizeOf(n) \in 0..Chunks
         /\ SizeOf(n) = Chunks <=> Content(n) = Whole
         /\ SizeOf(n) = 0 <=> Content(n) = <<>>
         /\ ~IsFile(n) => SizeOf(n) = 0
         /\ IsPrefix(Content(n), Whole)
<1>1. Content(n) \in Beginnings
  BY EndsOfBeginnings DEF Shape, Content
<1>2. ~IsFile(n) => SizeOf(n) = 0
  BY EndsOfBeginnings DEF IsFile, SizeOf, Content
<1> HIDE DEF Content
<1> QED BY <1>1, <1>2, BeginningFacts, BeginningIsPrefix DEF SizeOf

\* While a command is at work the others are not.
LEMMA OthersAreIdle ==
  ASSUME Shape, OneAtATime, NEW p \in Processes, Busy(p) \/ \A q \in Processes : ~Busy(q)
  PROVE  \A q \in Processes \ {p} : pc[q] \in {"idle", "done", "failed"} /\ handle[q] = None
BY DEF OneAtATime, Busy

\* So a step of one command is right when it leaves that command right.
LEMMA OneStep ==
  ASSUME Shape, OneAtATime, NEW p \in Processes, Busy(p) \/ \A q \in Processes : ~Busy(q),
         \A q \in Processes \ {p} : pc'[q] = pc[q] /\ handle'[q] = handle[q],
         Shape', FilesSound', Knows(p)', EntriesTrue(p)',
         handle'[p] # None <=> pc'[p] \in {"body", "unpack", "mkfs"},
         \A m, n \in Names : name'[m] = name'[n] /\ name'[m] # None => m = n
  PROVE  Inductive'
<1>1. \A q \in Processes \ {p} : pc'[q] \in {"idle", "done", "failed"} /\ handle'[q] = None
  BY OthersAreIdle
<1>2. OneAtATime'
  BY <1>1 DEF OneAtATime, Busy
<1>3. ASSUME NEW q \in Processes PROVE Knows(q)' /\ EntriesTrue(q)'
  <2>1. CASE q = p
    BY <2>1
  <2>2. CASE q # p
    BY <1>1, <2>2 DEF Knows, EntriesTrue, Fetching
  <2> QED BY <2>1, <2>2
<1> QED BY <1>2, <1>3 DEF Inductive

-----------------------------------------------------------------------------
(* Where a command goes.                                                   *)

\* One artifact is in place: the next, or the record.
LEMMA LandedFacts ==
  ASSUME Shape, NEW p \in Processes, NEW sz \in 0..Chunks, Landed(p, sz)
  PROVE  /\ pc' \in [Processes -> Labels] /\ at' \in [Processes -> 1..2]
         /\ entries' \in [Processes -> [Artifacts -> 0..Chunks]]
         /\ \A q \in Processes \ {p} : pc'[q] = pc[q]
         /\ entries'[p][Wanted(p)] = sz
         /\ \A a \in Artifacts : a # Wanted(p) => entries'[p][a] = entries[p][a]
         /\ (at[p] = 1 /\ at'[p] = 2 /\ pc'[p] = "ask") \/ (at[p] = 2 /\ at'[p] = 2 /\ pc'[p] = "record")
<1>1. Wanted(p) \in Artifacts /\ at[p] \in 1..2
  BY PlacesOf, ArtifactFacts DEF Shape
<1>2. entries' = [entries EXCEPT ![p][Wanted(p)] = sz] /\ Len(Want) = 2
  BY ArtifactFacts DEF Landed
<1>3. entries[p] \in [Artifacts -> 0..Chunks]
  BY DEF Shape
<1>4. /\ entries' \in [Processes -> [Artifacts -> 0..Chunks]]
      /\ entries'[p][Wanted(p)] = sz
      /\ \A a \in Artifacts : a # Wanted(p) => entries'[p][a] = entries[p][a]
  BY <1>1, <1>2, <1>3 DEF Shape
<1>5. CASE at[p] = 1
  <2>1. at' = [at EXCEPT ![p] = 2] /\ pc' = [pc EXCEPT ![p] = "ask"]
    BY <1>2, <1>5 DEF Landed, Goto
  <2> QED BY <1>4, <1>5, <2>1 DEF Shape, Labels
<1>6. CASE at[p] = 2
  <2>1. at' = at /\ pc' = [pc EXCEPT ![p] = "record"]
    BY <1>2, <1>6 DEF Landed, Goto
  <2> QED BY <1>4, <1>6, <2>1 DEF Shape, Labels
<1> QED BY <1>1, <1>5, <1>6

\* An attempt that failed: another one, or giving up.
LEMMA NextTryFacts ==
  ASSUME Shape, NEW p \in Processes, NextTry(p)
  PROVE  pc' = [pc EXCEPT ![p] = "try"] \/ pc' = [pc EXCEPT ![p] = "raise"]
BY DEF NextTry, Goto

\* What holds of the files goes on holding while name and data do not change.
LEMMA SameFiles ==
  ASSUME FilesSound, UNCHANGED <<name, data, proven, above, lengths, named, gzipped>>
  PROVE  /\ FilesSound'
         /\ \A n \in Names : Content(n)' = Content(n) /\ SizeOf(n)' = SizeOf(n) /\ IsFile(n)' = IsFile(n)
BY DEF FilesSound, Complete, Content, SizeOf, IsFile

\* A step that leaves files, artifact and entries alone, for a label at which the command
\* knows no more than that it is fetching.
LEMMA QuietStep ==
  ASSUME Inductive, apart, NEW p \in Processes, Busy(p), UNCHANGED <<fixed, disk, proofs, at, entries>>,
         NEW label \in {"try", "head", "answer", "raise", "publish", "fetched", "failed", "done", "bake"},
         pc' = [pc EXCEPT ![p] = label],
         label \in Fetching => pc[p] \in Fetching \/ (Wanted(p) \in named /\ proven[Wanted(p)] = 0 /\ pc[p] = "ask"),
         label = "answer" => size'[p] = SizeOf(Part(p)),
         label = "publish" /\ lengths => SizeOf(Part(p)) = Chunks,
         label = "fetched" => IsFile(Target[Wanted(p)]),
         size' \in [Processes -> 0..Chunks], appends' \in [Processes -> BOOLEAN],
         UNCHANGED handle, handle[p] = None
  PROVE  Inductive'
<1> DEFINE Goal == Inductive'
<1>s. Shape /\ OneAtATime /\ FilesSound /\ Knows(p) /\ EntriesTrue(p)
  BY DEF Inductive
<1>1. Shape'
  BY <1>s DEF Shape, Labels, fixed, proofs, disk
<1>2. /\ FilesSound'
      /\ \A n \in Names : Content(n)' = Content(n) /\ SizeOf(n)' = SizeOf(n) /\ IsFile(n)' = IsFile(n)
  BY <1>s, SameFiles DEF fixed, proofs, disk
<1>3. Wanted(p)' = Wanted(p) /\ Part(p)' = Part(p) /\ Part(p) \in Names /\ Target[Wanted(p)] \in Names
  BY <1>s, PlacesOf DEF Wanted, Part, Names, Files
<1>4. pc'[p] = label
  BY <1>s DEF Shape
<1>5. Knows(p)'
  BY <1>s, <1>2, <1>3, <1>4 DEF Knows, Fetching, fixed, proofs, disk
<1>6. EntriesTrue(p)'
  <2>1. SizeOf("Image")' = SizeOf("Image") /\ SizeOf("modules.tar.xz")' = SizeOf("modules.tar.xz")
    BY <1>2 DEF Names, Files
  <2> QED BY <1>s, <1>4, <2>1 DEF EntriesTrue, Fetching, fixed, proofs
<1>7. \A m, n \in Names : name'[m] = name'[n] /\ name'[m] # None => m = n
  BY <1>s DEF OneAtATime, disk
<1>8. \A q \in Processes \ {p} : pc'[q] = pc[q] /\ handle'[q] = handle[q]
  BY <1>s DEF Shape
<1> QED BY <1>s, <1>1, <1>2, <1>4, <1>5, <1>6, <1>7, <1>8, OneStep

\* The same when the contents of the files under their own names stay, whatever happens to
\* parts, inodes and handles.
LEMMA FilesKept ==
  ASSUME Shape, FilesSound, UNCHANGED <<proven, above, lengths, named, gzipped>>,
         \A n \in Files \cup {"disk.ext4"} : Content(n)' = Content(n) /\ IsFile(n)' = IsFile(n)
  PROVE  FilesSound' /\ \A n \in Files : SizeOf(n)' = SizeOf(n)
<1>1. \A n \in Files : SizeOf(n)' = SizeOf(n)
  BY DEF SizeOf
<1>2. \A a \in named : Local[a] \in Files
  BY ArtifactFacts DEF Shape, Files
<1>3. "Image" \in Files
  BY DEF Files
<1>4. \A n \in Files \cup {"disk.ext4"} : Complete(n)' <=> Complete(n)
  BY DEF Complete
<1> QED BY <1>1, <1>2, <1>3, <1>4 DEF FilesSound

LEMMA CloseFacts ==
  ASSUME Shape, NEW p \in Processes, Close(p), UNCHANGED name
  PROVE  /\ data' \in [Inodes -> Beginnings] /\ handle' \in [Processes -> Inodes \cup {None}]
         /\ handle'[p] = None /\ \A q \in Processes \ {p} : handle'[q] = handle[q]
         /\ \A n \in Names : Content(n)' = Content(n) /\ IsFile(n)' = IsFile(n)
<1>1. handle' = [handle EXCEPT ![p] = None] /\ data' = Kept(name, handle', data)
  BY DEF Close
<1>2. data' \in [Inodes -> Beginnings] /\ \A n \in Names : name[n] # None => data'[name[n]] = data[name[n]]
  BY <1>1, KeptFacts DEF Shape
<1> QED BY <1>1, <1>2 DEF Shape, Content, IsFile

\* The handle is closed and the command goes on, gives up or dies.
LEMMA ClosingStep ==
  ASSUME Inductive, apart, NEW p \in Processes, Busy(p), Close(p),
         UNCHANGED <<fixed, name, proofs, at, size, appends, entries>>,
         NEW label \in {"try", "raise", "publish", "failed"}, pc' = [pc EXCEPT ![p] = label],
         label \in {"try", "publish"} => pc[p] \in Fetching,
         label = "publish" /\ lengths => SizeOf(Part(p)) = Chunks
  PROVE  Inductive'
<1>s. Shape /\ OneAtATime /\ FilesSound /\ Knows(p) /\ EntriesTrue(p)
  BY DEF Inductive
<1>1. /\ data' \in [Inodes -> Beginnings] /\ handle' \in [Processes -> Inodes \cup {None}]
      /\ handle'[p] = None /\ \A q \in Processes \ {p} : handle'[q] = handle[q]
      /\ \A n \in Names : Content(n)' = Content(n) /\ IsFile(n)' = IsFile(n)
  BY <1>s, CloseFacts
<1>2. Shape'
  BY <1>s, <1>1 DEF Shape, Labels, fixed, proofs
<1>3. FilesSound' /\ \A n \in Names : SizeOf(n)' = SizeOf(n)
  <2>1. Files \cup {"disk.ext4"} \subseteq Names
    BY DEF Names
  <2>2. FilesSound'
    BY <1>s, <1>1, <2>1, FilesKept DEF fixed, proofs
  <2> QED BY <1>1, <2>2 DEF SizeOf
<1>4. Wanted(p)' = Wanted(p) /\ Part(p)' = Part(p) /\ Part(p) \in Names
  BY <1>s, PlacesOf DEF Wanted, Part, Names, Files
<1>5. pc'[p] = label
  BY <1>s DEF Shape
<1>6. Knows(p)'
  BY <1>s, <1>3, <1>4, <1>5 DEF Knows, Fetching, fixed, proofs
<1>7. EntriesTrue(p)'
  <2>1. SizeOf("Image")' = SizeOf("Image")
    BY <1>3 DEF Names, Files
  <2> QED BY <1>s, <1>5, <2>1 DEF EntriesTrue, Fetching, fixed, proofs
<1>8. \A m, n \in Names : name'[m] = name'[n] /\ name'[m] # None => m = n
  BY <1>s DEF OneAtATime
<1>9. \A q \in Processes \ {p} : pc'[q] = pc[q]
  BY <1>s DEF Shape
<1> QED BY <1>s, <1>1, <1>2, <1>3, <1>5, <1>6, <1>7, <1>8, <1>9, OneStep

\* An artifact that is in place as it is.
LEMMA LandedStep ==
  ASSUME Inductive, apart, NEW p \in Processes, NEW sz \in 0..Chunks, Landed(p, sz),
         pc[p] \in Fetching \cup {"ask"}, handle[p] = None,
         Wanted(p) \in named => sz = SizeOf(Local[Wanted(p)]),
         UNCHANGED <<fixed, disk, proofs, size, handle, appends>>
  PROVE  Inductive'
<1>s. Shape /\ OneAtATime /\ FilesSound /\ Knows(p) /\ EntriesTrue(p) /\ Busy(p)
  BY DEF Inductive, Busy, Fetching
<1>1. /\ pc' \in [Processes -> Labels] /\ at' \in [Processes -> 1..2]
      /\ entries' \in [Processes -> [Artifacts -> 0..Chunks]]
      /\ \A q \in Processes \ {p} : pc'[q] = pc[q]
      /\ entries'[p][Wanted(p)] = sz
      /\ \A a \in Artifacts : a # Wanted(p) => entries'[p][a] = entries[p][a]
      /\ (at[p] = 1 /\ at'[p] = 2 /\ pc'[p] = "ask") \/ (at[p] = 2 /\ at'[p] = 2 /\ pc'[p] = "record")
  BY <1>s, LandedFacts
<1>2. Shape'
  BY <1>s, <1>1 DEF Shape, fixed, proofs, disk
<1>3. FilesSound' /\ \A n \in Names : SizeOf(n)' = SizeOf(n)
  BY <1>s, SameFiles DEF fixed, proofs, disk
<1>4. Knows(p)'
  BY <1>1 DEF Knows, Fetching
<1>5. EntriesTrue(p)'
  <2>1. SizeOf("Image")' = SizeOf("Image") /\ SizeOf("modules.tar.xz")' = SizeOf("modules.tar.xz")
    BY <1>3 DEF Names, Files
  <2>2. "kernel" \in Artifacts /\ "modules" \in Artifacts /\ named' = named
    BY ArtifactFacts DEF fixed, proofs
  <2>3. CASE at[p] = 1
    <3>1. Wanted(p) = "kernel" /\ Local[Wanted(p)] = "Image" /\ pc'[p] = "ask"
      BY <1>s, <1>1, <2>3, PlacesOf
    <3> QED BY <1>1, <2>1, <2>2, <3>1 DEF EntriesTrue, Fetching
  <2>4. CASE at[p] = 2
    <3>1. Wanted(p) = "modules" /\ Local[Wanted(p)] = "modules.tar.xz" /\ pc'[p] = "record"
      BY <1>s, <1>1, <2>4, PlacesOf
    <3>2. "kernel" \in named => entries[p]["kernel"] = SizeOf("Image")
      BY <1>s, <2>4 DEF EntriesTrue
    <3> QED BY <1>1, <2>1, <2>2, <3>1, <3>2 DEF EntriesTrue, Fetching
  <2> QED BY <1>1, <2>3, <2>4
<1>6. \A m, n \in Names : name'[m] = name'[n] /\ name'[m] # None => m = n
  BY <1>s DEF OneAtATime, disk
<1> QED BY <1>s, <1>1, <1>2, <1>3, <1>4, <1>5, <1>6, OneStep

-----------------------------------------------------------------------------
(* The actions that change no file.                                        *)

\* What is known of the command that takes a step.
LEMMA AtWork ==
  ASSUME Inductive, apart, NEW p \in Processes
  PROVE  /\ Shape /\ OneAtATime /\ FilesSound /\ Knows(p) /\ EntriesTrue(p)
         /\ pc[p] \in Labels
         /\ pc[p] \notin {"body", "unpack", "mkfs"} => handle[p] = None
         /\ Wanted(p) \in Artifacts /\ Part(p) \in Names /\ Target[Wanted(p)] \in Files
         /\ Local[Wanted(p)] \in Files /\ Files \subseteq Names
         /\ size[p] \in 0..Chunks /\ Chunks \in Nat /\ Chunks > 0
<1>1. Shape /\ OneAtATime /\ FilesSound /\ Knows(p) /\ EntriesTrue(p)
  BY DEF Inductive
<1>2. /\ Wanted(p) \in Artifacts /\ Part(p) \in Names /\ Target[Wanted(p)] \in Files
      /\ Local[Wanted(p)] \in Files /\ Files \subseteq Names
  BY <1>1, PlacesOf, ArtifactFacts DEF Names, Files
<1>3. size[p] \in 0..Chunks /\ pc[p] \in Labels
  BY <1>1 DEF Shape
<1>4. pc[p] \notin {"body", "unpack", "mkfs"} => handle[p] = None
  BY <1>1 DEF OneAtATime
<1> QED BY <1>1, <1>2, <1>3, <1>4, FetchAssumption

LEMMA BeginStep ==
  ASSUME Inductive, apart, NEW p \in Processes, Begin(p)
  PROVE  Inductive'
<1>s. /\ Shape /\ OneAtATime /\ FilesSound /\ \A q \in Processes : ~Busy(q)
      /\ handle[p] = None
  BY AtWork DEF Begin, Busy
<1>1. /\ pc' = [pc EXCEPT ![p] = "ask"] /\ at' = [at EXCEPT ![p] = 1]
      /\ entries' = [entries EXCEPT ![p] = Nothing]
      /\ UNCHANGED <<fixed, disk, proofs, size, handle, appends>>
  BY DEF Begin, Goto
<1>2. Nothing \in [Artifacts -> 0..Chunks]
  BY FetchAssumption DEF Nothing
<1>3. Shape'
  BY <1>s, <1>1, <1>2 DEF Shape, Labels, fixed, proofs, disk
<1>4. FilesSound'
  BY <1>s, <1>1, SameFiles DEF fixed, proofs, disk
<1>5. pc'[p] = "ask" /\ at'[p] = 1 /\ \A q \in Processes \ {p} : pc'[q] = pc[q]
  BY <1>s, <1>1 DEF Shape
<1>6. Knows(p)' /\ EntriesTrue(p)'
  BY <1>5 DEF Knows, EntriesTrue, Fetching
<1>7. \A m, n \in Names : name'[m] = name'[n] /\ name'[m] # None => m = n
  BY <1>s, <1>1 DEF OneAtATime, disk
<1> QED BY <1>s, <1>1, <1>3, <1>4, <1>5, <1>6, <1>7, OneStep

LEMMA AskStep ==
  ASSUME Inductive, apart, NEW p \in Processes, Ask(p)
  PROVE  Inductive'
<1>s. /\ Shape /\ OneAtATime /\ FilesSound /\ pc[p] = "ask" /\ handle[p] = None /\ Busy(p)
      /\ Wanted(p) \in Artifacts /\ Local[Wanted(p)] \in Names
  BY AtWork DEF Ask, Busy
<1>1. UNCHANGED <<fixed, disk, proofs, size, handle, appends>>
  BY DEF Ask
<1>2. entries[p][Wanted(p)] \in 0..Chunks /\ SizeOf(Local[Wanted(p)]) \in 0..Chunks
  BY <1>s, ContentFacts DEF Shape
<1>3. CASE Wanted(p) \notin named /\ Landed(p, entries[p][Wanted(p)])
  BY <1>s, <1>1, <1>2, <1>3, LandedStep
<1>4. CASE Wanted(p) \in named /\ Landed(p, SizeOf(Local[Wanted(p)]))
  BY <1>s, <1>1, <1>2, <1>4, LandedStep
<1>5. CASE Goto(p, "raise") /\ UNCHANGED <<at, entries>>
  <2>1. pc' = [pc EXCEPT ![p] = "raise"]
    BY <1>5 DEF Goto
  <2>2. size' \in [Processes -> 0..Chunks] /\ appends' \in [Processes -> BOOLEAN]
    BY <1>s, <1>1 DEF Shape
  <2> QED BY <1>s, <1>1, <1>5, <2>1, <2>2, QuietStep DEF Fetching
<1>6. CASE Wanted(p) \in named /\ ~AlreadyProven(p) /\ Goto(p, "head") /\ UNCHANGED <<at, entries>>
  <2>1. pc' = [pc EXCEPT ![p] = "head"]
    BY <1>6 DEF Goto
  <2>2. size' \in [Processes -> 0..Chunks] /\ appends' \in [Processes -> BOOLEAN]
    BY <1>s, <1>1 DEF Shape
  <2>3. proven[Wanted(p)] = 0
    BY <1>s, <1>6 DEF AlreadyProven, FilesSound
  <2> QED BY <1>s, <1>1, <1>6, <2>1, <2>2, <2>3, QuietStep
<1> QED BY <1>3, <1>4, <1>5, <1>6 DEF Ask

LEMMA QuietActions ==
  ASSUME Inductive, apart, NEW p \in Processes,
         AskHost(p) \/ Request(p) \/ Refuse(p) \/ Unavailable(p) \/ Lack(p)
  PROVE  Inductive'
<1>s. /\ Shape /\ pc[p] \in {"head", "try", "answer", "record"} /\ handle[p] = None /\ Busy(p)
      /\ Part(p) \in Names
  BY AtWork DEF AskHost, Request, Refuse, Unavailable, Lack, Busy
<1>1. /\ UNCHANGED <<fixed, disk, proofs, at, entries, handle>>
      /\ appends' \in [Processes -> BOOLEAN]
  BY <1>s DEF AskHost, Request, Refuse, Unavailable, Lack, Shape
<1>2. SizeOf(Part(p)) \in 0..Chunks
  BY <1>s, ContentFacts
<1>3. size' \in [Processes -> 0..Chunks]
  BY <1>s, <1>2 DEF AskHost, Request, Refuse, Unavailable, Lack, Shape
<1>4. PICK label \in {"try", "answer", "raise", "fetched"} :
        /\ pc' = [pc EXCEPT ![p] = label]
        /\ label = "answer" => size'[p] = SizeOf(Part(p))
        /\ label = "fetched" => IsFile(Target[Wanted(p)])
        /\ label = "try" => pc[p] # "record"
        /\ label = "answer" => pc[p] # "record"
        /\ label = "fetched" => pc[p] # "record"
  <2>1. CASE AskHost(p)
    BY <1>s, <2>1 DEF AskHost, Goto
  <2>2. CASE Request(p)
    BY <1>s, <2>2 DEF Request, Goto, Shape
  <2>3. CASE Refuse(p) \/ Lack(p)
    BY <1>s, <2>3 DEF Refuse, Lack, Goto
  <2>4. CASE Unavailable(p)
    <3>1. NextTry(p) /\ pc[p] = "answer"
      BY <2>4 DEF Unavailable
    <3> QED BY <1>s, <3>1, NextTryFacts
  <2> QED BY <2>1, <2>2, <2>3, <2>4
<1>5. label \in Fetching => pc[p] \in Fetching
  BY <1>s, <1>4 DEF Fetching
<1> QED BY <1>s, <1>1, <1>3, <1>4, <1>5, QuietStep

LEMMA RecordStep ==
  ASSUME Inductive, apart, NEW p \in Processes, Record(p)
  PROVE  /\ Inductive'
         /\ \A a \in named : proven'[a] = SizeOf(Local[a])
<1>s. /\ Shape /\ OneAtATime /\ FilesSound /\ EntriesTrue(p) /\ pc[p] = "record"
      /\ handle[p] = None /\ Busy(p)
  BY AtWork DEF Record, Busy
<1>1. /\ proven' = [a \in Artifacts |-> IF a \in named THEN entries[p][a] ELSE proven[a]]
      /\ above' = 0 /\ MaxKept \in Nat \ {0}
      /\ pc' = [pc EXCEPT ![p] = "bake"] /\ UNCHANGED <<fixed, disk, at, size, handle, appends, entries>>
  BY FetchAssumption DEF Record, Goto
<1>2. named \subseteq {"kernel", "modules"} /\ named \subseteq Artifacts
  BY <1>s, ArtifactFacts DEF Shape
<1>3. \A a \in named : proven'[a] = SizeOf(Local[a])
  BY <1>s, <1>1, <1>2, ArtifactFacts DEF EntriesTrue
<1>4. Shape'
  BY <1>s, <1>1 DEF Shape, Labels, fixed, proofs, disk
<1>5. \A n \in Names : Content(n)' = Content(n) /\ SizeOf(n)' = SizeOf(n) /\ IsFile(n)' = IsFile(n)
  BY <1>1 DEF Content, SizeOf, IsFile, disk
<1>6. FilesSound'
  <2>1. /\ "Image" \in Names /\ "disk.ext4" \in Names /\ Files \subseteq Names
        /\ \A a \in named : Local[a] \in Names
    BY <1>2, ArtifactFacts DEF Names, Files
  <2>2. \A n \in Names : Complete(n)' <=> Complete(n)
    BY <1>5 DEF Complete
  <2>3. \A n \in Names : SizeOf(n) # 0 => IsFile(n)
    BY <1>s, ContentFacts
  <2> QED BY <1>s, <1>1, <1>3, <1>5, <2>1, <2>2, <2>3 DEF FilesSound, fixed, proofs
<1>7. pc'[p] = "bake" /\ \A q \in Processes \ {p} : pc'[q] = pc[q]
  BY <1>s, <1>1 DEF Shape
<1>8. Knows(p)' /\ EntriesTrue(p)'
  BY <1>7 DEF Knows, EntriesTrue, Fetching
<1>9. \A m, n \in Names : name'[m] = name'[n] /\ name'[m] # None => m = n
  BY <1>s, <1>1 DEF OneAtATime, disk
<1>10. Inductive'
  BY <1>s, <1>1, <1>4, <1>6, <1>7, <1>8, <1>9, OneStep
<1> QED BY <1>3, <1>10

\* The act of a failed pull goes on top; a proof that leaves the record is gone.
LEMMA RaiseStep ==
  ASSUME Inductive, apart, NEW p \in Processes, Raise(p)
  PROVE  /\ Inductive'
         /\ proven' = proven \/ (above = MaxKept - 1 /\ above' = MaxKept)
<1>s. /\ Shape /\ OneAtATime /\ FilesSound /\ pc[p] = "raise" /\ handle[p] = None /\ Busy(p)
      /\ above \in 0..MaxKept /\ MaxKept \in Nat \ {0}
  BY AtWork, FetchAssumption DEF Raise, Busy, Shape
<1>1. /\ above' = above \/ (above < MaxKept /\ above' = above + 1)
      /\ proven' = IF above' = MaxKept THEN Nothing ELSE proven
      /\ pc' = [pc EXCEPT ![p] = "failed"] /\ UNCHANGED <<fixed, disk, at, size, handle, appends, entries>>
  BY DEF Raise, Goto
<1>2. Nothing \in [Artifacts -> 0..Chunks] /\ \A a \in Artifacts : Nothing[a] = 0
  BY FetchAssumption DEF Nothing
<1>3. proven' = proven \/ (above = MaxKept - 1 /\ above' = MaxKept)
  <2>1. above = MaxKept => proven = Nothing
    BY <1>s DEF FilesSound
  <2> QED BY <1>s, <1>1, <2>1
<1>4. /\ proven' = proven \/ proven' = Nothing
      /\ above' \in 0..MaxKept /\ (above' = MaxKept => proven' = Nothing)
  BY <1>s, <1>1
<1>5. Shape'
  BY <1>s, <1>1, <1>2, <1>4 DEF Shape, Labels, fixed, disk
<1>6. \A n \in Names : Content(n)' = Content(n) /\ SizeOf(n)' = SizeOf(n) /\ IsFile(n)' = IsFile(n)
  BY <1>1 DEF Content, SizeOf, IsFile, disk
<1>7. FilesSound'
  <2>1. /\ "Image" \in Names /\ "disk.ext4" \in Names /\ Files \subseteq Names
        /\ named \subseteq Artifacts /\ \A a \in named : Local[a] \in Names
    BY <1>s, ArtifactFacts DEF Names, Files, Shape
  <2>2. \A n \in Names : Complete(n)' <=> Complete(n)
    BY <1>6 DEF Complete
  <2>3. \A a \in named : proven'[a] # 0 => IsFile(Local[a]) /\ SizeOf(Local[a]) = proven'[a]
    BY <1>s, <1>2, <1>4, <2>1 DEF FilesSound
  <2> QED BY <1>s, <1>1, <1>4, <1>6, <2>1, <2>2, <2>3 DEF FilesSound, fixed
<1>8. pc'[p] = "failed" /\ \A q \in Processes \ {p} : pc'[q] = pc[q]
  BY <1>s, <1>1 DEF Shape
<1>9. Knows(p)' /\ EntriesTrue(p)'
  BY <1>8 DEF Knows, EntriesTrue, Fetching
<1>10. \A m, n \in Names : name'[m] = name'[n] /\ name'[m] # None => m = n
  BY <1>s, <1>1 DEF OneAtATime, disk
<1>11. Inductive'
  BY <1>s, <1>1, <1>5, <1>7, <1>8, <1>9, <1>10, OneStep
<1> QED BY <1>3, <1>11

LEMMA BakeStep ==
  ASSUME Inductive, apart, NEW p \in Processes, Bake(p)
  PROVE  Inductive'
<1>s. /\ Shape /\ OneAtATime /\ FilesSound /\ pc[p] = "bake" /\ handle[p] = None /\ Busy(p)
  BY AtWork DEF Bake, Busy
<1>1. UNCHANGED <<fixed, disk, proofs, at, size, appends, entries>>
  BY DEF Bake
<1>2. CASE IsFile("disk.ext4")
  <2>1. pc' = [pc EXCEPT ![p] = "done"] /\ handle' = handle
    BY <1>2 DEF Bake, Goto
  <2>2. size' \in [Processes -> 0..Chunks] /\ appends' \in [Processes -> BOOLEAN]
    BY <1>s, <1>1 DEF Shape
  <2> QED BY <1>s, <1>1, <2>1, <2>2, QuietStep DEF Fetching
<1>3. CASE ~IsFile("disk.ext4")
  <2>1. handle' = [handle EXCEPT ![p] = FreshInode] /\ pc' = [pc EXCEPT ![p] = "mkfs"]
    BY <1>3 DEF Bake, Goto
  <2>2. \A q \in Processes : handle[q] = None
    BY <1>s, OthersAreIdle
  <2>3. FreshInode \in Inodes /\ \A n \in Names : name[n] # FreshInode
    BY <1>s, <2>2, FreshIsFree
  <2>4. Shape'
    BY <1>s, <1>1, <2>1, <2>3 DEF Shape, Labels, fixed, proofs, disk
  <2>5. FilesSound'
    BY <1>s, <1>1, SameFiles DEF fixed, proofs, disk
  <2>6. /\ pc'[p] = "mkfs" /\ handle'[p] = FreshInode /\ handle'[p] # None
        /\ \A q \in Processes \ {p} : pc'[q] = pc[q] /\ handle'[q] = handle[q]
    BY <1>s, <2>1, <2>3, NoInodeIsNone DEF Shape
  <2>7. Knows(p)' /\ EntriesTrue(p)'
    BY <1>1, <2>3, <2>6 DEF Knows, EntriesTrue, Fetching, disk
  <2>8. \A m, n \in Names : name'[m] = name'[n] /\ name'[m] # None => m = n
    BY <1>s, <1>1 DEF OneAtATime, disk
  <2> QED BY <1>s, <2>4, <2>5, <2>6, <2>7, <2>8, OneStep
<1> QED BY <1>2, <1>3

-----------------------------------------------------------------------------
(* The actions that change files.                                          *)

\* A name given up: its file is gone, the others stay.
LEMMA RemoveFacts ==
  ASSUME Shape, NEW part \in Names, NEW hh, NEW held \in [Inodes -> Beginnings],
         \A n \in Names : n # part /\ name[n] # None => held[name[n]] = data[name[n]],
         name' \in [Names -> Inodes \cup {None}], name'[part] = None,
         \A n \in Names : n # part => name'[n] = name[n],
         data' = Kept(name', hh, held)
  PROVE  /\ data' \in [Inodes -> Beginnings]
         /\ \A n \in Names : n # part => Content(n)' = Content(n) /\ IsFile(n)' = IsFile(n)
         /\ OneAtATime => \A m, n \in Names : name'[m] = name'[n] /\ name'[m] # None => m = n
<1>1. data' \in [Inodes -> Beginnings] /\ \A n \in Names : name'[n] # None => data'[name'[n]] = held[name'[n]]
  BY KeptFacts
<1>2. \A n \in Names : n # part => Content(n)' = Content(n) /\ IsFile(n)' = IsFile(n)
  BY <1>1 DEF Content, IsFile
<1>3. OneAtATime => \A m, n \in Names : name'[m] = name'[n] /\ name'[m] # None => m = n
  BY DEF OneAtATime
<1> QED BY <1>1, <1>2, <1>3

\* `os.replace`: the file is under its new name, the others stay.
LEMMA RenameFacts ==
  ASSUME Shape, OneAtATime, NEW from \in Names, NEW to \in Names, from # to, IsFile(from), NEW hh,
         name' \in [Names -> Inodes \cup {None}], name'[to] = name[from], name'[from] = None,
         \A n \in Names : n # from /\ n # to => name'[n] = name[n],
         data' = Kept(name', hh, data)
  PROVE  /\ data' \in [Inodes -> Beginnings]
         /\ Content(to)' = Content(from) /\ IsFile(to)'
         /\ \A n \in Names : n # from /\ n # to => Content(n)' = Content(n) /\ IsFile(n)' = IsFile(n)
         /\ \A m, n \in Names : name'[m] = name'[n] /\ name'[m] # None => m = n
<1>1. data' \in [Inodes -> Beginnings] /\ \A n \in Names : name'[n] # None => data'[name'[n]] = data[name'[n]]
  BY KeptFacts DEF Shape
<1>2. name[from] # None
  BY DEF IsFile
<1>3. \A n \in Names : n # from /\ n # to => Content(n)' = Content(n) /\ IsFile(n)' = IsFile(n)
  BY <1>1 DEF Content, IsFile
<1>4. Content(to)' = Content(from) /\ IsFile(to)'
  BY <1>1, <1>2 DEF Content, IsFile
<1>5. \A m, n \in Names : name'[m] = name'[n] /\ name'[m] # None => m = n
  BY <1>2 DEF OneAtATime
<1> QED BY <1>1, <1>3, <1>4, <1>5

\* The inode a part is written to is no other file's.
LEMMA InodeForPart ==
  ASSUME Shape, OneAtATime, NEW p \in Processes, \A q \in Processes : handle[q] = None,
         NEW part \in Names
  PROVE  LET inode == IF IsFile(part) THEN name[part] ELSE FreshInode
         IN  inode \in Inodes /\ \A n \in Names : n # part => name[n] # inode
<1>1. CASE IsFile(part)
  BY <1>1 DEF IsFile, Shape, OneAtATime
<1>2. CASE ~IsFile(part)
  BY <1>2, FreshIsFree
<1> QED BY <1>1, <1>2

\* A part opened, or made, and emptied unless there is an offset to continue it from.
LEMMA OpenFacts ==
  ASSUME Shape, OneAtATime, NEW p \in Processes, \A q \in Processes : handle[q] = None,
         NEW part \in Names, NEW inode, NEW offset \in Nat,
         inode = IF IsFile(part) THEN name[part] ELSE FreshInode,
         name' \in [Names -> Inodes \cup {None}], name'[part] = inode,
         \A n \in Names : n # part => name'[n] = name[n],
         data' = IF offset > 0 THEN data ELSE [data EXCEPT ![inode] = <<>>],
         offset > 0 => IsFile(part)
  PROVE  /\ inode \in Inodes /\ data' \in [Inodes -> Beginnings]
         /\ Content(part)' = IF offset > 0 THEN Content(part) ELSE <<>>
         /\ \A n \in Names : n # part => Content(n)' = Content(n) /\ IsFile(n)' = IsFile(n)
         /\ \A m, n \in Names : name'[m] = name'[n] /\ name'[m] # None => m = n
<1>1. inode \in Inodes /\ \A n \in Names : n # part => name[n] # inode
  BY InodeForPart
<1>2. inode # None
  BY <1>1, NoInodeIsNone
<1>3. data' \in [Inodes -> Beginnings]
  BY <1>1, EndsOfBeginnings DEF Shape
<1>4. \A n \in Names : n # part /\ name[n] # None => data'[name[n]] = data[name[n]]
  BY <1>1 DEF Shape
<1>5. \A n \in Names : n # part => Content(n)' = Content(n) /\ IsFile(n)' = IsFile(n)
  BY <1>4 DEF Content, IsFile
<1>6. CASE offset > 0
  BY <1>1, <1>2, <1>3, <1>5, <1>6 DEF Content, IsFile, OneAtATime
<1>7. CASE ~(offset > 0)
  <2>1. data'[inode] = <<>>
    BY <1>1, <1>7 DEF Shape
  <2> QED BY <1>1, <1>2, <1>3, <1>5, <1>7, <2>1 DEF Content, OneAtATime
<1> QED BY <1>6, <1>7

\* A step after which the files under their own names are what they were.
LEMMA PartsStep ==
  ASSUME Inductive, apart, NEW p \in Processes, pc[p] \in Fetching,
         UNCHANGED <<fixed, proofs, at, entries>>,
         name' \in [Names -> Inodes \cup {None}], data' \in [Inodes -> Beginnings],
         handle' \in [Processes -> Inodes \cup {None}], size' \in [Processes -> 0..Chunks],
         appends' \in [Processes -> BOOLEAN],
         \A n \in Files \cup {"disk.ext4"} : Content(n)' = Content(n) /\ IsFile(n)' = IsFile(n),
         \A m, n \in Names : name'[m] = name'[n] /\ name'[m] # None => m = n,
         NEW label \in {"try", "raise", "failed", "body", "unpack", "place"},
         pc' = [pc EXCEPT ![p] = label],
         handle'[p] # None <=> label \in {"body", "unpack"},
         \A q \in Processes \ {p} : handle'[q] = handle[q],
         label = "body" => handle'[p] = name'[Part(p)] /\ size'[p] = SizeOf(Part(p))',
         label \in {"unpack", "place"} => Wanted(p) = "kernel" /\ IsFile("Image.gz"),
         label = "unpack" => handle'[p] = name'["Image.part"],
         label = "place" /\ gzipped => Content("Image.part")' \in {<<>>, Whole},
         label = "place" /\ lengths => SizeOf("Image.part")' = Chunks
  PROVE  Inductive'
<1>s. Shape /\ OneAtATime /\ FilesSound /\ Knows(p) /\ EntriesTrue(p) /\ Busy(p)
  BY AtWork DEF Busy, Fetching
<1>1. Shape'
  BY <1>s DEF Shape, Labels, fixed, proofs
<1>2. FilesSound' /\ \A n \in Files : SizeOf(n)' = SizeOf(n)
  BY <1>s, FilesKept DEF fixed, proofs
<1>3. pc'[p] = label /\ \A q \in Processes \ {p} : pc'[q] = pc[q]
  BY <1>s DEF Shape
<1>4. Wanted(p)' = Wanted(p) /\ Part(p)' = Part(p)
  BY DEF Wanted, Part
<1>5. IsFile("Image.gz")' = IsFile("Image.gz") /\ SizeOf("Image")' = SizeOf("Image")
  BY <1>2 DEF Files
<1>6. Wanted(p) \in named /\ proven[Wanted(p)] = 0
  BY <1>s DEF Knows
<1>7. Knows(p)'
  BY <1>3, <1>4, <1>5, <1>6 DEF Knows, Fetching, fixed, proofs
<1>8. EntriesTrue(p)'
  BY <1>s, <1>3, <1>5 DEF EntriesTrue, Fetching, fixed, proofs
<1> QED BY <1>s, <1>1, <1>2, <1>3, <1>7, <1>8, OneStep

LEMMA RangeRefusedStep ==
  ASSUME Inductive, apart, NEW p \in Processes, RangeRefused(p)
  PROVE  Inductive'
<1>s. /\ Shape /\ OneAtATime /\ Knows(p) /\ pc[p] = "answer" /\ handle[p] = None /\ Busy(p)
      /\ Part(p) \in Names /\ pc[p] \in Fetching
  BY AtWork DEF RangeRefused, Busy, Fetching
<1>1. /\ UNCHANGED <<fixed, proofs, at, size, handle, appends, entries>>
      /\ size' \in [Processes -> 0..Chunks] /\ appends' \in [Processes -> BOOLEAN]
      /\ handle' \in [Processes -> Inodes \cup {None}]
  BY <1>s DEF RangeRefused, Shape
<1>2. CASE lengths /\ size[p] = Chunks
  <2>1. pc' = [pc EXCEPT ![p] = "publish"] /\ UNCHANGED disk
    BY <1>2 DEF RangeRefused, Goto
  <2>2. SizeOf(Part(p)) = Chunks
    BY <1>s, <1>2 DEF Knows
  <2> QED BY <1>s, <1>1, <2>1, <2>2, QuietStep
<1>3. CASE ~(lengths /\ size[p] = Chunks)
  <2>1. /\ name' = [name EXCEPT ![Part(p)] = None] /\ data' = Kept(name', handle, data)
        /\ NextTry(p)
    BY <1>3 DEF RangeRefused
  <2>2. /\ name' \in [Names -> Inodes \cup {None}] /\ name'[Part(p)] = None
        /\ \A n \in Names : n # Part(p) => name'[n] = name[n]
    BY <1>s, <2>1 DEF Shape
  <2>3. data \in [Inodes -> Beginnings] /\ data' = Kept(name', handle, data)
    BY <1>s, <2>1 DEF Shape
  <2>4. /\ data' \in [Inodes -> Beginnings]
        /\ \A n \in Names : n # Part(p) => Content(n)' = Content(n) /\ IsFile(n)' = IsFile(n)
        /\ \A m, n \in Names : name'[m] = name'[n] /\ name'[m] # None => m = n
    <3> HIDE DEF Part
    <3> QED BY <1>s, <2>2, <2>3, RemoveFacts
  <2>5. \A n \in Files \cup {"disk.ext4"} : n # Part(p) /\ n \in Names
    BY <1>s, PlacesOf DEF Names, Files
  <2>6. PICK label \in {"try", "raise"} : pc' = [pc EXCEPT ![p] = label]
    BY <1>s, <2>1, NextTryFacts
  <2> QED BY <1>s, <1>1, <2>2, <2>4, <2>5, <2>6, PartsStep
<1> QED BY <1>2, <1>3

LEMMA OpenPartStep ==
  ASSUME Inductive, apart, NEW p \in Processes, Resume(p) \/ SendAll(p)
  PROVE  Inductive'
<1>s. /\ Shape /\ OneAtATime /\ Knows(p) /\ pc[p] = "answer" /\ handle[p] = None /\ Busy(p)
      /\ Part(p) \in Names /\ pc[p] \in Fetching /\ size[p] \in 0..Chunks /\ Chunks \in Nat
  BY AtWork DEF Resume, SendAll, Busy, Fetching
<1>1. PICK offset \in 0..Chunks : OpenPart(p, offset) /\ (offset = 0 \/ offset = SizeOf(Part(p)))
  BY <1>s DEF Resume, SendAll, Knows
<1> DEFINE inode == IF IsFile(Part(p)) THEN name[Part(p)] ELSE FreshInode
<1>2. /\ name' = [name EXCEPT ![Part(p)] = inode]
      /\ data' = IF offset > 0 THEN data ELSE [data EXCEPT ![inode] = <<>>]
      /\ handle' = [handle EXCEPT ![p] = inode] /\ size' = [size EXCEPT ![p] = offset]
      /\ appends' = [appends EXCEPT ![p] = offset > 0] /\ pc' = [pc EXCEPT ![p] = "body"]
      /\ UNCHANGED <<fixed, proofs, at, entries>>
  BY <1>1 DEF OpenPart, Goto
<1>3. \A q \in Processes : handle[q] = None
  BY <1>s, OthersAreIdle
<1>4. offset > 0 => IsFile(Part(p))
  BY <1>s, <1>1, ContentFacts
<1>5. PICK part \in Names : part = Part(p) /\ part = Part(p)'
  BY <1>s, <1>2 DEF Part, Wanted
<1>6. inode = IF IsFile(part) THEN name[part] ELSE FreshInode
  BY <1>5
<1> HIDE DEF inode
<1>7. inode \in Inodes
  BY <1>s, <1>3, <1>6, InodeForPart
<1>8. /\ data' \in [Inodes -> Beginnings] /\ SizeOf(Part(p))' = offset
      /\ name' \in [Names -> Inodes \cup {None}] /\ name'[Part(p)] = inode
      /\ \A n \in Names : n # Part(p) => Content(n)' = Content(n) /\ IsFile(n)' = IsFile(n)
      /\ \A m, n \in Names : name'[m] = name'[n] /\ name'[m] # None => m = n
  <2>1. /\ name' \in [Names -> Inodes \cup {None}] /\ name'[part] = inode
        /\ \A n \in Names : n # part => name'[n] = name[n]
    BY <1>s, <1>2, <1>5, <1>7 DEF Shape
  <2>2. offset \in Nat /\ (offset > 0 => IsFile(part))
    BY <1>s, <1>4, <1>5
  <2>3. data' = IF offset > 0 THEN data ELSE [data EXCEPT ![inode] = <<>>]
    BY <1>2
  <2>4. /\ data' \in [Inodes -> Beginnings]
        /\ Content(part)' = IF offset > 0 THEN Content(part) ELSE <<>>
        /\ \A n \in Names : n # part => Content(n)' = Content(n) /\ IsFile(n)' = IsFile(n)
        /\ \A m, n \in Names : name'[m] = name'[n] /\ name'[m] # None => m = n
    BY <1>s, <1>3, <1>6, <2>1, <2>2, <2>3, OpenFacts
  <2>5. SizeOf(part)' = offset
    BY <1>1, <1>5, <2>2, <2>4, EndsOfBeginnings DEF SizeOf
  <2>6. SizeOf(Part(p))' = SizeOf(part)'
    BY <1>5 DEF SizeOf, Content
  <2> QED BY <1>5, <2>1, <2>4, <2>5, <2>6
<1>9. /\ handle' \in [Processes -> Inodes \cup {None}] /\ handle'[p] = inode /\ inode # None
      /\ \A q \in Processes \ {p} : handle'[q] = handle[q]
      /\ size' \in [Processes -> 0..Chunks] /\ size'[p] = offset
      /\ appends' \in [Processes -> BOOLEAN]
  BY <1>s, <1>2, <1>7, NoInodeIsNone DEF Shape
<1>10. \A n \in Files \cup {"disk.ext4"} : n # Part(p) /\ n \in Names
  BY <1>s, PlacesOf DEF Names, Files
<1> QED BY <1>s, <1>2, <1>8, <1>9, <1>10, PartsStep, ZenonT(60)

\* A chunk arrives at the end of the part.
LEMMA ChunkStep ==
  ASSUME Inductive, apart, NEW p \in Processes, Chunk(p)
  PROVE  Inductive'
<1>s. /\ Shape /\ OneAtATime /\ Knows(p) /\ pc[p] = "body" /\ Busy(p) /\ handle[p] # None
      /\ Part(p) \in Names /\ pc[p] \in Fetching /\ size[p] \in 0..Chunks /\ size[p] < Chunks
      /\ Chunks \in Nat
  BY AtWork DEF Chunk, Busy, Fetching, OneAtATime
<1>1. /\ data' = [data EXCEPT ![handle[p]] =
                    IF appends[p] THEN Append(@, size[p] + 1) ELSE WrittenAt(@, size[p] + 1)]
      /\ size' = [size EXCEPT ![p] = @ + 1]
      /\ UNCHANGED <<fixed, name, proofs, pc, at, handle, appends, entries>>
  BY DEF Chunk
<1>2. PICK part \in Names : part = Part(p) /\ part = Part(p)'
  BY <1>s, <1>1 DEF Part, Wanted
<1>3. /\ handle[p] = name[part] /\ IsFile(part) /\ name[part] \in Inodes
      /\ Content(part) = data[handle[p]] /\ Len(Content(part)) = size[p]
      /\ Content(part) \in Beginnings
  <2>1. handle[p] = name[part] /\ size[p] = SizeOf(part)
    BY <1>s, <1>2 DEF Knows
  <2>2. IsFile(part) /\ name[part] \in Inodes
    BY <1>s, <2>1 DEF IsFile, Shape
  <2>3. Content(part) = data[handle[p]]
    BY <2>1, <2>2 DEF Content, IsFile
  <2> QED BY <1>s, <2>1, <2>2, <2>3, ContentFacts DEF SizeOf
<1> DEFINE more == Append(Content(part), size[p] + 1)
<1>4. /\ WrittenAt(Content(part), size[p] + 1) = more
      /\ more \in Beginnings /\ Len(more) = size[p] + 1
  BY <1>s, <1>3, NextChunk
<1>5. data' = [data EXCEPT ![handle[p]] = more]
  BY <1>1, <1>3, <1>4
<1> HIDE DEF more
<1>6. /\ data' \in [Inodes -> Beginnings] /\ data'[name[part]] = more
      /\ \A n \in Names : n # part /\ name[n] # None => data'[name[n]] = data[name[n]]
  BY <1>s, <1>3, <1>4, <1>5 DEF Shape, OneAtATime
<1>7. \A n \in Names : n # part => Content(n)' = Content(n) /\ IsFile(n)' = IsFile(n)
  BY <1>1, <1>6 DEF Content, IsFile
<1>8. SizeOf(part)' = size[p] + 1
  BY <1>1, <1>3, <1>4, <1>6 DEF SizeOf, Content, IsFile
<1>9. SizeOf(Part(p))' = SizeOf(part)'
  BY <1>2 DEF SizeOf, Content
<1>10. /\ size' \in [Processes -> 0..Chunks] /\ size'[p] = size[p] + 1
       /\ pc' = [pc EXCEPT ![p] = "body"]
  BY <1>s, <1>1 DEF Shape
<1>11. \A n \in Files \cup {"disk.ext4"} : n # part /\ n \in Names
  BY <1>s, <1>2, PlacesOf DEF Names, Files
<1>12. /\ name' \in [Names -> Inodes \cup {None}] /\ handle' \in [Processes -> Inodes \cup {None}]
       /\ appends' \in [Processes -> BOOLEAN]
       /\ \A m, n \in Names : name'[m] = name'[n] /\ name'[m] # None => m = n
  BY <1>s, <1>1 DEF Shape, OneAtATime
<1>13. handle'[p] = name'[Part(p)] /\ handle'[p] # None
  BY <1>s, <1>1, <1>2, <1>3
<1> QED BY <1>s, <1>1, <1>6, <1>7, <1>8, <1>9, <1>10, <1>11, <1>12, <1>13, PartsStep

\* A transfer that ends, however it does, and a command that dies.
LEMMA EndingStep ==
  ASSUME Inductive, apart, NEW p \in Processes, Break(p) \/ End(p) \/ Die(p)
  PROVE  Inductive'
<1>s. /\ Shape /\ Knows(p) /\ Busy(p) /\ (~Die(p) => pc[p] = "body")
  BY AtWork DEF Break, End, Die, Busy
<1>1. Close(p) /\ UNCHANGED <<fixed, name, proofs, at, size, appends, entries>>
  BY DEF Break, End, Die
<1>2. CASE Die(p)
  <2>1. pc' = [pc EXCEPT ![p] = "failed"]
    BY <1>2 DEF Die, Goto
  <2> QED BY <1>s, <1>1, <2>1, ClosingStep
<1>3. CASE ~Die(p) /\ NextTry(p)
  <2>1. PICK label \in {"try", "raise"} : pc' = [pc EXCEPT ![p] = label]
    BY <1>s, <1>3, NextTryFacts
  <2>2. pc[p] \in Fetching
    BY <1>s, <1>3 DEF Fetching
  <2> QED BY <1>s, <1>1, <2>1, <2>2, ClosingStep
<1>4. CASE ~Die(p) /\ ~NextTry(p)
  <2>1. ~(lengths /\ size[p] # Chunks) /\ pc' = [pc EXCEPT ![p] = "publish"]
    BY <1>4 DEF Break, End, Goto
  <2>2. pc[p] \in Fetching /\ (lengths => SizeOf(Part(p)) = Chunks)
    BY <1>s, <1>4, <2>1 DEF Fetching, Knows
  <2> QED BY <1>s, <1>1, <2>1, <2>2, ClosingStep
<1> QED BY <1>2, <1>3, <1>4

\* The part becomes the file: whole, when the host says how long it is.
LEMMA PublishStep ==
  ASSUME Inductive, apart, NEW p \in Processes, Publish(p)
  PROVE  Inductive'
<1>s. /\ Shape /\ OneAtATime /\ FilesSound /\ Knows(p) /\ EntriesTrue(p) /\ pc[p] = "publish"
      /\ Busy(p) /\ handle[p] = None /\ Part(p) \in Names /\ Target[Wanted(p)] \in Files
      /\ Files \subseteq Names /\ pc[p] \in Fetching
  BY AtWork DEF Publish, Busy, Fetching
<1>1. /\ UNCHANGED <<fixed, proofs, at, size, handle, appends, entries>>
      /\ size' \in [Processes -> 0..Chunks] /\ appends' \in [Processes -> BOOLEAN]
  BY <1>s DEF Publish, Shape
<1>2. CASE ~IsFile(Part(p))
  <2>1. UNCHANGED disk /\ NextTry(p)
    BY <1>2 DEF Publish
  <2>2. PICK label \in {"try", "raise"} : pc' = [pc EXCEPT ![p] = label]
    BY <1>s, <2>1, NextTryFacts
  <2> QED BY <1>s, <1>1, <2>1, <2>2, QuietStep
<1>3. CASE IsFile(Part(p))
  <2>1. /\ name' = [name EXCEPT ![Target[Wanted(p)]] = name[Part(p)], ![Part(p)] = None]
        /\ data' = Kept(name', handle, data) /\ pc' = [pc EXCEPT ![p] = "fetched"]
    BY <1>3 DEF Publish, Goto
  <2>2. PICK part \in Names, target \in Files :
          /\ part = Part(p) /\ target = Target[Wanted(p)] /\ target = Target[Wanted(p)]'
          /\ part # target /\ target \in Names /\ part \notin Files \cup {"disk.ext4"}
          /\ target # "Image" /\ target # "disk.ext4"
          /\ Wanted(p) # "modules" => target # "modules.tar.xz"
    <3>1. Wanted(p)' = Wanted(p)
      BY <1>1 DEF Wanted
    <3>2. /\ Part(p) # Target[Wanted(p)] /\ Part(p) \notin Files \cup {"disk.ext4"}
          /\ Target[Wanted(p)] # "Image" /\ Target[Wanted(p)] # "disk.ext4"
          /\ Wanted(p) # "modules" => Target[Wanted(p)] # "modules.tar.xz"
      BY <1>s, PlacesOf DEF Files
    <3> QED BY <1>s, <3>1, <3>2
  <2>3. /\ name' \in [Names -> Inodes \cup {None}] /\ name'[target] = name[part] /\ name'[part] = None
        /\ \A n \in Names : n # part /\ n # target => name'[n] = name[n]
    BY <1>s, <2>1, <2>2 DEF Shape
  <2>4. IsFile(part) /\ data' = Kept(name', handle, data)
    BY <1>3, <2>1, <2>2
  <2>5. /\ data' \in [Inodes -> Beginnings]
        /\ Content(target)' = Content(part) /\ IsFile(target)'
        /\ \A n \in Names : n # part /\ n # target => Content(n)' = Content(n) /\ IsFile(n)' = IsFile(n)
        /\ \A m, n \in Names : name'[m] = name'[n] /\ name'[m] # None => m = n
    BY <1>s, <2>2, <2>3, <2>4, RenameFacts
  <2>6. Shape'
    BY <1>s, <1>1, <2>1, <2>3, <2>5 DEF Shape, Labels, fixed, proofs
  <2>7. \A f \in (Files \cup {"disk.ext4"}) \ {target} :
            Content(f)' = Content(f) /\ IsFile(f)' = IsFile(f) /\ SizeOf(f)' = SizeOf(f)
    BY <1>s, <2>2, <2>5 DEF Names, SizeOf
  <2>8. lengths => Content(target)' = Whole
    BY <1>s, <2>2, <2>5, ContentFacts DEF Knows
  <2>9. Wanted(p) \in named /\ proven[Wanted(p)] = 0
    BY <1>s DEF Knows
  <2>10. FilesSound'
    <3>1. (gzipped' => Content("Image")' \in {<<>>, Whole}) /\ Complete("disk.ext4")'
      BY <1>s, <1>1, <2>2, <2>7 DEF fixed, FilesSound, Complete, Files
    <3>2. lengths' => \A f \in Files : Complete(f)'
      BY <1>s, <1>1, <2>7, <2>8 DEF FilesSound, Complete, fixed, proofs
    <3>3. ASSUME NEW a \in named, proven[a] # 0
          PROVE  IsFile(Local[a])' /\ SizeOf(Local[a])' = proven[a]
      <4>1. a \in {"kernel", "modules"} /\ Wanted(p) \in {"kernel", "modules"} /\ a # Wanted(p)
        BY <1>s, <2>9, <3>3, ArtifactFacts DEF Shape
      <4>2. Local[a] \in Files \ {target}
        BY <2>2, <4>1, ArtifactFacts DEF Files
      <4> QED BY <1>s, <2>7, <3>3, <4>2 DEF FilesSound
    <3> QED BY <1>s, <1>1, <3>1, <3>2, <3>3 DEF FilesSound, fixed, proofs
  <2>11. pc'[p] = "fetched" /\ \A q \in Processes \ {p} : pc'[q] = pc[q]
    BY <1>s, <2>1 DEF Shape
  <2>12. Wanted(p)' = Wanted(p)
    BY <1>1 DEF Wanted
  <2>13. IsFile(Target[Wanted(p)])'
    BY <2>2, <2>5 DEF IsFile
  <2>14. Knows(p)'
    BY <1>1, <2>9, <2>11, <2>12, <2>13 DEF Knows, Fetching, fixed, proofs
  <2>15. EntriesTrue(p)'
    <3>1. SizeOf("Image")' = SizeOf("Image")
      BY <2>2, <2>7 DEF Files
    <3> QED BY <1>s, <1>1, <2>11, <3>1 DEF EntriesTrue, Fetching, fixed, proofs
  <2> QED BY <1>s, <1>1, <2>5, <2>6, <2>10, <2>11, <2>14, <2>15, OneStep
<1> QED BY <1>2, <1>3

\* What is downloaded: the modules are in place, the kernel is unpacked into a part.
LEMMA FetchedStep ==
  ASSUME Inductive, apart, NEW p \in Processes, Fetched(p)
  PROVE  Inductive'
<1>s. /\ Shape /\ OneAtATime /\ Knows(p) /\ pc[p] = "fetched" /\ Busy(p) /\ handle[p] = None
      /\ Local[Wanted(p)] \in Names /\ pc[p] \in Fetching
  BY AtWork DEF Fetched, Busy, Fetching
<1>1. /\ UNCHANGED <<fixed, proofs, size, appends>>
      /\ size' \in [Processes -> 0..Chunks] /\ appends' \in [Processes -> BOOLEAN]
  BY <1>s DEF Fetched, Shape
<1>2. CASE Landed(p, SizeOf(Local[Wanted(p)])) /\ UNCHANGED <<disk, handle>>
  <2>1. SizeOf(Local[Wanted(p)]) \in 0..Chunks
    BY <1>s, ContentFacts
  <2> QED BY <1>s, <1>1, <1>2, <2>1, LandedStep
<1>3. CASE ~(Landed(p, SizeOf(Local[Wanted(p)])) /\ UNCHANGED <<disk, handle>>)
  <2> DEFINE inode == IF IsFile("Image.part") THEN name["Image.part"] ELSE FreshInode
  <2>1. /\ Wanted(p) # "modules"
        /\ name' = [name EXCEPT !["Image.part"] = inode]
        /\ data' = [data EXCEPT ![inode] = <<>>]
        /\ handle' = [handle EXCEPT ![p] = inode]
        /\ pc' = [pc EXCEPT ![p] = "unpack"] /\ UNCHANGED <<at, entries>>
    BY <1>3 DEF Fetched, Goto
  <2>2. Wanted(p) = "kernel" /\ IsFile("Image.gz")
    BY <1>s, <2>1, PlacesOf DEF Knows
  <2>3. \A q \in Processes : handle[q] = None
    BY <1>s, OthersAreIdle
  <2>4. "Image.part" \in Names /\ \A n \in Files \cup {"disk.ext4"} : n \in Names /\ n # "Image.part"
    BY DEF Names, Files
  <2>5. inode = IF IsFile("Image.part") THEN name["Image.part"] ELSE FreshInode
    OBVIOUS
  <2> HIDE DEF inode
  <2>6. inode \in Inodes
    BY <1>s, <2>3, <2>4, <2>5, InodeForPart
  <2>7. /\ name' \in [Names -> Inodes \cup {None}] /\ name'["Image.part"] = inode
        /\ \A n \in Names : n # "Image.part" => name'[n] = name[n]
    BY <1>s, <2>1, <2>4, <2>6 DEF Shape
  <2>8. /\ data' \in [Inodes -> Beginnings]
        /\ \A n \in Names : n # "Image.part" => Content(n)' = Content(n) /\ IsFile(n)' = IsFile(n)
        /\ \A m, n \in Names : name'[m] = name'[n] /\ name'[m] # None => m = n
    <3>1. 0 \in Nat /\ ~(0 > 0) /\ data' = IF 0 > 0 THEN data ELSE [data EXCEPT ![inode] = <<>>]
      BY <2>1
    <3> QED BY <1>s, <2>3, <2>4, <2>5, <2>7, <3>1, OpenFacts
  <2>9. /\ handle' \in [Processes -> Inodes \cup {None}] /\ handle'[p] = inode /\ inode # None
        /\ \A q \in Processes \ {p} : handle'[q] = handle[q]
    BY <1>s, <2>1, <2>6, NoInodeIsNone DEF Shape
  <2> QED BY <1>s, <1>1, <2>1, <2>2, <2>4, <2>7, <2>8, <2>9, PartsStep
<1> QED BY <1>2, <1>3

\* A whole gzip is unpacked and what is none is copied, into the part of the image.
LEMMA UnpackStep ==
  ASSUME Inductive, apart, NEW p \in Processes, Unpack(p)
  PROVE  Inductive'
<1> DEFINE raw == Content("Image.gz")
           good == ~gzipped \/ raw = Whole \/ raw = <<>>
           kept == good \/ IsPrefix(raw, Whole)
           held == IF kept THEN [data EXCEPT ![handle[p]] = raw] ELSE data
           names == IF kept THEN name ELSE [name EXCEPT !["Image.part"] = None]
<1>s. /\ Shape /\ OneAtATime /\ FilesSound /\ Knows(p) /\ pc[p] = "unpack" /\ Busy(p)
      /\ handle[p] # None /\ pc[p] \in Fetching
      /\ Wanted(p) = "kernel" /\ IsFile("Image.gz") /\ handle[p] = name["Image.part"]
  BY AtWork DEF Unpack, Busy, Fetching, OneAtATime, Knows
<1>1. /\ UNCHANGED <<fixed, proofs, at, size, appends, entries>>
      /\ size' \in [Processes -> 0..Chunks] /\ appends' \in [Processes -> BOOLEAN]
  BY <1>s DEF Unpack, Shape
<1>2. /\ name' = names /\ handle' = [handle EXCEPT ![p] = None] /\ data' = Kept(names, handle', held)
      /\ pc' = [pc EXCEPT ![p] = IF good THEN "place" ELSE IF kept THEN "failed" ELSE "raise"]
  BY DEF Unpack, Goto
<1>3. "Image.part" \in Names /\ \A n \in Files \cup {"disk.ext4"} : n \in Names /\ n # "Image.part"
  BY DEF Names, Files
<1>4. "Image.gz" \in Files /\ raw \in Beginnings
  BY <1>s, <1>3, ContentFacts DEF Files
<1>5. handle[p] \in Inodes
  BY <1>s DEF Shape
<1>6. /\ handle' \in [Processes -> Inodes \cup {None}] /\ handle'[p] = None
      /\ \A q \in Processes \ {p} : handle'[q] = handle[q]
  BY <1>s, <1>2 DEF Shape
<1>7. lengths => raw = Whole
  BY <1>s, <1>4 DEF FilesSound, Complete
<1> HIDE DEF raw
<1>8. CASE kept
  <2>1. /\ name' = name /\ held = [data EXCEPT ![handle[p]] = raw]
        /\ data' = Kept(name', handle', held)
        /\ pc' = [pc EXCEPT ![p] = IF good THEN "place" ELSE "failed"]
    BY <1>2, <1>8
  <2>2. held \in [Inodes -> Beginnings]
    BY <1>s, <1>4, <1>5, <2>1 DEF Shape
  <2> HIDE DEF held
  <2>3. name' \in [Names -> Inodes \cup {None}]
    BY <1>s, <2>1 DEF Shape
  <2>4. /\ data' \in [Inodes -> Beginnings]
        /\ \A n \in Names : name'[n] # None => data'[name'[n]] = held[name'[n]]
    <3>1. data' = Kept(name', handle', held)
      BY <2>1
    <3> QED BY <2>2, <2>3, <3>1, KeptFacts
  <2>5. Content("Image.part")' = raw
    BY <1>s, <1>3, <1>5, <2>1, <2>4 DEF Content, Shape
  <2>6. \A n \in Names : n # "Image.part" /\ name[n] # None => held[name[n]] = data[name[n]]
    BY <1>s, <1>3, <2>1, <2>3 DEF Shape, OneAtATime
  <2>7. \A n \in Files \cup {"disk.ext4"} : Content(n)' = Content(n) /\ IsFile(n)' = IsFile(n)
    BY <1>3, <2>1, <2>4, <2>6, ZenonT(60) DEF Content, IsFile
  <2>8. /\ good /\ gzipped => Content("Image.part")' \in {<<>>, Whole}
        /\ lengths => SizeOf("Image.part")' = Chunks
    BY <1>7, <2>5, EndsOfBeginnings DEF SizeOf
  <2>9. \A m, n \in Names : name'[m] = name'[n] /\ name'[m] # None => m = n
    BY <1>s, <2>1 DEF OneAtATime
  <2>10. PICK label \in {"place", "failed"} :
            pc' = [pc EXCEPT ![p] = label] /\ (label = "place" => good)
    BY <2>1
  <2> QED BY <1>s, <1>1, <1>6, <2>1, <2>3, <2>4, <2>7, <2>8, <2>9, <2>10, PartsStep
<1>9. CASE ~kept
  <2>1. /\ name' = [name EXCEPT !["Image.part"] = None] /\ data' = Kept(name', handle', data)
        /\ pc' = [pc EXCEPT ![p] = "raise"]
    BY <1>2, <1>9
  <2>2. /\ name' \in [Names -> Inodes \cup {None}] /\ name'["Image.part"] = None
        /\ \A n \in Names : n # "Image.part" => name'[n] = name[n]
        /\ data \in [Inodes -> Beginnings] /\ data' = Kept(name', handle', data)
    BY <1>s, <1>3, <2>1 DEF Shape
  <2>3. /\ data' \in [Inodes -> Beginnings]
        /\ \A n \in Names : n # "Image.part" => Content(n)' = Content(n) /\ IsFile(n)' = IsFile(n)
        /\ \A m, n \in Names : name'[m] = name'[n] /\ name'[m] # None => m = n
    BY <1>s, <1>3, <2>2, RemoveFacts
  <2> QED BY <1>s, <1>1, <1>3, <1>6, <2>1, <2>2, <2>3, PartsStep, ZenonT(60)
<1> QED BY <1>8, <1>9

\* The unpacked image is put in place.
LEMMA PlaceStep ==
  ASSUME Inductive, apart, NEW p \in Processes, Place(p)
  PROVE  Inductive'
<1>s. /\ Shape /\ OneAtATime /\ FilesSound /\ Knows(p) /\ EntriesTrue(p) /\ pc[p] = "place" /\ Busy(p)
      /\ handle[p] = None /\ Wanted(p) = "kernel" /\ IsFile("Image.gz")
  BY AtWork DEF Place, Busy, Fetching, Knows
<1>1. /\ UNCHANGED <<fixed, proofs, size, handle, appends>>
      /\ size' \in [Processes -> 0..Chunks] /\ appends' \in [Processes -> BOOLEAN]
  BY <1>s DEF Place, Shape
<1>2. CASE ~IsFile("Image.part")
  <2>1. pc' = [pc EXCEPT ![p] = "failed"] /\ UNCHANGED <<disk, at, entries>>
    BY <1>2 DEF Place, Goto
  <2> QED BY <1>s, <1>1, <2>1, QuietStep DEF Fetching
<1>3. CASE IsFile("Image.part")
  <2>1. /\ name' = [name EXCEPT !["Image"] = name["Image.part"], !["Image.part"] = None]
        /\ data' = Kept(name', handle, data) /\ Landed(p, SizeOf("Image.part"))
    BY <1>3 DEF Place
  <2>2. /\ "Image.part" \in Names /\ "Image" \in Names /\ "Image" \in Files
        /\ \A n \in Files \cup {"disk.ext4"} : n \in Names /\ n # "Image.part"
    BY DEF Names, Files
  <2>3. /\ name' \in [Names -> Inodes \cup {None}] /\ name'["Image"] = name["Image.part"]
        /\ name'["Image.part"] = None
        /\ \A n \in Names : n # "Image.part" /\ n # "Image" => name'[n] = name[n]
    BY <1>s, <2>1, <2>2 DEF Shape
  <2>4. /\ data' \in [Inodes -> Beginnings]
        /\ Content("Image")' = Content("Image.part") /\ IsFile("Image")'
        /\ \A n \in Names : n # "Image.part" /\ n # "Image" => Content(n)' = Content(n) /\ IsFile(n)' = IsFile(n)
        /\ \A m, n \in Names : name'[m] = name'[n] /\ name'[m] # None => m = n
    BY <1>s, <1>3, <2>1, <2>2, <2>3, RenameFacts, ZenonT(60)
  <2>5. SizeOf("Image.part") \in 0..Chunks
    BY <1>s, <2>2, ContentFacts
  <2>6. /\ pc' \in [Processes -> Labels] /\ at' \in [Processes -> 1..2]
        /\ entries' \in [Processes -> [Artifacts -> 0..Chunks]]
        /\ \A q \in Processes \ {p} : pc'[q] = pc[q]
        /\ entries'[p]["kernel"] = SizeOf("Image.part")
        /\ at'[p] = 2 /\ pc'[p] = "ask"
    BY <1>s, <2>1, <2>5, LandedFacts, PlacesOf
  <2>7. Shape'
    BY <1>s, <1>1, <2>3, <2>4, <2>6 DEF Shape, fixed, proofs
  <2>8. \A f \in (Files \cup {"disk.ext4"}) \ {"Image"} :
            Content(f)' = Content(f) /\ IsFile(f)' = IsFile(f) /\ SizeOf(f)' = SizeOf(f)
    BY <2>2, <2>4 DEF SizeOf
  <2>9. (gzipped => Content("Image")' \in {<<>>, Whole}) /\ (lengths => Content("Image")' = Whole)
    BY <1>s, <2>2, <2>4, ContentFacts DEF Knows
  <2>10. "kernel" \in named /\ proven["kernel"] = 0
    BY <1>s DEF Knows, Fetching
  <2>11. FilesSound'
    <3>1. Complete("disk.ext4")' /\ (lengths => \A f \in Files : Complete(f)')
      BY <1>s, <2>2, <2>8, <2>9 DEF FilesSound, Complete, Files
    <3>2. ASSUME NEW a \in named, proven[a] # 0
          PROVE  IsFile(Local[a])' /\ SizeOf(Local[a])' = proven[a]
      <4>1. a = "modules" /\ Local[a] = "modules.tar.xz"
        BY <1>s, <2>10, <3>2, ArtifactFacts DEF Shape
      <4>2. Local[a] \in Files \ {"Image"}
        BY <4>1 DEF Files
      <4> QED BY <1>s, <2>8, <3>2, <4>2 DEF FilesSound
    <3> QED BY <1>s, <1>1, <2>9, <3>1, <3>2 DEF FilesSound, fixed, proofs
  <2>12. Knows(p)'
    BY <2>6 DEF Knows, Fetching
  <2>13. SizeOf("Image")' = SizeOf("Image.part")
    BY <2>4 DEF SizeOf
  <2>14. EntriesTrue(p)'
    BY <2>6, <2>13 DEF EntriesTrue, Fetching
  <2> QED BY <1>s, <1>1, <2>4, <2>6, <2>7, <2>11, <2>12, <2>14, OneStep
<1> QED BY <1>2, <1>3

\* A disk is made of whole modules only.
LEMMA MkfsStep ==
  ASSUME Inductive, apart, NEW p \in Processes, Mkfs(p)
  PROVE  Inductive'
<1>s. /\ Shape /\ OneAtATime /\ FilesSound /\ Knows(p) /\ EntriesTrue(p) /\ pc[p] = "mkfs" /\ Busy(p)
      /\ handle[p] # None /\ handle[p] \in Inodes /\ \A n \in Names : name[n] # handle[p]
  BY AtWork DEF Mkfs, Busy, Knows, OneAtATime, Shape
<1>1. UNCHANGED <<fixed, proofs, at, size, appends, entries>>
  BY DEF Mkfs
<1>2. CASE Content("modules.tar.xz") # Whole
  <2>1. Close(p) /\ pc' = [pc EXCEPT ![p] = "failed"] /\ UNCHANGED name
    BY <1>2 DEF Mkfs, Goto
  <2> QED BY <1>s, <1>1, <2>1, ClosingStep
<1>3. CASE Content("modules.tar.xz") = Whole
  <2> DEFINE held == [data EXCEPT ![handle[p]] = Whole]
  <2>1. /\ name' = [name EXCEPT !["disk.ext4"] = handle[p]]
        /\ handle' = [handle EXCEPT ![p] = None]
        /\ data' = Kept(name', handle', held) /\ pc' = [pc EXCEPT ![p] = "done"]
    BY <1>3 DEF Mkfs, Goto
  <2>2. /\ held \in [Inodes -> Beginnings] /\ held[handle[p]] = Whole
        /\ \A i \in Inodes : i # handle[p] => held[i] = data[i]
    BY <1>s, EndsOfBeginnings DEF Shape
  <2> HIDE DEF held
  <2>3. "disk.ext4" \in Names /\ \A f \in Files : f \in Names /\ f # "disk.ext4"
    BY DEF Names, Files
  <2>4. /\ name' \in [Names -> Inodes \cup {None}] /\ name'["disk.ext4"] = handle[p]
        /\ \A n \in Names : n # "disk.ext4" => name'[n] = name[n]
    BY <1>s, <2>1, <2>3 DEF Shape
  <2>5. /\ data' \in [Inodes -> Beginnings]
        /\ \A n \in Names : name'[n] # None => data'[name'[n]] = held[name'[n]]
    <3>1. data' = Kept(name', handle', held)
      BY <2>1
    <3> QED BY <2>2, <2>4, <3>1, KeptFacts
  <2>6. Content("disk.ext4")' = Whole
    BY <1>s, <2>2, <2>3, <2>4, <2>5 DEF Content
  <2>7. \A f \in Files : Content(f)' = Content(f) /\ IsFile(f)' = IsFile(f) /\ SizeOf(f)' = SizeOf(f)
    <3>1. \A f \in Files : Content(f)' = Content(f) /\ IsFile(f)' = IsFile(f)
      BY <1>s, <2>2, <2>3, <2>4, <2>5 DEF Content, IsFile, Shape
    <3> QED BY <3>1 DEF SizeOf
  <2>8. FilesSound'
    <3>1. \A f \in Files : Complete(f)' <=> Complete(f)
      BY <2>7 DEF Complete
    <3>2. "Image" \in Files /\ \A a \in named : Local[a] \in Files
      BY <1>s, ArtifactFacts DEF Files, Shape
    <3> QED BY <1>s, <1>1, <2>6, <2>7, <3>1, <3>2 DEF FilesSound, fixed, proofs, Complete
  <2>9. /\ handle' \in [Processes -> Inodes \cup {None}] /\ handle'[p] = None
        /\ \A q \in Processes \ {p} : handle'[q] = handle[q] /\ pc'[q] = pc[q]
        /\ pc'[p] = "done" /\ pc' \in [Processes -> Labels]
    BY <1>s, <2>1 DEF Shape, Labels
  <2>10. Shape'
    BY <1>s, <1>1, <2>4, <2>5, <2>9 DEF Shape, fixed, proofs
  <2>11. Knows(p)' /\ EntriesTrue(p)'
    BY <2>9 DEF Knows, EntriesTrue, Fetching
  <2>12. \A m, n \in Names : name'[m] = name'[n] /\ name'[m] # None => m = n
    BY <1>s, <2>4 DEF OneAtATime
  <2>13. handle'[p] # None <=> pc'[p] \in {"body", "unpack", "mkfs"}
    BY <2>9
  <2> QED BY <1>s, <2>8, <2>9, <2>10, <2>11, <2>12, <2>13, OneStep
<1> QED BY <1>2, <1>3

-----------------------------------------------------------------------------
(* The theorems.                                                           *)

LEMMA InitHolds == Init => Inductive
<1> SUFFICES ASSUME Init, apart PROVE Inductive
  BY DEF Inductive
<1>1. 1 \in Inodes
  <2>1. Cardinality(Names) \in Nat /\ Cardinality(Processes) \in Nat
    BY NamesAreFinite, FetchAssumption, FS_CardinalityType
  <2>2. "Image" \in Names /\ Names # {} /\ Cardinality(Names) > 0
    <3>1. "Image" \in Names
      BY DEF Names, Files
    <3> QED BY <2>1, <3>1, NamesAreFinite, FS_EmptySet
  <2> QED BY <2>1, <2>2 DEF Inodes
<1>2. PICK placed \in SUBSET (Artifacts \ named) :
        /\ name = [n \in Names |-> IF placed # {} /\ n = "modules.tar.xz" THEN 1 ELSE None]
        /\ data = [i \in Inodes |-> IF placed # {} /\ i = 1 THEN Whole ELSE <<>>]
  BY DEF Init
<1>3. "kernel" \in named /\ (placed # {} => "modules" \notin named)
  BY ArtifactFacts DEF Init
<1>4. /\ name \in [Names -> Inodes \cup {None}] /\ data \in [Inodes -> Beginnings]
      /\ \A n \in Names : n # "modules.tar.xz" => ~IsFile(n) /\ Content(n) = <<>>
      /\ IsFile("modules.tar.xz") => Content("modules.tar.xz") = Whole
  <2>1. name \in [Names -> Inodes \cup {None}] /\ data \in [Inodes -> Beginnings]
    BY <1>1, <1>2, EndsOfBeginnings
  <2>2. \A n \in Names : n # "modules.tar.xz" => name[n] = None
    BY <1>2
  <2>3. "modules.tar.xz" \in Names /\ (name["modules.tar.xz"] # None => name["modules.tar.xz"] = 1 /\ data[1] = Whole)
    BY <1>1, <1>2 DEF Names, Files
  <2> QED BY <2>1, <2>2, <2>3 DEF IsFile, Content
<1>5. Nothing \in [Artifacts -> 0..Chunks] /\ named \subseteq Artifacts
  BY FetchAssumption, ArtifactFacts DEF Nothing, Init
<1>6. Shape
  BY <1>4, <1>5, FetchAssumption DEF Init, Shape, Labels
<1>7. OneAtATime
  BY <1>2, NoInodeIsNone DEF Init, OneAtATime, Busy
<1>8. FilesSound
  <2>1. "Image" \in Names /\ "disk.ext4" \in Names /\ Files \subseteq Names
    BY DEF Names, Files
  <2>2. \A f \in Names : Complete(f)
    BY <1>4 DEF Complete
  <2> QED BY <1>4, <1>5, <2>1, <2>2 DEF FilesSound, Init, Nothing
<1>9. \A p \in Processes : Knows(p) /\ EntriesTrue(p)
  BY DEF Init, Knows, EntriesTrue, Fetching
<1> QED BY <1>6, <1>7, <1>8, <1>9 DEF Inductive

LEMMA StepKeeps ==
  ASSUME Inductive, apart, NEW p \in Processes,
         Make(p) \/ Fetched(p) \/ Unpack(p) \/ Place(p) \/ Bake(p) \/ Mkfs(p) \/ Die(p)
  PROVE  Inductive'
<1>1. CASE Begin(p)
  BY <1>1, BeginStep
<1>2. CASE Ask(p)
  BY <1>2, AskStep
<1>3. CASE AskHost(p) \/ Request(p) \/ Refuse(p) \/ Unavailable(p) \/ Lack(p)
  BY <1>3, QuietActions
<1>4. CASE RangeRefused(p)
  BY <1>4, RangeRefusedStep
<1>5. CASE Resume(p) \/ SendAll(p)
  BY <1>5, OpenPartStep
<1>6. CASE Chunk(p)
  BY <1>6, ChunkStep
<1>7. CASE Break(p) \/ End(p) \/ Die(p)
  BY <1>7, EndingStep
<1>8. CASE Publish(p)
  BY <1>8, PublishStep
<1>9. CASE Record(p) \/ Raise(p)
  BY <1>9, RecordStep, RaiseStep
<1>10. CASE Fetched(p)
  BY <1>10, FetchedStep
<1>11. CASE Unpack(p)
  BY <1>11, UnpackStep
<1>12. CASE Place(p)
  BY <1>12, PlaceStep
<1>13. CASE Bake(p)
  BY <1>13, BakeStep
<1>14. CASE Mkfs(p)
  BY <1>14, MkfsStep
<1> QED BY <1>1, <1>2, <1>3, <1>4, <1>5, <1>6, <1>7, <1>8, <1>9, <1>10, <1>11, <1>12, <1>13, <1>14
        DEF Make, Download

\* Nobody changes what the host says, which artifacts there are, or who pulls with whom.
LEMMA FixedStays == ASSUME [Next]_vars PROVE UNCHANGED fixed
BY ZenonT(60) DEF Next, Make, Download, vars, Begin, Ask, AskHost, Request, Refuse, Unavailable, RangeRefused,
       Resume, SendAll, OpenPart, Chunk, Break, End, Publish, Record, Lack, Raise, Fetched, Unpack, Place,
       Bake, Mkfs, Die

LEMMA NextKeeps ==
  ASSUME Inductive, [Next]_vars
  PROVE  Inductive'
<1>1. apart' = apart
  BY FixedStays DEF fixed, proofs
<1>2. CASE ~apart
  BY <1>1, <1>2 DEF Inductive
<1>3. CASE apart /\ Next
  BY <1>3, StepKeeps DEF Next
<1>4. CASE UNCHANGED vars
  <2>1. /\ UNCHANGED <<apart, lengths, named, gzipped, name, data, proven, above, pc, at, size, handle, appends, entries>>
    BY <1>4 DEF vars, fixed, proofs, disk
  <2> QED BY <2>1 DEF Inductive, Shape, OneAtATime, FilesSound, Knows, EntriesTrue, Busy, Wanted, Part,
                      Content, SizeOf, IsFile, Complete
<1> QED BY <1>2, <1>3, <1>4

\* What a command knows at each step of a pull holds, and what is in place is what a pull
\* may leave there, when one command pulls the build at a time (model.py, `make`;
\* fetch.py, `download`).
THEOREM Invariance == Spec => []Inductive
<1>1. Inductive /\ [Next]_vars => Inductive'
  BY NextKeeps
<1> QED BY <1>1, InitHolds, PTL DEF Spec

\* What a pull puts in place is the artifact, or of a host that does not say how long it
\* is the artifact's beginning; an image and a disk are whole (fetch.py, `download`:
\* "publish it only when it is whole").
THEOREM WholeOrBeginning == Spec => []PublishedIsSound
<1>1. Inductive => PublishedIsSound
  <2> SUFFICES ASSUME Inductive, apart PROVE PublishedIsSound
    BY DEF PublishedIsSound, PublishedIsWhole, PublishedIsInOrder
  <2>1. Shape /\ FilesSound /\ Files \subseteq Names
    BY DEF Inductive, Names
  <2>2. \A f \in Files : IsPrefix(Content(f), Whole)
    BY <2>1, ContentFacts
  <2> QED BY <2>1, <2>2 DEF PublishedIsSound, PublishedIsWhole, PublishedIsInOrder, FilesSound
<1> QED BY <1>1, Invariance, PTL

\* What a pull has proven stays proven until MaxKept failed pulls are recorded above it:
\* no answer of the host and no other pull takes the witness away (model.py, `make`,
\* `_remember`).
THEOREM ProofsStay == Spec => WitnessStays
<1> DEFINE Evicts == above = MaxKept - 1 /\ above' = MaxKept
<1>1. Inductive /\ Inductive' /\ [Next]_vars => [apart /\ Provable => Provable' \/ Evicts]_vars
  <2> SUFFICES ASSUME Inductive, Inductive', Next, apart, Provable PROVE Provable' \/ Evicts
    OBVIOUS
  <2>1. apart' = apart /\ named' = named
    BY FixedStays DEF fixed
  <2>2. Shape /\ FilesSound /\ Shape' /\ FilesSound'
    BY <2>1 DEF Inductive
  <2>3. PICK p \in Processes :
          Make(p) \/ Fetched(p) \/ Unpack(p) \/ Place(p) \/ Bake(p) \/ Mkfs(p) \/ Die(p)
    BY DEF Next
  <2>4. CASE ~Record(p)
    <3>1. proven' = proven \/ Evicts
      <4>1. CASE Raise(p)
        BY <4>1, RaiseStep
      <4>2. CASE ~Raise(p)
        BY <2>3, <2>4, <4>2 DEF Make, Download, Begin, Ask, AskHost, Request, Refuse, Unavailable,
              RangeRefused, Resume, SendAll, OpenPart, Chunk, Break, End, Publish, Lack, Fetched,
              Unpack, Place, Bake, Mkfs, Die, proofs
      <4> QED BY <4>1, <4>2
    <3> QED BY <2>1, <2>2, <3>1 DEF Provable, FilesSound
  <2>5. CASE Record(p)
    <3>1. \A a \in named : proven'[a] = SizeOf(Local[a])
      BY <2>5, RecordStep
    <3>2. \A a \in named : proven'[a] # 0
      <4>1. \A a \in named : SizeOf(Local[a]) = proven[a] /\ proven[a] # 0
        BY DEF Provable
      <4> QED BY <3>1, <4>1
    <3> QED BY <2>1, <2>2, <3>2 DEF Provable, FilesSound
  <2> QED BY <2>4, <2>5
<1> QED BY <1>1, Invariance, PTL DEF Spec, WitnessStays
=============================================================================
