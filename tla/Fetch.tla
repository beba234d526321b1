------------------------------- MODULE Fetch -------------------------------
(***************************************************************************)
(* One build's local copy: `Build.make` of lib/build/model.py, the one     *)
(* downloader of lib/build/fetch.py under it, and the two files of         *)
(* lib/build/rootfs.py that are made from what it left.                    *)
(*                                                                         *)
(* An artifact is Chunks chunks, and a file is a sequence of chunk         *)
(* numbers: whole when it is 1, 2, ..., Chunks.  A transfer appends to     *)
(* `<file>.part`, counts what it appended itself, and renames the part     *)
(* over the file when the count is what the host said.  A part outlives    *)
(* the attempt, the command and the process that wrote it.  A name is      *)
(* bound to an inode and a handle stays with its inode, because two        *)
(* commands may pull one build: nothing but the page's writer gate keeps   *)
(* them apart.  `apart` says whether they are.                             *)
(***************************************************************************)
EXTENDS Integers, Sequences, SequencesExt, FiniteSets

CONSTANTS
    Processes,
    Modes,      \* what `apart` may be
    Chunks,     \* the size of every artifact
    Attempts,   \* ATTEMPTS
    MaxKept,    \* PROVENANCE_ACTS
    MaxPulls,   \* bound: pulls begun
    MaxFaults,  \* bound: broken transfers, refusals and deaths
    None

ASSUME FetchAssumption ==
    /\ IsFiniteSet(Processes) /\ Modes \subseteq BOOLEAN /\ None \notin Nat
    /\ Chunks \in Nat \ {0} /\ Attempts \in Nat \ {0}
    /\ MaxKept \in Nat \ {0} /\ MaxPulls \in Nat /\ MaxFaults \in Nat

\* What every guest needs: the kernel, gzipped or not, is made an Image; the modules
\* are used as they come.  What a test may need besides is `Lack`.
Want == <<"kernel", "modules">>
Artifacts == ToSet(Want)

\* What `download` is asked to leave: `Image.gz` for the kernel, see `_kernel`.
Target == [kernel |-> "Image.gz", modules |-> "modules.tar.xz"]

\* What a run reads, and what `_local` names.
Local == [kernel |-> "Image", modules |-> "modules.tar.xz"]

\* Where a transfer keeps what it has so far.
PartOf == [kernel |-> "Image.gz.part", modules |-> "modules.tar.xz.part"]

\* The baked disk is another directory's; mkfs writes a name nobody else has.
Files == {"Image.gz", "Image", "modules.tar.xz"}
Names == Files \cup {"Image.gz.part", "Image.part", "modules.tar.xz.part"} \cup {"disk.ext4"}

VARIABLES
    apart,      \* one command pulls this build at a time
    lengths,    \* the host says how long what it sends is
    named,      \* the artifacts the card has a URL for
    gzipped,    \* the kernel arrives gzipped
    name,       \* the inode a name is bound to
    data,       \* the chunks an inode holds
    proven,     \* the newest size a successful act of provenance.json has for an artifact
    above,      \* the acts of failed pulls above that act; MaxKept when none is kept
    pc,         \* where a process is
    at,         \* the position in Want it is at
    tries,      \* the attempts its download has left
    size,       \* the size its transfer counted
    handle,     \* the inode it writes
    appends,    \* that handle was opened to append
    entries,    \* the sizes its act will record
    pulls, faults

disk == <<name, data>>
fixed == <<apart, lengths, named, gzipped>>
proofs == <<proven, above>>
vars == <<fixed, disk, proofs, pc, at, tries, size, handle, appends, entries,
          pulls, faults>>

Inodes == 1..(Cardinality(Names) + Cardinality(Processes))
Whole == [i \in 1..Chunks |-> i]
Nothing == [a \in Artifacts |-> 0]

Content(n) == IF name[n] = None THEN <<>> ELSE data[name[n]]
SizeOf(n) == Len(Content(n))
IsFile(n) == name[n] # None

\* An inode nobody refers to, for a file that is created.
FreshInode ==
    CHOOSE i \in Inodes : (\A n \in Names : name[n] # i) /\ (\A p \in Processes : handle[p] # i)

\* What the inodes hold when name and handle change: those nobody refers to are gone.
Kept(newName, newHandle, held) ==
    LET used == {newName[n] : n \in Names} \cup {newHandle[p] : p \in Processes}
    IN  [i \in Inodes |-> IF i \in used THEN held[i] ELSE <<>>]

Goto(p, label) == pc' = [pc EXCEPT ![p] = label]
Busy(p) == pc[p] \notin {"idle", "done", "failed"}
Wanted(p) == Want[at[p]]
Part(p) == PartOf[Wanted(p)]
Fault == faults < MaxFaults /\ faults' = faults + 1

-----------------------------------------------------------------------------
(* `make`: the artifacts in turn.                                          *)

\* A command begins to pull the build, or begins again.
Begin(p) ==
    /\ ~Busy(p) /\ pulls < MaxPulls
    /\ apart => \A q \in Processes : ~Busy(q)
    /\ pulls' = pulls + 1
    /\ at' = [at EXCEPT ![p] = 1]
    /\ entries' = [entries EXCEPT ![p] = Nothing]
    /\ Goto(p, "ask")
    /\ UNCHANGED <<fixed, disk, proofs, tries, size, handle, appends, faults>>

\* Where an artifact that is in place leads: the next one, or the act's record.
Landed(p, sizeNow) ==
    /\ entries' = [entries EXCEPT ![p][Wanted(p)] = sizeNow]
    /\ IF at[p] < Len(Want)
       THEN at' = [at EXCEPT ![p] = @ + 1] /\ Goto(p, "ask")
       ELSE Goto(p, "record") /\ UNCHANGED at

\* Mutant: only the host can prove a file.
NothingProven(p) == FALSE

\* `_already_proven`: the record's size for this URL is the file's.
AlreadyProven(p) ==
    LET a == Wanted(p) IN proven[a] # 0 /\ IsFile(Local[a]) /\ SizeOf(Local[a]) = proven[a]

\* The record is asked before the host is.  An artifact nobody can fetch is taken as
\* it lies there; without bytes it is an error.
Ask(p) ==
    LET a == Wanted(p) IN
    /\ pc[p] = "ask"
    /\ \/ a \notin named /\ SizeOf(Local[a]) > 0 /\ Landed(p, entries[p][a])
       \/ a \notin named /\ SizeOf(Local[a]) = 0 /\ Goto(p, "raise") /\ UNCHANGED <<at, entries>>
       \/ a \in named /\ AlreadyProven(p) /\ Landed(p, SizeOf(Local[a]))
       \/ a \in named /\ ~AlreadyProven(p) /\ Goto(p, "head") /\ UNCHANGED <<at, entries>>
    /\ UNCHANGED <<fixed, disk, proofs, tries, size, handle, appends, pulls, faults>>

\* `_complete`: the host's own size for the target, when the host answers with one.
AskHost(p) ==
    LET target == Target[Wanted(p)] IN
    /\ pc[p] = "head"
    /\ \/ /\ lengths /\ IsFile(target) /\ SizeOf(target) = Chunks
          /\ Goto(p, "fetched") /\ UNCHANGED <<tries, faults>>
       \/ /\ ~(lengths /\ IsFile(target) /\ SizeOf(target) = Chunks)
          /\ tries' = [tries EXCEPT ![p] = Attempts]
          /\ Goto(p, "try") /\ UNCHANGED faults
       \/ \* The host is down: the size stays unproven.
          /\ Fault
          /\ tries' = [tries EXCEPT ![p] = Attempts] /\ Goto(p, "try")
    /\ UNCHANGED <<fixed, disk, proofs, at, size, handle, appends, entries, pulls>>

-----------------------------------------------------------------------------
(* `download`: up to Attempts requests.                                    *)

\* An attempt that raised is followed by the next one, or by giving up.
NextTry(p) ==
    IF tries[p] > 1 THEN tries' = [tries EXCEPT ![p] = @ - 1] /\ Goto(p, "try")
    ELSE Goto(p, "raise") /\ UNCHANGED tries

\* The size of the part is read and the request sent.
Request(p) ==
    /\ pc[p] = "try"
    /\ size' = [size EXCEPT ![p] = SizeOf(Part(p))]
    /\ Goto(p, "answer")
    /\ UNCHANGED <<fixed, disk, proofs, at, tries, handle, appends, entries, pulls, faults>>

\* A redirect, a 4xx or an artifact that is too big: `_Permanent`.
Refuse(p) ==
    /\ pc[p] = "answer" /\ Fault
    /\ Goto(p, "raise")
    /\ UNCHANGED <<fixed, disk, proofs, at, tries, size, handle, appends, entries, pulls>>

\* A 5xx, or no connection at all.
Unavailable(p) ==
    /\ pc[p] = "answer" /\ Fault
    /\ NextTry(p)
    /\ UNCHANGED <<fixed, disk, proofs, at, size, handle, appends, entries, pulls>>

\* 416: a part as long as the artifact is the artifact, if the host says how long that
\* is; any other is removed.
RangeRefused(p) ==
    /\ pc[p] = "answer" /\ size[p] >= Chunks
    /\ IF lengths /\ size[p] = Chunks
       THEN Goto(p, "publish") /\ UNCHANGED <<disk, tries>>
       ELSE /\ name' = [name EXCEPT ![Part(p)] = None]
            /\ data' = Kept(name', handle, data)
            /\ NextTry(p)
    /\ UNCHANGED <<fixed, proofs, at, size, handle, appends, entries, pulls, faults>>

\* The part is opened: to append when `offset` chunks are kept, else from nothing.
OpenPart(p, offset) ==
    LET inode == IF IsFile(Part(p)) THEN name[Part(p)] ELSE FreshInode IN
    /\ name' = [name EXCEPT ![Part(p)] = inode]
    /\ data' = IF offset > 0 THEN data ELSE [data EXCEPT ![inode] = <<>>]
    /\ handle' = [handle EXCEPT ![p] = inode]
    /\ appends' = [appends EXCEPT ![p] = offset > 0]
    /\ size' = [size EXCEPT ![p] = offset]
    /\ Goto(p, "body")
    /\ UNCHANGED <<fixed, proofs, at, tries, entries, pulls, faults>>

\* 206: the host sends what is missing.
Resume(p) ==
    /\ pc[p] = "answer" /\ size[p] \in 1..(Chunks - 1)
    /\ OpenPart(p, size[p])

\* Mutant: the part is kept though the host sends the artifact from its start.
SendAllAppended(p) ==
    LET inode == IF IsFile(Part(p)) THEN name[Part(p)] ELSE FreshInode IN
    /\ pc[p] = "answer"
    /\ name' = [name EXCEPT ![Part(p)] = inode]
    /\ handle' = [handle EXCEPT ![p] = inode]
    /\ appends' = [appends EXCEPT ![p] = TRUE]
    /\ size' = [size EXCEPT ![p] = 0]
    /\ Goto(p, "body")
    /\ UNCHANGED <<fixed, data, proofs, at, tries, entries, pulls, faults>>

\* 200: the host sends everything, whether a range was asked for or not.
SendAll(p) ==
    /\ pc[p] = "answer"
    /\ OpenPart(p, 0)

\* Chunk k written at position k of a file: what it skips reads as nothing (0).
WrittenAt(content, k) ==
    [i \in 1..(IF k > Len(content) THEN k ELSE Len(content)) |->
        IF i = k THEN k ELSE IF i <= Len(content) THEN content[i] ELSE 0]

\* `_read`: the next chunk, at the end of what the handle's inode holds by now when it
\* was opened to append, else where this transfer is.
Chunk(p) ==
    /\ pc[p] = "body" /\ size[p] < Chunks
    /\ data' = [data EXCEPT ![handle[p]] =
                    IF appends[p] THEN Append(@, size[p] + 1) ELSE WrittenAt(@, size[p] + 1)]
    /\ size' = [size EXCEPT ![p] = @ + 1]
    /\ UNCHANGED <<fixed, name, proofs, pc, at, tries, handle, appends, entries, pulls, faults>>

Close(p) ==
    /\ handle' = [handle EXCEPT ![p] = None]
    /\ data' = Kept(name, handle', data)

\* The transfer ends with an exception.
Break(p) ==
    /\ pc[p] = "body" /\ Fault
    /\ Close(p) /\ NextTry(p)
    /\ UNCHANGED <<fixed, name, proofs, at, size, appends, entries, pulls>>

\* Mutant: the count is not compared.
EndAnyhow(p) ==
    /\ pc[p] = "body"
    /\ \/ size[p] = Chunks /\ UNCHANGED faults
       \/ size[p] < Chunks /\ Fault
    /\ Close(p)
    /\ Goto(p, "publish") /\ UNCHANGED tries
    /\ UNCHANGED <<fixed, name, proofs, at, size, appends, entries, pulls>>

\* The transfer ends, at its end or before it.  A short count is another attempt
\* when the host said how long the artifact is; nobody can tell otherwise.
End(p) ==
    /\ pc[p] = "body"
    /\ \/ size[p] = Chunks /\ UNCHANGED faults
       \/ size[p] < Chunks /\ Fault
    /\ Close(p)
    /\ IF lengths /\ size[p] # Chunks THEN NextTry(p) ELSE Goto(p, "publish") /\ UNCHANGED tries
    /\ UNCHANGED <<fixed, name, proofs, at, size, appends, entries, pulls>>

\* `os.replace`; a part that somebody else renamed away is another attempt.
Publish(p) ==
    /\ pc[p] = "publish"
    /\ IF IsFile(Part(p))
       THEN /\ name' = [name EXCEPT ![Target[Wanted(p)]] = name[Part(p)], ![Part(p)] = None]
            /\ data' = Kept(name', handle, data)
            /\ Goto(p, "fetched") /\ UNCHANGED tries
       ELSE NextTry(p) /\ UNCHANGED disk
    /\ UNCHANGED <<fixed, proofs, at, size, handle, appends, entries, pulls, faults>>

-----------------------------------------------------------------------------
(* What is made of a download.                                             *)

\* `_gzip_size`: what the trailer says; 0 when there is no gzip, or no end of one.
TrailerSize(n) ==
    IF gzipped /\ SizeOf(n) > 0 /\ Content(n)[1] = 1 /\ Last(Content(n)) = Chunks
    THEN Chunks ELSE 0

\* `_kernel`, once `Image.gz` is there: an Image of the size its trailer says is left
\* alone.  Anything else `download` left is used as it is.
Fetched(p) ==
    LET raw == Target[Wanted(p)]
        expect == IF TrailerSize(raw) # 0 THEN TrailerSize(raw) ELSE SizeOf(raw)
        inode == IF IsFile("Image.part") THEN name["Image.part"] ELSE FreshInode
    IN
    /\ pc[p] = "fetched"
    /\ IF Wanted(p) = "modules" \/ (IsFile("Image") /\ SizeOf("Image") = expect)
       THEN Landed(p, SizeOf(Local[Wanted(p)])) /\ UNCHANGED <<disk, handle>>
       ELSE /\ name' = [name EXCEPT !["Image.part"] = inode]
            /\ data' = [data EXCEPT ![inode] = <<>>]
            /\ handle' = [handle EXCEPT ![p] = inode]
            /\ Goto(p, "unpack") /\ UNCHANGED <<at, entries>>
    /\ UNCHANGED <<fixed, proofs, tries, size, appends, pulls, faults>>

\* What is no gzip is copied as it is and a whole gzip unpacked.  A gzip cut short ends
\* the command, its part left as far as it came: EOFError is no OSError.  Any other is
\* refused.
Unpack(p) ==
    LET raw == Content("Image.gz")
        good == ~gzipped \/ raw = Whole \/ raw = <<>>
        kept == good \/ IsPrefix(raw, Whole)
        names == IF kept THEN name ELSE [name EXCEPT !["Image.part"] = None]
        held == IF kept THEN [data EXCEPT ![handle[p]] = raw] ELSE data
    IN
    /\ pc[p] = "unpack"
    /\ name' = names
    /\ handle' = [handle EXCEPT ![p] = None]
    /\ data' = Kept(names, handle', held)
    /\ Goto(p, IF good THEN "place" ELSE IF kept THEN "failed" ELSE "raise")
    /\ UNCHANGED <<fixed, proofs, at, tries, size, appends, entries, pulls, faults>>

\* `os.replace`, outside the guard: a part that is gone is an error.
Place(p) ==
    /\ pc[p] = "place"
    /\ IF IsFile("Image.part")
       THEN /\ name' = [name EXCEPT !["Image"] = name["Image.part"], !["Image.part"] = None]
            /\ data' = Kept(name', handle, data)
            /\ Landed(p, SizeOf("Image.part"))
       ELSE Goto(p, "failed") /\ UNCHANGED <<disk, at, entries>>
    /\ UNCHANGED <<fixed, proofs, tries, size, handle, appends, pulls, faults>>

\* `_remember`: the act goes on top of the earlier ones.
Record(p) ==
    /\ pc[p] = "record"
    /\ proven' = [a \in Artifacts |-> IF a \in named THEN entries[p][a] ELSE proven[a]]
    /\ above' = 0
    /\ Goto(p, "bake")
    /\ UNCHANGED <<fixed, disk, at, tries, size, handle, appends, entries, pulls, faults>>

\* What the test at hand wants besides (a kselftest, a config) is not to be had.
Lack(p) ==
    /\ pc[p] = "record"
    /\ Goto(p, "raise")
    /\ UNCHANGED <<fixed, disk, proofs, at, tries, size, handle, appends, entries, pulls, faults>>

\* Mutant: the newest act is asked, whether it succeeded or not.
NewestActOnly(p) ==
    /\ pc[p] = "raise"
    /\ above' = MaxKept /\ proven' = Nothing
    /\ Goto(p, "failed")
    /\ UNCHANGED <<fixed, disk, at, tries, size, handle, appends, entries, pulls, faults>>

\* The act of a pull that failed after it had something carries its reason, and
\* `_recorded` passes it over; but MaxKept acts of the kind leave no room for another.
Raise(p) ==
    LET landed == \E i \in 1..(at[p] - 1) : Want[i] \in named
    IN
    /\ pc[p] = "raise"
    /\ above' = IF landed /\ above < MaxKept THEN above + 1 ELSE above
    /\ proven' = IF above' = MaxKept THEN Nothing ELSE proven
    /\ Goto(p, "failed")
    /\ UNCHANGED <<fixed, disk, at, tries, size, handle, appends, entries, pulls, faults>>

\* `bake_rootfs`: a disk that is there is used; a new one is a temporary file first.
Bake(p) ==
    /\ pc[p] = "bake"
    /\ IF IsFile("disk.ext4") THEN Goto(p, "done") /\ UNCHANGED <<disk, handle>>
       ELSE /\ handle' = [handle EXCEPT ![p] = FreshInode]
            /\ Goto(p, "mkfs") /\ UNCHANGED disk
    /\ UNCHANGED <<fixed, proofs, at, tries, size, appends, entries, pulls, faults>>

\* An archive that is not whole cannot be unpacked into the tree mkfs reads.
Mkfs(p) ==
    /\ pc[p] = "mkfs"
    /\ IF Content("modules.tar.xz") = Whole
       THEN /\ name' = [name EXCEPT !["disk.ext4"] = handle[p]]
            /\ handle' = [handle EXCEPT ![p] = None]
            /\ data' = Kept(name', handle', [data EXCEPT ![handle[p]] = Whole])
            /\ Goto(p, "done")
       ELSE Close(p) /\ Goto(p, "failed") /\ UNCHANGED name
    /\ UNCHANGED <<fixed, proofs, at, tries, size, appends, entries, pulls, faults>>

\* The command dies where it is, or of a record it cannot write; its parts stay.
Die(p) ==
    /\ Busy(p) /\ Fault
    /\ Close(p) /\ Goto(p, "failed")
    /\ UNCHANGED <<fixed, name, proofs, at, tries, size, appends, entries, pulls>>

\* An artifact without a URL may have been put in place by hand.
Init ==
    /\ apart \in Modes /\ lengths \in BOOLEAN
    /\ named \in {Artifacts, {"kernel"}} /\ gzipped \in BOOLEAN
    /\ \E placed \in SUBSET (Artifacts \ named) :
        /\ name = [n \in Names |-> IF placed # {} /\ n = "modules.tar.xz" THEN 1 ELSE None]
        /\ data = [i \in Inodes |-> IF placed # {} /\ i = 1 THEN Whole ELSE <<>>]
    /\ proven = Nothing /\ above = MaxKept
    /\ pc = [p \in Processes |-> "idle"]
    /\ at = [p \in Processes |-> 1]
    /\ tries = [p \in Processes |-> 0]
    /\ size = [p \in Processes |-> 0]
    /\ handle = [p \in Processes |-> None]
    /\ appends = [p \in Processes |-> FALSE]
    /\ entries = [p \in Processes |-> Nothing]
    /\ pulls = 0 /\ faults = 0

Download(p) ==
    \/ Request(p) \/ Refuse(p) \/ Unavailable(p) \/ RangeRefused(p) \/ Resume(p) \/ SendAll(p)
    \/ Chunk(p) \/ Break(p) \/ End(p) \/ Publish(p)

Make(p) == Begin(p) \/ Ask(p) \/ AskHost(p) \/ Download(p) \/ Record(p) \/ Lack(p) \/ Raise(p)

Next == \E p \in Processes :
    Make(p) \/ Fetched(p) \/ Unpack(p) \/ Place(p) \/ Bake(p) \/ Mkfs(p) \/ Die(p)

Spec == Init /\ [][Next]_vars

-----------------------------------------------------------------------------
(* Correctness.                                                            *)

Contents == UNION {[1..n -> 0..Chunks] : n \in 0..(Chunks * Cardinality(Processes))}

\* Every variable has its type; an inode nobody refers to holds nothing.
TypeOK ==
    /\ apart \in BOOLEAN /\ lengths \in BOOLEAN /\ named \subseteq Artifacts
    /\ gzipped \in BOOLEAN
    /\ name \in [Names -> Inodes \cup {None}]
    /\ data \in [Inodes -> Contents]
    /\ proven \in [Artifacts -> 0..Chunks] /\ above \in 0..MaxKept
    /\ pc \in [Processes -> {"idle", "ask", "head", "try", "answer", "body", "publish", "fetched",
                             "unpack", "place", "record", "raise", "bake", "mkfs", "done", "failed"}]
    /\ at \in [Processes -> DOMAIN Want]
    /\ tries \in [Processes -> 0..Attempts]
    /\ size \in [Processes -> 0..Chunks]
    /\ handle \in [Processes -> Inodes \cup {None}]
    /\ appends \in [Processes -> BOOLEAN]
    /\ entries \in [Processes -> [Artifacts -> 0..Chunks]]
    /\ pulls \in 0..MaxPulls /\ faults \in 0..MaxFaults
    /\ \A p \in Processes : pc[p] \in {"body", "unpack", "mkfs"} <=> handle[p] # None

Complete(f) == IsFile(f) => Content(f) = Whole

\* A file under its own name is the whole artifact, whatever broke off, was refused or
\* died, and whoever resumed it: the host says how long the artifact is, and one
\* command pulls the build at a time (fetch.py, `download`: "publish it only when it
\* is whole").
PublishedIsWhole ==
    apart /\ lengths => \A f \in Files \cup {"disk.ext4"} : Complete(f)

\* Without a length a transfer that broke off silently passes for the artifact, but
\* what is in place is still its beginning, nothing twice and nothing left out; and
\* neither a disk nor the Image of a gzip is made of it.  A kernel that is no gzip has
\* nothing in it to tell.
PublishedIsInOrder ==
    apart => /\ \A f \in Files : IsPrefix(Content(f), Whole)
             /\ gzipped => Content("Image") \in {<<>>, Whole}
             /\ Complete("disk.ext4")

\* What a pull puts in place is the artifact, or at the very worst its beginning.
PublishedIsSound == PublishedIsWhole /\ PublishedIsInOrder

Provable == \A a \in named : proven[a] # 0 /\ IsFile(Local[a]) /\ SizeOf(Local[a]) = proven[a]

\* What a pull has proven stays proven, whatever the host answers later, until MaxKept
\* pulls that failed are recorded above the act that proved it (model.py, `make`: "The
\* record is also a witness the host cannot take away"; `_remember` keeps that many).
WitnessStays ==
    [][apart /\ Provable => Provable' \/ (above = MaxKept - 1 /\ above' = MaxKept)]_vars

\* `download`: "publish it only when it is whole", whoever else downloads it.
AlwaysPublishedWhole == lengths => \A f \in Files : Complete(f)

\* model.py, `make`: the host cannot take the witness away, however often pulls fail.
WitnessNeverLost == [][apart /\ Provable => Provable']_vars
=============================================================================
