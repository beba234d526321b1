------------------------------- MODULE Builds -------------------------------
(***************************************************************************)
(* The builds of this machine: the table of lib/build/table.py, the copies *)
(* under var/downloads, and the image this deployment serves, as the       *)
(* commands change them: table.py (index, pull, index-pull), a job's own   *)
(* make(), provision.py, run_latest.py --provision-only and prune.py.      *)
(*                                                                         *)
(* A command reads, works for minutes, and writes.  Nothing but the page's *)
(* writer gate keeps two of them apart; `apart` says whether they are.     *)
(***************************************************************************)
EXTENDS Integers, Sequences, SequencesExt, FiniteSets, Sequencing

CONSTANTS
    Ids,            \* builds
    Processes,
    Commands,       \* what may be run: records with `do` and `ids`
    Overlapping,    \* bound: those of them that are run when commands overlap
    Modes,          \* what `apart` may be
    ApiUrl,         \* the URL the API names for a build's kernel
    Keep,           \* --keep
    MaxCommands, MaxFaults, \* bounds
    None

\* A kernel's URL names the build it is filed under, another one, or none at all
\* (file://.../Image); a card may lack it, and a build may lack a card.
Urls == {"own", "other", "local", "none"}
Cards == Urls \cup {"no card"}

Kinds == {"index", "pull", "index-pull", "job", "provision", "publish", "prune"}

ASSUME BuildsAssumption ==
    /\ Modes \subseteq BOOLEAN
    /\ Overlapping \subseteq Commands /\ Commands \subseteq [do : Kinds, ids : Seq(Ids)]
    /\ \A c \in Commands :
          /\ c.do \in {"index", "prune"} => c.ids = <<>>
          /\ c.do \in {"pull", "job", "provision", "publish"} => c.ids # <<>>
    /\ ApiUrl \in [Ids -> Urls]
    /\ Keep \in Nat \ {0}       \* prune.py refuses less than one
    /\ MaxCommands \in Nat /\ MaxFaults \in Nat
    /\ {None, "file", "somebody's"} \cap Ids = {}
    /\ None \notin {"file", "somebody's", "pass"}

VARIABLES
    apart,      \* one command at a time
    table,      \* builds.json: the card of each build
    copies,     \* the directories under var/downloads, the least recently changed first
    whole,      \* those that hold every artifact
    image,      \* var/serve/Image: a link to a build's copy, a file, or None
    aside,      \* an image put there by hand was moved aside
    placed,     \* there was such an image, and whose kernel it is, if anybody's
    served,     \* the build served.json names
    pc,
    cmd,        \* what a process runs
    snap,       \* the table it loaded
    todo,       \* the builds it has left
    network,    \* failures in a row that were the network's
    failed,     \* a build or a tree failed
    code,       \* the exit status of a process's last command
    commands, faults

store == <<table, copies, whole, image, aside, placed, served>>
local == <<cmd, snap, todo, network, failed>>
vars == <<apart, store, pc, local, code, commands, faults>>

NoCards == [b \in Ids |-> "no card"]
Orders == UNION {[1..n -> Ids] : n \in 0..Cardinality(Ids)}
Goto(p, label) == pc' = [pc EXCEPT ![p] = label]
Busy(p) == pc[p] # "idle"
First(p) == Head(todo[p])
Known(t) == {b \in Ids : t[b] # "no card"}

\* The command is over: what it held is forgotten.
Exit(p, status) ==
    /\ Goto(p, "idle")
    /\ code' = [code EXCEPT ![p] = status]
    /\ snap' = [snap EXCEPT ![p] = NoCards]
    /\ todo' = [todo EXCEPT ![p] = <<>>]
    /\ network' = [network EXCEPT ![p] = 0]
    /\ failed' = [failed EXCEPT ![p] = FALSE]
    /\ cmd' = [cmd EXCEPT ![p] = None]

Infra == "infra"

-----------------------------------------------------------------------------
(* Cards.                                                                  *)

\* Mutant: what comes in replaces what is held.
MergedLast(held, url) == IF held = "no card" \/ url # "none" THEN url ELSE held

\* `Builds.merge` and `Build.merge`: a card is added, a missing URL is filled in, and
\* a URL that names this build replaces one that does not.
Merged(held, url) ==
    IF held \in {"no card", "none"} \/ (url = "own" /\ held # "own") THEN url ELSE held

\* A command loads the table, or goes to work on what needs none.
Begin(p) ==
    \E c \in IF apart THEN Commands ELSE Overlapping :
        /\ pc[p] = "idle" /\ commands < MaxCommands
        /\ apart => \A q \in Processes : ~Busy(q)
        /\ commands' = commands + 1
        /\ cmd' = [cmd EXCEPT ![p] = c]
        /\ todo' = [todo EXCEPT ![p] = c.ids]
        /\ snap' = IF c.do \in {"index", "index-pull", "pull"} THEN [snap EXCEPT ![p] = table] ELSE snap
        /\ code' = [code EXCEPT ![p] = None]
        /\ Goto(p, CASE c.do \in {"index", "index-pull"} -> "index"
                     [] c.do \in {"pull", "job", "provision"} -> "make"
                     [] c.do = "publish" -> "publish"
                     [] c.do = "prune" -> "plan")
        /\ UNCHANGED <<apart, store, network, failed, faults>>

\* `_index`: what the window holds is merged; a tree that fails is noted.
Index(p) ==
    /\ pc[p] = "index"
    /\ \E found \in SUBSET Ids, lost \in BOOLEAN :
        /\ lost => found # Ids
        /\ snap' = [snap EXCEPT ![p] =
                        [b \in Ids |-> IF b \in found THEN Merged(@[b], ApiUrl[b]) ELSE @[b]]]
        /\ failed' = [failed EXCEPT ![p] = lost]
    /\ Goto(p, "save")
    /\ UNCHANGED <<apart, store, cmd, todo, network, code, commands, faults>>

\* Mutant: nobody looks at what an earlier step noted.
StatusOfLastStep(p) == "pass"

\* index-pull answers for a tree that failed, pull for a build.
Status(p) == IF failed[p] THEN "infra" ELSE "pass"

\* `Builds.save`, of the table the command holds.
Save(p) ==
    /\ pc[p] = "save"
    /\ table' = snap[p]
    /\ \/ /\ cmd[p].do \in {"index", "index-pull", "pull"} /\ todo[p] = <<>>
          /\ Exit(p, Status(p))
       \/ /\ cmd[p].do = "index-pull" /\ todo[p] # <<>>
          /\ Goto(p, "make") /\ UNCHANGED <<local, code>>
       \/ /\ cmd[p].do = "job"
          /\ Exit(p, "pass")
       \/ /\ cmd[p].do \in {"provision", "publish"}
          /\ Goto(p, "record") /\ UNCHANGED <<local, code>>
    /\ UNCHANGED <<apart, copies, whole, image, aside, placed, served, commands, faults>>

\* Mutant: remember() saves the table the command had loaded, which was empty.
RememberAlone(p) ==
    /\ pc[p] = "remember"
    /\ snap' = [snap EXCEPT ![p][First(p)] = ApiUrl[First(p)]]
    /\ Goto(p, "save") /\ UNCHANGED <<cmd, todo, network, failed, code>>
    /\ UNCHANGED <<apart, store, commands, faults>>

\* `Builds.remember`: the file is read again, and saved only if it lacks the build.
Remember(p) ==
    /\ pc[p] = "remember"
    /\ \/ /\ table[First(p)] = "no card"
          /\ snap' = [snap EXCEPT ![p] = [table EXCEPT ![First(p)] = ApiUrl[First(p)]]]
          /\ Goto(p, "save") /\ UNCHANGED <<cmd, todo, network, failed, code>>
       \/ /\ table[First(p)] # "no card" /\ cmd[p].do = "provision"
          /\ Goto(p, "record") /\ UNCHANGED <<local, code>>
       \/ /\ table[First(p)] # "no card" /\ cmd[p].do = "job"
          /\ Exit(p, "pass")
    /\ UNCHANGED <<apart, store, commands, faults>>

-----------------------------------------------------------------------------
(* Copies.                                                                 *)

\* The directory of b is the one that changed last.
Touched(b) == Append(Such(copies, LAMBDA c : c # b), b)

Pulling(p) == cmd[p].do \in {"pull", "index-pull"}
UrlOf(p, b) == IF Pulling(p) THEN snap[p][b] ELSE ApiUrl[b]

\* The build is done with: what comes after it.
Made(p) ==
    IF Pulling(p)
    THEN /\ todo' = [todo EXCEPT ![p] = Tail(@)]
         /\ Goto(p, IF Len(todo[p]) = 1 THEN "save" ELSE "make")
    ELSE /\ Goto(p, IF cmd[p].do = "job" THEN "remember" ELSE "link")
         /\ UNCHANGED todo

\* `Build.make` leaves the bytes and an act in the copy's own directory; bytes that
\* are there and have no URL are taken as they are, and leave no act.
Make(p) ==
    LET b == First(p) IN
    /\ pc[p] = "make" /\ UrlOf(p, b) # "no card"
    /\ \/ UrlOf(p, b) # "none" /\ copies' = Touched(b) /\ whole' = whole \cup {b}
       \/ UrlOf(p, b) = "none" /\ b \in whole /\ UNCHANGED <<copies, whole>>
    /\ Made(p)
    /\ network' = [network EXCEPT ![p] = 0]
    /\ UNCHANGED <<apart, table, image, aside, placed, served, cmd, snap, failed, code,
                   commands, faults>>

\* A failed make: a directory may be left, or an act in the one that is there.  A pull
\* goes on to the next build, and stops after two in a row that were the network's.
MakeFails(p) ==
    LET b == First(p) IN
    /\ pc[p] = "make" /\ UrlOf(p, b) # "no card"
    /\ copies' \in {copies, Touched(b)}
    /\ IF ~Pulling(p) THEN Exit(p, "infra")
       ELSE \E unreachable \in BOOLEAN :
            /\ network' = [network EXCEPT ![p] = IF unreachable THEN @ + 1 ELSE 0]
            /\ failed' = [failed EXCEPT ![p] = TRUE]
            /\ IF network'[p] = 2
               THEN todo' = [todo EXCEPT ![p] = <<>>] /\ Goto(p, "save")
               ELSE Made(p)
            /\ UNCHANGED <<cmd, snap, code>>
    /\ UNCHANGED <<apart, table, whole, image, aside, placed, served, commands, faults>>

\* `Builds.get` of a build without a card: the pull ends before it saves.
NoSuchBuild(p) ==
    /\ pc[p] = "make" /\ UrlOf(p, First(p)) = "no card"
    /\ Exit(p, "infra")
    /\ UNCHANGED <<apart, store, commands, faults>>

-----------------------------------------------------------------------------
(* The image.                                                              *)

\* Mutant: the file is removed like a link.
LookAndUnlink(p) ==
    LET b == First(p) IN
    /\ pc[p] = "link"
    /\ \/ b \notin whole /\ Exit(p, "infra")
       \/ /\ b \in whole
          /\ Goto(p, IF image = None THEN "symlink" ELSE "unlink")
          /\ UNCHANGED <<local, code>>
    /\ UNCHANGED <<apart, store, commands, faults>>

\* `_link_served` looks at what is at the path: its own link goes, and so does a file
\* of the same bytes; any other file is moved aside.
Look(p) ==
    LET b == First(p) IN
    /\ pc[p] = "link"
    /\ \/ b \notin whole /\ Exit(p, "infra")
       \/ /\ b \in whole
          /\ Goto(p, CASE image = None -> "symlink"
                       [] image = "file" /\ placed # b -> "move"
                       [] OTHER -> "unlink")
          /\ UNCHANGED <<local, code>>
    /\ UNCHANGED <<apart, store, commands, faults>>

\* What was there is gone by now: an exception.
Vanished(p) ==
    /\ pc[p] \in {"unlink", "move"} /\ image = None
    /\ Exit(p, "crash")
    /\ UNCHANGED <<apart, store, commands, faults>>

Unlink(p) ==
    /\ pc[p] = "unlink" /\ image # None
    /\ image' = None
    /\ Goto(p, "symlink")
    /\ UNCHANGED <<apart, table, copies, whole, aside, placed, served, local, code>>
    /\ UNCHANGED <<commands, faults>>

Move(p) ==
    /\ pc[p] = "move" /\ image # None
    /\ aside' = (aside \/ image = "file")
    /\ image' = None
    /\ Goto(p, "symlink")
    /\ UNCHANGED <<apart, table, copies, whole, placed, served, local, code, commands, faults>>

\* A link that somebody else put there is an error.
Symlink(p) ==
    /\ pc[p] = "symlink"
    /\ \/ image # None /\ Exit(p, "infra") /\ UNCHANGED image
       \/ /\ image = None
          /\ image' = First(p)
          /\ Goto(p, "remember")
          /\ UNCHANGED <<local, code>>
    /\ UNCHANGED <<apart, table, copies, whole, aside, placed, served, commands, faults>>

\* `publish_local`: an image that is there is filed under a build, by its local URL.
Publish(p) ==
    LET b == First(p) IN
    /\ pc[p] = "publish"
    /\ \/ image \notin {"file"} \cup whole /\ Exit(p, "infra")
       \/ /\ image \in {"file"} \cup whole
          /\ snap' = [snap EXCEPT ![p] = [table EXCEPT ![b] = Merged(@, "local")]]
          /\ Goto(p, "save") /\ UNCHANGED <<cmd, todo, network, failed, code>>
    /\ UNCHANGED <<apart, store, commands, faults>>

\* `_remember_served`.
Record(p) ==
    /\ pc[p] = "record"
    /\ served' = First(p)
    /\ Exit(p, "pass")
    /\ UNCHANGED <<apart, table, copies, whole, image, aside, placed, commands, faults>>

-----------------------------------------------------------------------------
(* Retention.                                                              *)

\* Mutant: nothing is protected by provenance.
NewestOnly ==
    {copies[i] : i \in {k \in DOMAIN copies : k <= Len(copies) - Keep}}

\* `plan`: all but the newest and the one the record names.
Removals ==
    {copies[i] : i \in {k \in DOMAIN copies : k <= Len(copies) - Keep}} \ {served}

\* The decision, newest first.
InPruneOrder(plan) ==
    /\ ToSet(plan) = Removals
    /\ \A i, j \in DOMAIN plan, k, l \in DOMAIN copies :
          i < j /\ plan[i] = copies[k] /\ plan[j] = copies[l] => k > l

Plan(p) ==
    /\ pc[p] = "plan"
    /\ \E plan \in Orders : InPruneOrder(plan) /\ todo' = [todo EXCEPT ![p] = plan]
    /\ Goto(p, "remove")
    /\ UNCHANGED <<apart, store, cmd, snap, network, failed, code, commands, faults>>

\* One copy of the plan is removed; one that is gone already ends the prune.
Rmtree(p) ==
    /\ pc[p] = "remove"
    /\ \/ todo[p] = <<>> /\ Exit(p, "pass") /\ UNCHANGED <<copies, whole>>
       \/ /\ todo[p] # <<>> /\ First(p) \notin ToSet(copies)
          /\ Exit(p, "infra") /\ UNCHANGED <<copies, whole>>
       \/ /\ todo[p] # <<>> /\ First(p) \in ToSet(copies)
          /\ copies' = Such(copies, LAMBDA b : b # First(p))
          /\ whole' = whole \ {First(p)}
          /\ todo' = [todo EXCEPT ![p] = Tail(@)]
          /\ UNCHANGED <<pc, cmd, snap, network, failed, code>>
    /\ UNCHANGED <<apart, table, image, aside, placed, served, commands, faults>>

\* The filesystem refuses in the middle of one: files are gone, the directory is not.
RmtreeFails(p) ==
    /\ pc[p] = "remove" /\ todo[p] # <<>> /\ faults < MaxFaults
    /\ faults' = faults + 1
    /\ whole' = whole \ {First(p)}
    /\ Exit(p, "infra")
    /\ UNCHANGED <<apart, table, copies, image, aside, placed, served, commands>>

\* The command dies where it is.
Die(p) ==
    /\ Busy(p) /\ faults < MaxFaults
    /\ faults' = faults + 1
    /\ Exit(p, None)
    /\ UNCHANGED <<apart, store, commands>>

\* An empty workspace, with an image somebody put there or none.
Init ==
    /\ apart \in Modes
    /\ table = NoCards /\ copies = <<>> /\ whole = {}
    /\ placed \in {None, "somebody's"} \cup Ids
    /\ image = IF placed = None THEN None ELSE "file"
    /\ aside = FALSE /\ served = None
    /\ pc = [p \in Processes |-> "idle"]
    /\ cmd = [p \in Processes |-> None]
    /\ snap = [p \in Processes |-> NoCards]
    /\ todo = [p \in Processes |-> <<>>]
    /\ network = [p \in Processes |-> 0]
    /\ failed = [p \in Processes |-> FALSE]
    /\ code = [p \in Processes |-> None]
    /\ commands = 0 /\ faults = 0

TableStep(p) == Index(p) \/ Save(p) \/ Remember(p) \/ NoSuchBuild(p)
ImageStep(p) ==
    Look(p) \/ Vanished(p) \/ Unlink(p) \/ Move(p) \/ Symlink(p) \/ Publish(p) \/ Record(p)
CopyStep(p) == Make(p) \/ MakeFails(p) \/ Plan(p) \/ Rmtree(p) \/ RmtreeFails(p)

Next == \E p \in Processes : Begin(p) \/ TableStep(p) \/ ImageStep(p) \/ CopyStep(p) \/ Die(p)

Spec == Init /\ [][Next]_vars

-----------------------------------------------------------------------------
(* Correctness.                                                            *)

\* Every variable has its type, and a whole copy has a directory.
TypeOK ==
    /\ apart \in BOOLEAN
    /\ table \in [Ids -> Cards]
    /\ copies \in Orders /\ IsInjective(copies) /\ whole \subseteq ToSet(copies)
    /\ image \in Ids \cup {"file", None} /\ aside \in BOOLEAN
    /\ placed \in Ids \cup {"somebody's", None} /\ served \in Ids \cup {None}
    /\ pc \in [Processes -> {"idle", "index", "make", "publish", "plan", "save", "remember", "link",
                             "unlink", "move", "symlink", "record", "remove"}]
    /\ cmd \in [Processes -> Commands \cup {None}]
    /\ snap \in [Processes -> [Ids -> Cards]]
    /\ todo \in [Processes -> Orders]
    /\ network \in [Processes -> 0..2]
    /\ failed \in [Processes -> BOOLEAN]
    /\ code \in [Processes -> {None, "pass", "infra", "crash"}]
    /\ commands \in 0..MaxCommands /\ faults \in 0..MaxFaults

\* Cards are only added, and a URL that names its build is never given up, whichever
\* commands run one after the other and wherever they die (model.py, `Build.merge`:
\* a URL "the card already holds is the card's own and stays").
CardsStay ==
    [][apart => \A b \in Ids :
        /\ table[b] # "no card" => table'[b] # "no card"
        /\ table[b] = "own" => table'[b] = "own"]_vars

\* The build that is recorded as served has a card, also when the command that served
\* it died half-way: the card is saved before the record is (publish.py, `provision`).
ServedHasACard == apart /\ served # None => table[served] # "no card"

\* Between commands every whole copy has a card: a pull is also a registration
\* (table.py, `Builds.remember`).
PulledIsRegistered ==
    apart /\ faults = 0 /\ (\A p \in Processes : ~Busy(p)) => whole \subseteq Known(table)

\* What is served and what was pulled can be looked up.
CardsAreThere == ServedHasACard /\ PulledIsRegistered

\* The copy the image is a link to is never pruned once the record names it, whatever
\* its age, and no other command breaks it (prune.py: "never removed whatever its age").
ServedIsKept == apart /\ faults = 0 /\ image \in Ids /\ served = image => image \in whole

\* An image somebody put at the path is still there, or beside it; or a copy of the
\* same bytes took its place (publish.py, `_link_served`: "What was at the path is
\* never deleted silently").
HandImageIsKept == apart /\ placed = "somebody's" => image = "file" \/ aside

\* Neither the image a command serves nor one that was put there is ever lost.
ImagesAreKept == ServedIsKept /\ HandImageIsKept

\* A pull that exits 0 has left every build it was asked for, and one that stopped at
\* a dead network does not exit 0 (table.py, `_pull`).
PassMeansPulled ==
    [][apart => \A p \in Processes :
        Busy(p) /\ ~Busy(p)' /\ code'[p] = "pass" /\ Pulling(p)
            => ToSet(cmd[p].ids) \subseteq whole]_vars

\* "The build `var/serve/Image` serves is never removed whatever its age", also when
\* it is being provisioned meanwhile.
ServedIsAlwaysKept == faults = 0 /\ image \in Ids /\ served = image => image \in whole
=============================================================================
