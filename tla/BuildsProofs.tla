---------------------------- MODULE BuildsProofs ----------------------------
(***************************************************************************)
(* Theorems about Builds, for every set of builds, of commands and of      *)
(* processes, any number of commands and any number of deaths, and about   *)
(* the buttons of the two pages over it, for every question and disk.      *)
(***************************************************************************)
EXTENDS Gap, SequencingProofs

-----------------------------------------------------------------------------
(* Types.                                                                  *)

Pcs == {"idle", "index", "make", "publish", "plan", "save", "remember", "link",
        "unlink", "move", "symlink", "record", "remove"}

StoreTypes ==
    /\ table \in [Ids -> Cards]
    /\ whole \subseteq Ids
    /\ image \in Ids \cup {"file", None} /\ aside \in BOOLEAN
    /\ placed \in Ids \cup {"somebody's", None} /\ served \in Ids \cup {None}

LocalTypes ==
    /\ pc \in [Processes -> Pcs]
    /\ cmd \in [Processes -> Commands \cup {None}]
    /\ snap \in [Processes -> [Ids -> Cards]]
    /\ todo \in [Processes -> Seq(Ids)]
    /\ network \in [Processes -> Nat]
    /\ failed \in [Processes -> BOOLEAN]
    /\ code \in [Processes -> {None, "pass", "infra", "crash"}]
    /\ faults \in Nat

-----------------------------------------------------------------------------
(* The inductive invariant.                                                *)

\* A process that is busy runs a command, is at one of its steps, and has a build in
\* hand where the step needs one.
Works(p) ==
    /\ cmd[p] \in Commands
    /\ \/ cmd[p].do = "index" /\ pc[p] \in {"index", "save"}
       \/ cmd[p].do = "pull" /\ pc[p] \in {"make", "save"}
       \/ cmd[p].do = "index-pull" /\ pc[p] \in {"index", "save", "make"}
       \/ cmd[p].do = "job" /\ pc[p] \in {"make", "remember", "save"}
       \/ cmd[p].do = "provision" /\ pc[p] \in {"make", "link", "unlink", "move", "symlink",
                                                "remember", "save", "record"}
       \/ cmd[p].do = "publish" /\ pc[p] \in {"publish", "save", "record"}
       \/ cmd[p].do = "prune" /\ pc[p] \in {"plan", "remove"}
    /\ pc[p] = "make" \/ cmd[p].do \in {"job", "provision", "publish"} => todo[p] # <<>>

\* What a command is about to save has every card the table has, and its own URLs.
NoneIsLost(t, u) ==
    \A b \in Ids : /\ t[b] # "no card" => u[b] # "no card"
                   /\ t[b] = "own" => u[b] = "own"

\* The cards a command holds, and the card of the build it serves.
CardsFit(p) ==
    /\ pc[p] \in {"index", "save"} => NoneIsLost(table, snap[p])
    /\ pc[p] = "make" /\ Pulling(p) => snap[p] = table
    /\ pc[p] = "save" /\ cmd[p].do \in {"job", "provision", "publish"} =>
           snap[p][First(p)] # "no card"
    /\ pc[p] = "record" => table[First(p)] # "no card"

\* The copies a command has made so far, and the cards they will have; a pull that
\* has failed for none of its builds has them all, but for those it has left.
CopiesFit(p) ==
    /\ faults = 0 =>
         /\ pc[p] = "save" => whole \subseteq Known(snap[p])
         /\ pc[p] \in {"link", "unlink", "move", "symlink", "remember"} =>
                whole \subseteq Known(table) \cup {First(p)}
         /\ pc[p] \in {"index", "make", "publish", "plan", "remove", "record"} =>
                whole \subseteq Known(table)
    /\ pc[p] = "index" => todo[p] = cmd[p].ids
    /\ Pulling(p) /\ ~failed[p] => ToSet(cmd[p].ids) \subseteq whole \cup ToSet(todo[p])

\* The image on its way to be served, and what a prune leaves alone.
ImageFits(p) ==
    /\ pc[p] \in {"unlink", "move", "symlink"} => First(p) \in whole
    /\ pc[p] \in {"unlink", "move"} => image # None
    /\ pc[p] = "unlink" => placed # "somebody's" \/ image # "file"
    /\ pc[p] = "symlink" => image = None
    /\ cmd[p].do = "provision" /\ pc[p] \in {"remember", "save", "record"} =>
           image = First(p) /\ First(p) \in whole
    /\ cmd[p].do = "publish" /\ pc[p] \in {"save", "record"} => image \in {"file"} \cup whole
    /\ pc[p] = "remove" => \A i \in DOMAIN todo[p] : todo[p][i] # served

Fits(p) == CardsFit(p) /\ CopiesFit(p) /\ ImageFits(p)

OneAtATime == \A p, q \in Processes : Busy(p) /\ Busy(q) => p = q

Inductive ==
    /\ StoreTypes /\ LocalTypes
    /\ \A p \in Processes : Busy(p) => Works(p)
    /\ apart => /\ OneAtATime
                /\ \A p \in Processes : Busy(p) => Fits(p)
                /\ CardsAreThere /\ ImagesAreKept

-----------------------------------------------------------------------------
(* Lemmas about the operators and the shape of a step.                     *)

Codes == {None, "pass", "infra", "crash"}

\* Merging adds a card and gives up nothing.
LEMMA MergedFacts ==
  ASSUME NEW held \in Cards, NEW url \in Urls
  PROVE  /\ Merged(held, url) \in Urls
         /\ held = "own" => Merged(held, url) = "own"
         /\ "no card" \notin Urls
  BY DEF Merged, Cards, Urls

LEMMA Constants ==
  /\ None \notin Ids /\ "file" \notin Ids /\ "somebody's" \notin Ids
  /\ None # "file" /\ None # "somebody's" /\ None # "pass"
  /\ NoCards \in [Ids -> Cards]
  BY BuildsAssumption DEF NoCards, Cards

\* The build in hand, and the rest.
LEMMA HandFacts ==
  ASSUME NEW s \in Seq(Ids), s # <<>>
  PROVE  /\ Head(s) \in Ids /\ Tail(s) \in Seq(Ids)
         /\ ToSet(s) = ToSet(Tail(s)) \cup {Head(s)}
         /\ Len(s) = 1 <=> Tail(s) = <<>>
         /\ \A i \in DOMAIN Tail(s) : i + 1 \in DOMAIN s /\ Tail(s)[i] = s[i + 1]
<1>1. /\ Head(s) \in Ids /\ Head(s) = s[1] /\ Tail(s) \in Seq(Ids) /\ Len(Tail(s)) = Len(s) - 1
      /\ \A i \in 1..Len(Tail(s)) : Tail(s)[i] = s[i + 1]
      /\ Len(s) \in Nat \ {0} /\ DOMAIN s = 1..Len(s) /\ DOMAIN Tail(s) = 1..Len(Tail(s))
  BY HeadTailProperties
<1>2. Len(s) = 1 <=> Tail(s) = <<>>
  <2>1. Len(Tail(s)) = 0 <=> Tail(s) = <<>>
    BY <1>1, EmptySeq
  <2> QED BY <1>1, <2>1
<1>3. ASSUME NEW x \in ToSet(s) PROVE x \in ToSet(Tail(s)) \cup {Head(s)}
  <2>1. PICK i \in 1..Len(s) : s[i] = x
    BY <1>1, <1>3 DEF ToSet
  <2>2. CASE i = 1
    BY <1>1, <2>1, <2>2
  <2>3. CASE i # 1
    BY <1>1, <2>1, <2>3, i - 1 \in 1..Len(Tail(s)), Tail(s)[i - 1] = s[i] DEF ToSet
  <2> QED BY <2>2, <2>3
<1>4. ToSet(Tail(s)) \cup {Head(s)} \subseteq ToSet(s)
  BY <1>1 DEF ToSet
<1> QED BY <1>1, <1>2, <1>3, <1>4

\* Only one process at a time takes a step when they are kept apart, so a step keeps
\* the invariant when it does for the process that takes it.
LEMMA StepKeeps ==
  ASSUME Inductive, NEW p \in Processes, NEW l \in Pcs, pc' = [pc EXCEPT ![p] = l],
         apart' = apart, StoreTypes', LocalTypes',
         \A q \in Processes \ {p} : cmd'[q] = cmd[q] /\ todo'[q] = todo[q],
         l # "idle" => Works(p)',
         apart => \A q \in Processes \ {p} : ~Busy(q),
         apart => /\ ServedHasACard' /\ ServedIsKept' /\ HandImageIsKept'
                  /\ l = "idle" /\ faults' = 0 => whole' \subseteq Known(table')
                  /\ l # "idle" => Fits(p)'
  PROVE  Inductive'
<1>1. pc'[p] = l /\ \A q \in Processes \ {p} : pc'[q] = pc[q]
  BY DEF Inductive, LocalTypes
<1>2. ASSUME NEW q \in Processes, Busy(q)' PROVE Works(q)'
  <2>1. CASE q = p
    BY <1>1, <1>2, <2>1 DEF Busy
  <2>2. CASE q # p
    <3>1. Busy(q) /\ pc'[q] = pc[q] /\ cmd'[q] = cmd[q] /\ todo'[q] = todo[q]
      BY <1>1, <1>2, <2>2 DEF Busy
    <3> QED BY <3>1 DEF Inductive, Works
  <2> QED BY <2>1, <2>2
<1>3. ASSUME apart
      PROVE  /\ OneAtATime' /\ \A q \in Processes : Busy(q)' => Fits(q)'
             /\ CardsAreThere' /\ ImagesAreKept'
  <2>1. \A q \in Processes : Busy(q)' => q = p
    BY <1>1, <1>3 DEF Busy
  <2>2. l = "idle" <=> ~Busy(p)'
    BY <1>1 DEF Busy
  <2>3. PulledIsRegistered'
    BY <1>3, <2>2 DEF PulledIsRegistered
  <2> QED BY <1>3, <2>1, <2>2, <2>3 DEF OneAtATime, CardsAreThere, ImagesAreKept
<1> QED BY <1>2, <1>3 DEF Inductive

LEMMA StoreStays ==
  ASSUME Inductive, apart, apart' = apart, UNCHANGED store, faults' = 0 => faults = 0
  PROVE  ServedHasACard' /\ ServedIsKept' /\ HandImageIsKept'
  BY DEF Inductive, CardsAreThere, ImagesAreKept, ServedHasACard, ServedIsKept,
         HandImageIsKept, store

\* A process that exits owes nothing: what it made has a card.
LEMMA ExitKeeps ==
  ASSUME Inductive, NEW p \in Processes, Busy(p), NEW status \in Codes, Exit(p, status),
         apart' = apart, StoreTypes', faults' \in Nat,
         apart => /\ ServedHasACard' /\ ServedIsKept' /\ HandImageIsKept'
                  /\ faults' = 0 => whole' \subseteq Known(table')
  PROVE  Inductive'
<1> USE DEF Inductive
<1>1. pc' = [pc EXCEPT ![p] = "idle"] /\ "idle" \in Pcs
  BY DEF Exit, Goto, Pcs
<1>2. LocalTypes'
  BY <1>1, Constants, EmptySeq DEF LocalTypes, Exit, Codes, StoreTypes
<1>3. \A q \in Processes \ {p} : cmd'[q] = cmd[q] /\ todo'[q] = todo[q]
  BY DEF Exit, LocalTypes
<1>4. apart => \A q \in Processes \ {p} : ~Busy(q)
  BY DEF OneAtATime
<1> QED BY <1>1, <1>2, <1>3, <1>4, StepKeeps

\* A process that exits having changed nothing.
LEMMA ExitQuietly ==
  ASSUME Inductive, NEW p \in Processes, Busy(p), NEW status \in Codes, Exit(p, status),
         apart' = apart, UNCHANGED store, faults' \in Nat, faults' = 0 => faults = 0,
         apart /\ faults' = 0 => whole \subseteq Known(table)
  PROVE  Inductive'
<1>1. StoreTypes'
  BY DEF Inductive, StoreTypes, store
<1>2. apart => ServedHasACard' /\ ServedIsKept' /\ HandImageIsKept'
  BY StoreStays
<1> QED BY <1>1, <1>2, ExitKeeps DEF store, Known

\* A step of a command that goes on, and changes nothing on disk.
LEMMA GoesOn ==
  ASSUME Inductive, NEW p \in Processes, Busy(p), NEW l \in Pcs \ {"idle"},
         pc' = [pc EXCEPT ![p] = l],
         apart' = apart, UNCHANGED store, LocalTypes', faults' = faults, cmd' = cmd,
         \A q \in Processes \ {p} : todo'[q] = todo[q],
         Works(p)', apart => Fits(p)'
  PROVE  Inductive'
<1>1. StoreTypes'
  BY DEF Inductive, StoreTypes, store
<1>2. apart => ServedHasACard' /\ ServedIsKept' /\ HandImageIsKept'
  BY StoreStays
<1>3. apart => \A q \in Processes \ {p} : ~Busy(q)
  BY DEF Inductive, OneAtATime
<1> QED BY <1>1, <1>2, <1>3, StepKeeps

\* What a busy process fits, in one fact.
LEMMA BusyFacts ==
  ASSUME Inductive, NEW p \in Processes, Busy(p)
  PROVE  /\ Works(p) /\ (apart => Fits(p))
         /\ cmd[p] \in [do : Kinds, ids : Seq(Ids)] /\ todo[p] \in Seq(Ids)
         /\ todo[p] # <<>> => First(p) \in Ids
         /\ snap[p] \in [Ids -> Cards]
<1>1. todo[p] \in Seq(Ids) /\ snap[p] \in [Ids -> Cards]
  BY DEF Inductive, LocalTypes
<1>2. todo[p] # <<>> => First(p) \in Ids
  BY <1>1, HandFacts DEF First
<1> QED BY <1>1, <1>2, BuildsAssumption DEF Inductive, Works

-----------------------------------------------------------------------------
(* The steps over the table.                                               *)

LEMMA BeginStep ==
  ASSUME Inductive, NEW p \in Processes, Begin(p)
  PROVE  Inductive'
<1> USE DEF Inductive
<1>1. PICK c \in Commands :
         /\ pc[p] = "idle" /\ (apart => \A q \in Processes : ~Busy(q))
         /\ cmd' = [cmd EXCEPT ![p] = c] /\ todo' = [todo EXCEPT ![p] = c.ids]
         /\ snap' = IF c.do \in {"index", "index-pull", "pull"}
                    THEN [snap EXCEPT ![p] = table] ELSE snap
         /\ code' = [code EXCEPT ![p] = None]
         /\ Goto(p, CASE c.do \in {"index", "index-pull"} -> "index"
                      [] c.do \in {"pull", "job", "provision"} -> "make"
                      [] c.do = "publish" -> "publish"
                      [] c.do = "prune" -> "plan")
         /\ UNCHANGED <<apart, store, network, failed, faults>>
  BY BuildsAssumption DEF Begin
<1>2. /\ c \in [do : Kinds, ids : Seq(Ids)]
      /\ c.do \in {"index", "prune"} => c.ids = <<>>
      /\ c.do \in {"pull", "job", "provision", "publish"} => c.ids # <<>>
  BY BuildsAssumption
<1>3. PICK l : /\ l \in Pcs \ {"idle"} /\ pc' = [pc EXCEPT ![p] = l]
               /\ \/ c.do \in {"index", "index-pull"} /\ l = "index"
                  \/ c.do \in {"pull", "job", "provision"} /\ l = "make"
                  \/ c.do = "publish" /\ l = "publish"
                  \/ c.do = "prune" /\ l = "plan"
  <2>1. c.do \in Kinds
    BY <1>2
  <2>2. CASE c.do \in {"index", "index-pull"}
    BY <1>1, <2>2 DEF Goto, Pcs
  <2>3. CASE c.do \in {"pull", "job", "provision"}
    BY <1>1, <2>3 DEF Goto, Pcs
  <2>4. CASE c.do = "publish"
    BY <1>1, <2>4 DEF Goto, Pcs
  <2>5. CASE c.do = "prune"
    BY <1>1, <2>5 DEF Goto, Pcs
  <2> QED BY <2>1, <2>2, <2>3, <2>4, <2>5 DEF Kinds
<1>4. /\ cmd'[p] = c /\ todo'[p] = c.ids /\ pc'[p] = l
      /\ c.do \in {"index", "index-pull", "pull"} => snap'[p] = table
      /\ \A q \in Processes \ {p} : cmd'[q] = cmd[q] /\ todo'[q] = todo[q]
  BY <1>1, <1>3 DEF LocalTypes
<1>5. StoreTypes' /\ LocalTypes'
  BY <1>1, <1>2, <1>3 DEF StoreTypes, LocalTypes, store
<1>6. Works(p)'
  BY <1>2, <1>3, <1>4 DEF Works
<1>7. ASSUME apart
      PROVE  ServedHasACard' /\ ServedIsKept' /\ HandImageIsKept' /\ Fits(p)'
  <2>1. ServedHasACard' /\ ServedIsKept' /\ HandImageIsKept'
    BY <1>1, <1>7, StoreStays
  <2>2. faults = 0 => whole \subseteq Known(table)
    BY <1>1, <1>7 DEF CardsAreThere, PulledIsRegistered
  <2>3. CardsFit(p)'
    BY <1>1, <1>3, <1>4 DEF CardsFit, NoneIsLost, Pulling, store
  <2>4. CopiesFit(p)'
    BY <1>1, <1>3, <1>4, <2>2 DEF CopiesFit, Pulling, Known, store
  <2>5. ImageFits(p)'
    BY <1>3, <1>4 DEF ImageFits
  <2> QED BY <2>1, <2>3, <2>4, <2>5 DEF Fits
<1> QED BY <1>1, <1>3, <1>4, <1>5, <1>6, <1>7, StepKeeps

LEMMA IndexStep ==
  ASSUME Inductive, NEW p \in Processes, Index(p)
  PROVE  Inductive'
<1> USE DEF Inductive
<1>1. PICK found \in SUBSET Ids, lost \in BOOLEAN :
         /\ snap' = [snap EXCEPT ![p] =
                        [b \in Ids |-> IF b \in found THEN Merged(@[b], ApiUrl[b]) ELSE @[b]]]
         /\ failed' = [failed EXCEPT ![p] = lost]
  BY DEF Index
<1>2. /\ pc[p] = "index" /\ pc' = [pc EXCEPT ![p] = "save"]
      /\ UNCHANGED <<apart, store, cmd, todo, network, code, commands, faults>>
  BY DEF Index, Goto
<1>3. Busy(p) /\ Works(p) /\ (apart => Fits(p)) /\ snap[p] \in [Ids -> Cards]
  BY <1>2, BusyFacts DEF Busy
<1>4. \A b \in Ids : snap'[p][b] = IF b \in found THEN Merged(snap[p][b], ApiUrl[b]) ELSE snap[p][b]
  BY <1>1, <1>3 DEF LocalTypes
<1>5. /\ snap'[p] \in [Ids -> Cards] /\ snap' \in [Processes -> [Ids -> Cards]]
      /\ NoneIsLost(snap[p], snap'[p])
  <2>1. \A b \in Ids : snap[p][b] \in Cards /\ ApiUrl[b] \in Urls
    BY <1>3, BuildsAssumption
  <2>2. \A b \in Ids : Merged(snap[p][b], ApiUrl[b]) \in Urls
    BY <2>1, MergedFacts
  <2> QED BY <1>1, <1>3, <1>4, <2>1, <2>2, MergedFacts DEF LocalTypes, Cards, NoneIsLost
<1>6. LocalTypes' /\ pc'[p] = "save"
  BY <1>1, <1>2, <1>5 DEF LocalTypes, Pcs
<1>7. Works(p)'
  BY <1>2, <1>3, <1>6 DEF Works
<1>8. ASSUME apart PROVE Fits(p)'
  <2>1. CardsFit(p)'
    BY <1>2, <1>3, <1>5, <1>6, <1>8 DEF Works, Fits, CardsFit, NoneIsLost, store
  <2>2. CopiesFit(p)'
    <3>1. faults = 0 => whole \subseteq Known(snap'[p])
      BY <1>2, <1>3, <1>5, <1>8 DEF Fits, CopiesFit, CardsFit, Known, NoneIsLost
    <3>2. todo[p] = cmd[p].ids
      BY <1>2, <1>3, <1>8 DEF Fits, CopiesFit
    <3> QED BY <1>2, <1>6, <3>1, <3>2 DEF CopiesFit, Pulling, Known, store
  <2>3. ImageFits(p)'
    BY <1>2, <1>3, <1>6 DEF Works, ImageFits
  <2> QED BY <2>1, <2>2, <2>3 DEF Fits
<1> QED BY <1>2, <1>3, <1>6, <1>7, <1>8, GoesOn DEF Pcs

\* The table a command saves has every card that was there, that of the build it
\* serves, and one for every whole copy.
LEMMA SaveStep ==
  ASSUME Inductive, NEW p \in Processes, Save(p)
  PROVE  Inductive'
<1> USE DEF Inductive
<1>1. /\ pc[p] = "save" /\ table' = snap[p]
      /\ UNCHANGED <<apart, copies, whole, image, aside, placed, served, commands, faults>>
  BY DEF Save
<1>2. /\ Busy(p) /\ Works(p) /\ (apart => Fits(p)) /\ snap[p] \in [Ids -> Cards]
      /\ todo[p] # <<>> => First(p) \in Ids
  BY <1>1, BusyFacts DEF Busy
<1>3. StoreTypes'
  BY <1>1, <1>2 DEF StoreTypes
<1>4. ASSUME apart
      PROVE  /\ ServedHasACard' /\ ServedIsKept' /\ HandImageIsKept'
             /\ faults = 0 => whole \subseteq Known(table')
  <2>1. NoneIsLost(table, table') /\ (faults = 0 => whole \subseteq Known(table'))
    BY <1>1, <1>2, <1>4 DEF Fits, CardsFit, CopiesFit
  <2>2. ServedHasACard'
    BY <1>1, <1>4, <2>1 DEF CardsAreThere, ServedHasACard, NoneIsLost, StoreTypes
  <2>3. ServedIsKept' /\ HandImageIsKept'
    BY <1>1, <1>4 DEF ImagesAreKept, ServedIsKept, HandImageIsKept
  <2> QED BY <2>1, <2>2, <2>3
<1>5. CASE \E status \in Codes : Exit(p, status)
  BY <1>1, <1>2, <1>3, <1>4, <1>5, ExitKeeps DEF LocalTypes
<1>6. CASE cmd[p].do = "index-pull" /\ todo[p] # <<>> /\ Goto(p, "make") /\ UNCHANGED <<local, code>>
  <2>1. pc' = [pc EXCEPT ![p] = "make"] /\ pc'[p] = "make" /\ UNCHANGED <<cmd, snap, todo, network, failed, code>>
    BY <1>6 DEF Goto, local, LocalTypes
  <2>2. LocalTypes'
    BY <1>1, <2>1 DEF LocalTypes, Pcs
  <2>3. Works(p)'
    BY <1>2, <1>6, <2>1 DEF Works
  <2>4. ASSUME apart PROVE Fits(p)'
    <3>1. CardsFit(p)' /\ ImageFits(p)'
      BY <1>1, <1>6, <2>1 DEF CardsFit, ImageFits
    <3>2. CopiesFit(p)'
      BY <1>1, <1>2, <1>4, <2>1, <2>4 DEF Fits, CopiesFit, Pulling
    <3> QED BY <3>1, <3>2 DEF Fits
  <2>5. apart => \A q \in Processes \ {p} : ~Busy(q)
    BY <1>2 DEF OneAtATime
  <2> QED BY <1>1, <1>3, <1>4, <2>1, <2>2, <2>3, <2>4, <2>5, StepKeeps DEF Pcs
<1>7. CASE cmd[p].do \in {"provision", "publish"} /\ Goto(p, "record") /\ UNCHANGED <<local, code>>
  <2>1. pc' = [pc EXCEPT ![p] = "record"] /\ pc'[p] = "record" /\ UNCHANGED <<cmd, snap, todo, network, failed, code>>
    BY <1>7 DEF Goto, local, LocalTypes
  <2>2. LocalTypes'
    BY <1>1, <2>1 DEF LocalTypes, Pcs
  <2>3. Works(p)'
    BY <1>2, <1>7, <2>1 DEF Works
  <2>4. ASSUME apart PROVE Fits(p)'
    <3>1. CardsFit(p)'
      BY <1>1, <1>2, <1>7, <2>1, <2>4 DEF Fits, CardsFit, First
    <3>2. CopiesFit(p)'
      BY <1>1, <1>2, <1>4, <1>7, <2>1, <2>4 DEF CopiesFit, Pulling
    <3>3. ImageFits(p)'
      BY <1>1, <1>2, <1>7, <2>1, <2>4 DEF Fits, ImageFits, First
    <3> QED BY <3>1, <3>2, <3>3 DEF Fits
  <2>5. apart => \A q \in Processes \ {p} : ~Busy(q)
    BY <1>2 DEF OneAtATime
  <2> QED BY <1>1, <1>3, <1>4, <2>1, <2>2, <2>3, <2>4, <2>5, StepKeeps DEF Pcs
<1>8. \/ \E status \in Codes : Exit(p, status)
      \/ cmd[p].do = "index-pull" /\ todo[p] # <<>> /\ Goto(p, "make") /\ UNCHANGED <<local, code>>
      \/ cmd[p].do \in {"provision", "publish"} /\ Goto(p, "record") /\ UNCHANGED <<local, code>>
  <2>1. Status(p) \in Codes /\ "pass" \in Codes
    BY DEF Status, Codes
  <2> QED BY <2>1 DEF Save
<1> QED BY <1>5, <1>6, <1>7, <1>8

LEMMA RememberStep ==
  ASSUME Inductive, NEW p \in Processes, Remember(p)
  PROVE  Inductive'
<1> USE DEF Inductive
<1>1. pc[p] = "remember" /\ UNCHANGED <<apart, store, commands, faults>>
  BY DEF Remember
<1>2. /\ Busy(p) /\ Works(p) /\ (apart => Fits(p)) /\ cmd[p].do \in {"job", "provision"}
      /\ First(p) \in Ids /\ table \in [Ids -> Cards]
  BY <1>1, BusyFacts DEF Busy, Works, StoreTypes
<1>3. apart /\ faults = 0 => whole \subseteq Known(table) \cup {First(p)}
  BY <1>1, <1>2 DEF Fits, CopiesFit
<1>4. CASE table[First(p)] = "no card"
  <2> DEFINE known == [table EXCEPT ![First(p)] = ApiUrl[First(p)]]
  <2>1. /\ snap' = [snap EXCEPT ![p] = known]
        /\ pc' = [pc EXCEPT ![p] = "save"] /\ UNCHANGED <<cmd, todo, network, failed, code>>
    BY <1>4 DEF Remember, Goto
  <2>2. ApiUrl[First(p)] \in Urls /\ known \in [Ids -> Cards]
    BY <1>2, BuildsAssumption DEF Cards
  <2>3. LocalTypes' /\ pc'[p] = "save" /\ snap'[p] = known
    BY <1>1, <2>1, <2>2 DEF LocalTypes, Pcs
  <2>4. /\ NoneIsLost(table, known) /\ known[First(p)] # "no card"
        /\ Known(table) \cup {First(p)} \subseteq Known(known)
    BY <1>2, <1>4, <2>2, MergedFacts DEF NoneIsLost, Known
  <2> HIDE DEF known
  <2>5. Works(p)'
    BY <1>2, <2>1, <2>3 DEF Works
  <2>6. ASSUME apart PROVE Fits(p)'
    <3>1. CardsFit(p)'
      BY <1>1, <2>1, <2>3, <2>4 DEF CardsFit, First, store
    <3>2. CopiesFit(p)'
      <4>1. faults = 0 => whole \subseteq Known(known)
        BY <1>3, <2>4, <2>6
      <4> QED BY <1>1, <1>2, <2>1, <2>3, <4>1 DEF CopiesFit, Pulling, Known, store
    <3>3. ImageFits(p)'
      BY <1>1, <1>2, <2>1, <2>3, <2>6 DEF Fits, ImageFits, First, store
    <3> QED BY <3>1, <3>2, <3>3 DEF Fits
  <2> QED BY <1>1, <1>2, <2>1, <2>3, <2>5, <2>6, GoesOn DEF Pcs
<1>5. CASE table[First(p)] # "no card" /\ cmd[p].do = "provision"
  <2>1. pc' = [pc EXCEPT ![p] = "record"] /\ UNCHANGED <<local, code>>
    BY <1>5 DEF Remember, Goto
  <2>2. LocalTypes' /\ pc'[p] = "record" /\ UNCHANGED <<cmd, snap, todo, failed>>
    BY <1>1, <2>1 DEF LocalTypes, Pcs, local
  <2>3. Works(p)'
    BY <1>2, <1>5, <2>2 DEF Works
  <2>4. ASSUME apart PROVE Fits(p)'
    <3>1. CardsFit(p)'
      BY <1>1, <1>5, <2>2 DEF CardsFit, First, store
    <3>2. CopiesFit(p)'
      BY <1>1, <1>3, <1>5, <2>2, <2>4, <1>2 DEF CopiesFit, Pulling, Known, store
    <3>3. ImageFits(p)'
      BY <1>1, <1>2, <1>5, <2>2, <2>4 DEF Fits, ImageFits, First, store
    <3> QED BY <3>1, <3>2, <3>3 DEF Fits
  <2> QED BY <1>1, <1>2, <2>1, <2>2, <2>3, <2>4, GoesOn DEF Pcs, local
<1>6. CASE table[First(p)] # "no card" /\ cmd[p].do = "job"
  <2>1. Exit(p, "pass") /\ "pass" \in Codes
    BY <1>6 DEF Remember, Codes
  <2>2. apart /\ faults = 0 => whole \subseteq Known(table)
    BY <1>2, <1>3, <1>6 DEF Known
  <2> QED BY <1>1, <1>2, <2>1, <2>2, ExitQuietly DEF LocalTypes
<1> QED BY <1>2, <1>4, <1>5, <1>6

\* A pull that ends before it saves had saved what it indexed.
LEMMA NoSuchBuildStep ==
  ASSUME Inductive, NEW p \in Processes, NoSuchBuild(p)
  PROVE  Inductive'
<1>1. pc[p] = "make" /\ Exit(p, "infra") /\ UNCHANGED <<apart, store, commands, faults>> /\ "infra" \in Codes
  BY DEF NoSuchBuild, Codes
<1>2. Busy(p) /\ (apart => Fits(p))
  BY <1>1, BusyFacts DEF Busy
<1>3. apart /\ faults = 0 => whole \subseteq Known(table)
  BY <1>1, <1>2 DEF Fits, CopiesFit
<1> QED BY <1>1, <1>2, <1>3, ExitQuietly DEF Inductive, LocalTypes

-----------------------------------------------------------------------------
(* The steps over the copies.                                              *)

\* Where a build that is done with leads, whether it was made or not.
LEMMA MadeFacts ==
  ASSUME Inductive, NEW p \in Processes, pc[p] = "make", Made(p),
         UNCHANGED <<cmd, snap, table>>
  PROVE  \E l \in {"save", "make", "remember", "link"} :
            /\ pc' = [pc EXCEPT ![p] = l] /\ pc'[p] = l /\ Works(p)'
            /\ todo' \in [Processes -> Seq(Ids)]
            /\ \A q \in Processes \ {p} : todo'[q] = todo[q]
            /\ ~Pulling(p) => l \in {"remember", "link"} /\ todo'[p] = todo[p]
            /\ Pulling(p) => l \in {"save", "make"} /\ todo'[p] = Tail(todo[p])
            /\ l = "remember" => cmd[p].do = "job"
<1> USE DEF Inductive, LocalTypes
<1>1. Works(p) /\ todo[p] \in Seq(Ids) /\ todo[p] # <<>>
  BY BusyFacts DEF Busy, Works
<1>2. Tail(todo[p]) \in Seq(Ids) /\ (Len(todo[p]) = 1 <=> Tail(todo[p]) = <<>>)
  BY <1>1, HandFacts
<1>3. CASE Pulling(p)
  <2>1. PICK l : /\ l = IF Len(todo[p]) = 1 THEN "save" ELSE "make"
                 /\ pc' = [pc EXCEPT ![p] = l] /\ todo' = [todo EXCEPT ![p] = Tail(@)]
    BY <1>3 DEF Made, Goto
  <2>2. pc'[p] = l /\ todo'[p] = Tail(todo[p]) /\ todo' \in [Processes -> Seq(Ids)]
    BY <1>2, <2>1
  <2>3. Works(p)'
    BY <1>1, <1>2, <1>3, <2>1, <2>2 DEF Works, Pulling
  <2> QED BY <1>3, <2>1, <2>2, <2>3
<1>4. CASE ~Pulling(p)
  <2>1. PICK l : /\ l = IF cmd[p].do = "job" THEN "remember" ELSE "link"
                 /\ pc' = [pc EXCEPT ![p] = l] /\ todo' = todo
    BY <1>4 DEF Made, Goto
  <2>2. Works(p)' /\ pc'[p] = l
    BY <1>1, <1>4, <2>1 DEF Works, Pulling
  <2> QED BY <1>4, <2>1, <2>2
<1> QED BY <1>3, <1>4

LEMMA MakeStep ==
  ASSUME Inductive, NEW p \in Processes, Make(p)
  PROVE  Inductive'
<1> USE DEF Inductive
<1> DEFINE b == First(p)
<1>1. /\ pc[p] = "make" /\ UrlOf(p, b) # "no card" /\ Made(p)
      /\ network' = [network EXCEPT ![p] = 0]
      /\ UNCHANGED <<apart, table, image, aside, placed, served, cmd, snap, failed, code, commands, faults>>
      /\ whole' = whole \cup {b}
  BY DEF Make
<1>2. /\ Busy(p) /\ Works(p) /\ (apart => Fits(p)) /\ todo[p] \in Seq(Ids) /\ todo[p] # <<>>
      /\ b \in Ids /\ snap[p] \in [Ids -> Cards]
  BY <1>1, BusyFacts DEF Busy, Works
<1>3. ToSet(todo[p]) = ToSet(Tail(todo[p])) \cup {b}
  BY <1>2, HandFacts DEF First
<1>4. PICK l \in {"save", "make", "remember", "link"} :
            /\ pc' = [pc EXCEPT ![p] = l] /\ pc'[p] = l /\ Works(p)'
            /\ todo' \in [Processes -> Seq(Ids)]
            /\ \A q \in Processes \ {p} : todo'[q] = todo[q]
            /\ ~Pulling(p) => l \in {"remember", "link"} /\ todo'[p] = todo[p]
            /\ Pulling(p) => l \in {"save", "make"} /\ todo'[p] = Tail(todo[p])
            /\ l = "remember" => cmd[p].do = "job"
  BY <1>1, MadeFacts
<1>5. StoreTypes' /\ LocalTypes' /\ l \in Pcs \ {"idle"}
  BY <1>1, <1>2, <1>4 DEF StoreTypes, LocalTypes, Pcs
<1>6. ASSUME apart
      PROVE  ServedHasACard' /\ ServedIsKept' /\ HandImageIsKept' /\ Fits(p)'
  <2>1. ServedHasACard' /\ HandImageIsKept'
    BY <1>1, <1>6 DEF CardsAreThere, ImagesAreKept, ServedHasACard, HandImageIsKept
  <2>2. ServedIsKept'
    BY <1>1, <1>6 DEF ImagesAreKept, ServedIsKept
  <2>3. CardsFit(p)'
    BY <1>1, <1>2, <1>4, <1>6 DEF Fits, CardsFit, NoneIsLost, Pulling
  <2>4. CopiesFit(p)'
    <3>1. faults = 0 => whole \subseteq Known(table)
      BY <1>1, <1>2, <1>6 DEF Fits, CopiesFit
    <3>2. Pulling(p) /\ faults = 0 => whole' \subseteq Known(table) /\ snap[p] = table
      BY <1>1, <1>2, <1>6, <3>1 DEF Fits, CardsFit, UrlOf, Known
    <3>3. Pulling(p) /\ ~failed[p] => ToSet(cmd[p].ids) \subseteq whole' \cup ToSet(todo'[p])
      BY <1>1, <1>2, <1>3, <1>4, <1>6 DEF Fits, CopiesFit
    <3> QED BY <1>1, <1>4, <3>1, <3>2, <3>3 DEF CopiesFit, Pulling, First, Known
  <2>5. ImageFits(p)'
    BY <1>1, <1>2, <1>4 DEF ImageFits, Works, Pulling
  <2> QED BY <2>1, <2>2, <2>3, <2>4, <2>5 DEF Fits
<1>7. apart => \A q \in Processes \ {p} : ~Busy(q)
  BY <1>2 DEF OneAtATime
<1> QED BY <1>1, <1>4, <1>5, <1>6, <1>7, StepKeeps

LEMMA MakeFailsStep ==
  ASSUME Inductive, NEW p \in Processes, MakeFails(p)
  PROVE  Inductive'
<1> USE DEF Inductive
<1>1. /\ pc[p] = "make"
      /\ UNCHANGED <<apart, table, whole, image, aside, placed, served, commands, faults>>
  BY DEF MakeFails
<1>2. Busy(p) /\ Works(p) /\ (apart => Fits(p)) /\ todo[p] \in Seq(Ids)
  BY <1>1, BusyFacts DEF Busy, Works
<1>3. StoreTypes'
  BY <1>1 DEF StoreTypes
<1>4. ASSUME apart
      PROVE  /\ ServedHasACard' /\ ServedIsKept' /\ HandImageIsKept'
             /\ faults = 0 => whole \subseteq Known(table)
  BY <1>1, <1>2, <1>4 DEF CardsAreThere, ImagesAreKept, ServedHasACard, HandImageIsKept,
                          ServedIsKept, Fits, CopiesFit
<1>5. CASE Exit(p, "infra")
  BY <1>1, <1>2, <1>3, <1>4, <1>5, ExitKeeps DEF Codes, LocalTypes, Known
<1>6. CASE ~Exit(p, "infra")
  <2>1. PICK n \in Nat :
           /\ Pulling(p) /\ network' = [network EXCEPT ![p] = n]
           /\ failed' = [failed EXCEPT ![p] = TRUE] /\ UNCHANGED <<cmd, snap, code>>
           /\ \/ todo' = [todo EXCEPT ![p] = <<>>] /\ Goto(p, "save")
              \/ Made(p)
    <3>1. PICK unreachable \in BOOLEAN :
            /\ Pulling(p) /\ network' = [network EXCEPT ![p] = IF unreachable THEN @ + 1 ELSE 0]
            /\ failed' = [failed EXCEPT ![p] = TRUE] /\ UNCHANGED <<cmd, snap, code>>
            /\ \/ todo' = [todo EXCEPT ![p] = <<>>] /\ Goto(p, "save")
               \/ Made(p)
      BY <1>6 DEF MakeFails
    <3>2. (IF unreachable THEN network[p] + 1 ELSE 0) \in Nat
      BY DEF LocalTypes
    <3> QED BY <3>1, <3>2
  <2>2. PICK l \in {"save", "make"} :
            /\ pc' = [pc EXCEPT ![p] = l] /\ pc'[p] = l /\ Works(p)'
            /\ todo' \in [Processes -> Seq(Ids)]
            /\ \A q \in Processes \ {p} : todo'[q] = todo[q]
    <3>1. CASE todo' = [todo EXCEPT ![p] = <<>>] /\ Goto(p, "save")
      <4>1. pc' = [pc EXCEPT ![p] = "save"] /\ pc'[p] = "save"
        BY <3>1 DEF Goto, LocalTypes
      <4>2. todo' \in [Processes -> Seq(Ids)] /\ \A q \in Processes \ {p} : todo'[q] = todo[q]
        BY <3>1, EmptySeq DEF LocalTypes
      <4>3. Works(p)'
        BY <1>2, <2>1, <4>1 DEF Works, Pulling
      <4> QED BY <4>1, <4>2, <4>3
    <3>2. CASE Made(p)
      BY <1>1, <2>1, <3>2, MadeFacts
    <3> QED BY <2>1, <3>1, <3>2
  <2>3. LocalTypes' /\ failed'[p] = TRUE
    BY <1>1, <2>1, <2>2 DEF LocalTypes, Pcs
  <2>4. ASSUME apart PROVE Fits(p)'
    <3>1. CardsFit(p)'
      BY <1>1, <1>2, <2>1, <2>2, <2>4 DEF Fits, CardsFit, NoneIsLost, Pulling
    <3>2. CopiesFit(p)'
      BY <1>1, <1>2, <1>4, <2>1, <2>2, <2>3, <2>4 DEF Fits, CardsFit, CopiesFit, Known
    <3>3. ImageFits(p)'
      BY <2>1, <2>2 DEF ImageFits, Pulling
    <3> QED BY <3>1, <3>2, <3>3 DEF Fits
  <2>5. apart => \A q \in Processes \ {p} : ~Busy(q)
    BY <1>2 DEF OneAtATime
  <2> QED BY <1>1, <1>3, <1>4, <2>1, <2>2, <2>3, <2>4, <2>5, StepKeeps DEF Pcs
<1> QED BY <1>5, <1>6

-----------------------------------------------------------------------------
(* The steps over the image.                                               *)

LEMMA LookStep ==
  ASSUME Inductive, NEW p \in Processes, Look(p)
  PROVE  Inductive'
<1> USE DEF Inductive
<1>1. pc[p] = "link" /\ UNCHANGED <<apart, store, commands, faults>>
  BY DEF Look
<1>2. /\ Busy(p) /\ Works(p) /\ (apart => Fits(p)) /\ cmd[p].do = "provision"
      /\ First(p) \in Ids
  BY <1>1, BusyFacts DEF Busy, Works
<1>3. apart /\ faults = 0 => whole \subseteq Known(table) \cup {First(p)}
  BY <1>1, <1>2 DEF Fits, CopiesFit
<1>4. CASE First(p) \notin whole /\ Exit(p, "infra")
  <2>1. apart /\ faults = 0 => whole \subseteq Known(table)
    BY <1>3, <1>4
  <2> QED BY <1>1, <1>2, <1>4, <2>1, ExitQuietly DEF LocalTypes, Codes
<1>5. ASSUME First(p) \in whole, UNCHANGED <<local, code>>,
             NEW l \in {"symlink", "move", "unlink"}, Goto(p, l),
             l = "symlink" => image = None, l # "symlink" => image # None,
             l = "unlink" => placed # "somebody's" \/ image # "file"
      PROVE  Inductive'
  <2>1. pc' = [pc EXCEPT ![p] = l] /\ pc'[p] = l /\ UNCHANGED <<cmd, snap, todo, network, failed, code>>
    BY <1>5 DEF Goto, local, LocalTypes
  <2>2. LocalTypes' /\ Works(p)'
    BY <1>1, <1>2, <2>1 DEF LocalTypes, Pcs, Works
  <2>3. ASSUME apart PROVE Fits(p)'
    <3>1. CardsFit(p)'
      BY <1>1, <2>1 DEF CardsFit
    <3>2. CopiesFit(p)'
      BY <1>1, <1>2, <1>3, <2>1, <2>3 DEF CopiesFit, Pulling, First, Known, store
    <3>3. ImageFits(p)'
      BY <1>1, <1>5, <2>1 DEF ImageFits, First, store
    <3> QED BY <3>1, <3>2, <3>3 DEF Fits
  <2> QED BY <1>1, <1>2, <2>1, <2>2, <2>3, GoesOn DEF Pcs
<1>6. CASE First(p) \in whole
  <2>1. UNCHANGED <<local, code>>
    BY <1>6 DEF Look
  <2>2. CASE image = None
    <3>1. Goto(p, "symlink")
      BY <1>6, <2>2, Constants DEF Look
    <3> QED BY <1>5, <1>6, <2>1, <2>2, <3>1
  <2>3. CASE image = "file" /\ placed # First(p)
    <3>1. Goto(p, "move") /\ image # None
      BY <1>6, <2>3, Constants DEF Look
    <3> QED BY <1>5, <1>6, <2>1, <3>1
  <2>4. CASE image # None /\ (image # "file" \/ placed = First(p))
    <3>1. Goto(p, "unlink")
      BY <1>6, <2>4 DEF Look
    <3>2. placed # "somebody's" \/ image # "file"
      BY <1>2, <2>4, Constants
    <3> QED BY <1>5, <1>6, <2>1, <2>4, <3>1, <3>2
  <2> QED BY <2>2, <2>3, <2>4
<1> QED BY <1>4, <1>6 DEF Look

\* Nobody takes away what the only process that runs has seen.
LEMMA VanishedStep ==
  ASSUME Inductive, NEW p \in Processes, Vanished(p)
  PROVE  Inductive'
<1>1. /\ pc[p] \in {"unlink", "move"} /\ image = None /\ Exit(p, "crash")
      /\ UNCHANGED <<apart, store, commands, faults>> /\ "crash" \in Codes
  BY DEF Vanished, Codes
<1>2. Busy(p) /\ ~apart
  <2>1. Busy(p)
    BY <1>1 DEF Busy
  <2> QED BY <1>1, <2>1, BusyFacts DEF Fits, ImageFits
<1> QED BY <1>1, <1>2, ExitQuietly DEF Inductive, LocalTypes

\* The path is cleared: what a hand put there is beside it.
LEMMA ClearStep ==
  ASSUME Inductive, NEW p \in Processes, Unlink(p) \/ Move(p)
  PROVE  Inductive'
<1> USE DEF Inductive
<1>1. /\ pc[p] \in {"unlink", "move"} /\ image # None /\ image' = None
      /\ pc' = [pc EXCEPT ![p] = "symlink"]
      /\ UNCHANGED <<apart, table, whole, placed, served, local, code, faults>>
      /\ pc[p] = "unlink" => aside' = aside
      /\ pc[p] = "move" => aside' = (aside \/ image = "file")
  BY DEF Unlink, Move, Goto
<1>2. /\ Busy(p) /\ Works(p) /\ (apart => Fits(p)) /\ First(p) \in Ids
      /\ cmd[p].do = "provision"
  BY <1>1, BusyFacts DEF Busy, Works
<1>3. UNCHANGED <<cmd, snap, todo, network, failed, code>> /\ pc'[p] = "symlink"
  BY <1>1 DEF local, LocalTypes
<1>4. StoreTypes' /\ LocalTypes' /\ Works(p)'
  <2>1. aside' \in BOOLEAN
    BY <1>1 DEF StoreTypes
  <2> QED BY <1>1, <1>2, <1>3, <2>1 DEF StoreTypes, LocalTypes, Works, Pcs
<1>5. ASSUME apart
      PROVE  ServedHasACard' /\ ServedIsKept' /\ HandImageIsKept' /\ Fits(p)'
  <2>1. ServedHasACard' /\ ServedIsKept'
    BY <1>1, <1>5, Constants DEF CardsAreThere, ServedHasACard, ServedIsKept
  <2>2. HandImageIsKept'
    <3> SUFFICES ASSUME placed = "somebody's" PROVE aside'
      BY <1>1 DEF HandImageIsKept
    <3>1. image = "file" \/ aside
      BY <1>5 DEF ImagesAreKept, HandImageIsKept
    <3>2. CASE pc[p] = "unlink"
      BY <1>1, <1>2, <1>5, <3>1, <3>2 DEF Fits, ImageFits
    <3>3. CASE pc[p] = "move"
      BY <1>1, <3>1, <3>3
    <3> QED BY <1>1, <3>2, <3>3
  <2>3. CardsFit(p)' /\ ImageFits(p)'
    BY <1>1, <1>2, <1>3, <1>5 DEF Fits, CardsFit, ImageFits, First
  <2>4. CopiesFit(p)'
    BY <1>1, <1>2, <1>3, <1>5 DEF Fits, CopiesFit, Pulling, First, Known
  <2> QED BY <2>1, <2>2, <2>3, <2>4 DEF Fits
<1>6. apart => \A q \in Processes \ {p} : ~Busy(q)
  BY <1>2 DEF OneAtATime
<1> QED BY <1>1, <1>3, <1>4, <1>5, <1>6, StepKeeps DEF Pcs

LEMMA SymlinkStep ==
  ASSUME Inductive, NEW p \in Processes, Symlink(p)
  PROVE  Inductive'
<1> USE DEF Inductive
<1>1. /\ pc[p] = "symlink"
      /\ UNCHANGED <<apart, table, copies, whole, aside, placed, served, commands, faults>>
  BY DEF Symlink
<1>2. /\ Busy(p) /\ Works(p) /\ (apart => Fits(p)) /\ First(p) \in Ids
      /\ cmd[p].do = "provision"
  BY <1>1, BusyFacts DEF Busy, Works
<1>3. CASE image # None /\ Exit(p, "infra") /\ UNCHANGED image
  <2>1. ~apart
    BY <1>1, <1>2, <1>3 DEF Fits, ImageFits
  <2> QED BY <1>1, <1>2, <1>3, <2>1, ExitQuietly DEF LocalTypes, Codes, store
<1>4. CASE image = None /\ image' = First(p) /\ Goto(p, "remember") /\ UNCHANGED <<local, code>>
  <2>1. /\ UNCHANGED <<cmd, snap, todo, network, failed, code>>
        /\ pc' = [pc EXCEPT ![p] = "remember"] /\ pc'[p] = "remember"
    BY <1>4 DEF local, LocalTypes, Goto
  <2>2. StoreTypes' /\ LocalTypes' /\ Works(p)'
    BY <1>1, <1>2, <1>4, <2>1 DEF StoreTypes, LocalTypes, Works, Pcs
  <2>3. ASSUME apart
        PROVE  ServedHasACard' /\ ServedIsKept' /\ HandImageIsKept' /\ Fits(p)'
    <3>1. First(p) \in whole
      BY <1>1, <1>2, <2>3 DEF Fits, ImageFits
    <3>2. ServedHasACard' /\ ServedIsKept'
      BY <1>1, <1>4, <2>3, <3>1 DEF CardsAreThere, ServedHasACard, ServedIsKept
    <3>3. HandImageIsKept'
      BY <1>1, <1>4, <2>3, Constants DEF ImagesAreKept, HandImageIsKept
    <3>4. CardsFit(p)' /\ ImageFits(p)'
      BY <1>1, <1>2, <1>4, <2>1, <3>1 DEF CardsFit, ImageFits, First
    <3>5. CopiesFit(p)'
      BY <1>1, <1>2, <2>1, <2>3 DEF Fits, CopiesFit, Pulling, First, Known
    <3> QED BY <3>2, <3>3, <3>4, <3>5 DEF Fits
  <2>4. apart => \A q \in Processes \ {p} : ~Busy(q)
    BY <1>2 DEF OneAtATime
  <2> QED BY <1>1, <2>1, <2>2, <2>3, <2>4, StepKeeps DEF Pcs
<1> QED BY <1>3, <1>4 DEF Symlink

LEMMA PublishStep ==
  ASSUME Inductive, NEW p \in Processes, Publish(p)
  PROVE  Inductive'
<1> USE DEF Inductive
<1>1. pc[p] = "publish" /\ UNCHANGED <<apart, store, commands, faults>>
  BY DEF Publish
<1>2. /\ Busy(p) /\ Works(p) /\ (apart => Fits(p)) /\ First(p) \in Ids
      /\ cmd[p].do = "publish" /\ table \in [Ids -> Cards]
  BY <1>1, BusyFacts DEF Busy, Works, StoreTypes
<1>3. apart /\ faults = 0 => whole \subseteq Known(table)
  BY <1>1, <1>2 DEF Fits, CopiesFit
<1>4. CASE Exit(p, "infra")
  BY <1>1, <1>2, <1>3, <1>4, ExitQuietly DEF LocalTypes, Codes
<1>5. CASE ~Exit(p, "infra")
  <2>1. PICK known : known = [table EXCEPT ![First(p)] = Merged(@, "local")]
    OBVIOUS
  <2>2. /\ image \in {"file"} \cup whole
        /\ snap' = [snap EXCEPT ![p] = known] /\ pc' = [pc EXCEPT ![p] = "save"]
        /\ UNCHANGED <<cmd, todo, network, failed, code>>
    BY <1>5, <2>1 DEF Publish, Goto
  <2>3. /\ known \in [Ids -> Cards] /\ NoneIsLost(table, known)
        /\ known[First(p)] # "no card" /\ Known(table) \subseteq Known(known)
    <3>1. table[First(p)] \in Cards /\ "local" \in Urls
      BY <1>2 DEF Urls
    <3>2. /\ Merged(table[First(p)], "local") \in Urls
          /\ table[First(p)] = "own" => Merged(table[First(p)], "local") = "own"
          /\ "no card" \notin Urls
      BY <3>1, MergedFacts
    <3> QED BY <1>2, <2>1, <3>2 DEF NoneIsLost, Known, Cards
  <2>4. LocalTypes' /\ pc'[p] = "save" /\ snap'[p] = known
    BY <1>1, <2>2, <2>3 DEF LocalTypes, Pcs
  <2>5. Works(p)'
    BY <1>2, <2>2, <2>4 DEF Works
  <2>6. ASSUME apart PROVE Fits(p)'
    <3>1. CardsFit(p)'
      BY <1>1, <2>2, <2>3, <2>4 DEF CardsFit, First, store
    <3>2. CopiesFit(p)'
      <4>1. faults = 0 => whole \subseteq Known(known)
        BY <1>3, <2>3, <2>6
      <4> QED BY <1>1, <1>2, <2>2, <2>4, <4>1 DEF CopiesFit, Pulling, Known, store
    <3>3. ImageFits(p)'
      BY <1>1, <1>2, <2>2, <2>4 DEF ImageFits, store
    <3> QED BY <3>1, <3>2, <3>3 DEF Fits
  <2> QED BY <1>1, <1>2, <2>2, <2>4, <2>5, <2>6, GoesOn DEF Pcs
<1> QED BY <1>4, <1>5

\* The record names the image it serves, whose card was saved before.
LEMMA RecordStep ==
  ASSUME Inductive, NEW p \in Processes, Record(p)
  PROVE  Inductive'
<1> USE DEF Inductive
<1>1. /\ pc[p] = "record" /\ served' = First(p) /\ Exit(p, "pass") /\ "pass" \in Codes
      /\ UNCHANGED <<apart, table, copies, whole, image, aside, placed, commands, faults>>
  BY DEF Record, Codes
<1>2. /\ Busy(p) /\ Works(p) /\ (apart => Fits(p)) /\ First(p) \in Ids
  BY <1>1, BusyFacts DEF Busy, Works
<1>3. StoreTypes'
  BY <1>1, <1>2 DEF StoreTypes
<1>4. ASSUME apart
      PROVE  /\ ServedHasACard' /\ ServedIsKept' /\ HandImageIsKept'
             /\ faults = 0 => whole \subseteq Known(table)
  <2>1. ServedHasACard' /\ (faults = 0 => whole \subseteq Known(table))
    BY <1>1, <1>2, <1>4 DEF Fits, CardsFit, CopiesFit, ServedHasACard
  <2>2. ServedIsKept'
    BY <1>1, <1>2, <1>4, Constants DEF Fits, ImageFits, ServedIsKept, Works
  <2>3. HandImageIsKept'
    BY <1>1, <1>4 DEF ImagesAreKept, HandImageIsKept
  <2> QED BY <2>1, <2>2, <2>3
<1> QED BY <1>1, <1>2, <1>3, <1>4, ExitKeeps DEF LocalTypes, Known

-----------------------------------------------------------------------------
(* Retention, and death.                                                   *)

\* What is served is no part of a plan.
LEMMA PlanStep ==
  ASSUME Inductive, NEW p \in Processes, Plan(p)
  PROVE  Inductive'
<1> USE DEF Inductive
<1>1. PICK plan \in Orders : InPruneOrder(plan) /\ todo' = [todo EXCEPT ![p] = plan]
  BY DEF Plan
<1>2. /\ pc[p] = "plan" /\ pc' = [pc EXCEPT ![p] = "remove"]
      /\ UNCHANGED <<apart, store, cmd, snap, network, failed, code, commands, faults>>
  BY DEF Plan, Goto
<1>3. Busy(p) /\ Works(p) /\ (apart => Fits(p)) /\ cmd[p].do = "prune"
  BY <1>2, BusyFacts DEF Busy, Works
<1>4. plan \in Seq(Ids) /\ \A i \in DOMAIN plan : plan[i] # served
  <2>1. \A i \in DOMAIN plan : plan[i] \in Removals
    BY <1>1 DEF InPruneOrder, ToSet
  <2>2. PICK n \in 0..Cardinality(Ids) : plan \in [1..n -> Ids]
    BY DEF Orders
  <2>3. n \in Nat
    BY <2>2
  <2> QED BY <2>1, <2>2, <2>3 DEF Removals
<1>5. LocalTypes' /\ pc'[p] = "remove" /\ todo'[p] = plan /\ Works(p)'
  BY <1>1, <1>2, <1>3, <1>4 DEF LocalTypes, Pcs, Works
<1>6. ASSUME apart PROVE Fits(p)'
  <2>1. CardsFit(p)' /\ ImageFits(p)'
    BY <1>2, <1>3, <1>4, <1>5 DEF CardsFit, ImageFits, store
  <2>2. CopiesFit(p)'
    BY <1>2, <1>3, <1>5, <1>6 DEF Fits, CopiesFit, Pulling, Known, store
  <2> QED BY <2>1, <2>2 DEF Fits
<1> QED BY <1>1, <1>2, <1>3, <1>5, <1>6, GoesOn DEF Pcs, LocalTypes

LEMMA RmtreeStep ==
  ASSUME Inductive, NEW p \in Processes, Rmtree(p)
  PROVE  Inductive'
<1> USE DEF Inductive
<1>1. pc[p] = "remove" /\ UNCHANGED <<apart, table, image, aside, placed, served, commands, faults>>
  BY DEF Rmtree
<1>2. /\ Busy(p) /\ Works(p) /\ (apart => Fits(p)) /\ cmd[p].do = "prune"
      /\ todo[p] \in Seq(Ids)
  BY <1>1, BusyFacts DEF Busy, Works
<1>3. apart /\ faults = 0 => whole \subseteq Known(table)
  BY <1>1, <1>2 DEF Fits, CopiesFit
<1>4. CASE UNCHANGED <<copies, whole>> /\ \E status \in Codes : Exit(p, status)
  BY <1>1, <1>2, <1>3, <1>4, ExitQuietly DEF LocalTypes, store
<1>5. CASE /\ todo[p] # <<>> /\ whole' = whole \ {First(p)}
           /\ todo' = [todo EXCEPT ![p] = Tail(@)]
           /\ UNCHANGED <<pc, cmd, snap, network, failed, code>>
  <2>1. /\ Tail(todo[p]) \in Seq(Ids) /\ First(p) = todo[p][1] /\ 1 \in DOMAIN todo[p]
        /\ \A i \in DOMAIN Tail(todo[p]) : i + 1 \in DOMAIN todo[p] /\ Tail(todo[p])[i] = todo[p][i + 1]
    BY <1>2, <1>5, HandFacts, HeadTailProperties DEF First
  <2>2. pc' = [pc EXCEPT ![p] = "remove"] /\ pc'[p] = "remove" /\ todo'[p] = Tail(todo[p])
    BY <1>1, <1>5 DEF LocalTypes
  <2>3. StoreTypes' /\ LocalTypes' /\ Works(p)'
    BY <1>1, <1>2, <1>5, <2>1, <2>2 DEF StoreTypes, LocalTypes, Works
  <2>4. ASSUME apart
        PROVE  ServedHasACard' /\ ServedIsKept' /\ HandImageIsKept' /\ Fits(p)'
    <3>1. \A i \in DOMAIN todo[p] : todo[p][i] # served
      BY <1>1, <1>2, <2>4 DEF Fits, ImageFits
    <3>2. ServedHasACard' /\ HandImageIsKept'
      BY <1>1, <2>4 DEF CardsAreThere, ImagesAreKept, ServedHasACard, HandImageIsKept
    <3>3. ServedIsKept'
      BY <1>1, <1>5, <2>1, <2>4, <3>1 DEF ImagesAreKept, ServedIsKept
    <3>4. CardsFit(p)' /\ ImageFits(p)'
      <4>1. \A i \in DOMAIN Tail(todo[p]) : Tail(todo[p])[i] # served
        BY <2>1, <3>1
      <4>2. CardsFit(p)'
        BY <2>2 DEF CardsFit
      <4>3. ImageFits(p)'
        BY <1>1, <1>2, <1>5, <2>2, <4>1 DEF ImageFits
      <4> QED BY <4>2, <4>3
    <3>5. CopiesFit(p)'
      BY <1>1, <1>2, <1>3, <1>5, <2>2, <2>4 DEF CopiesFit, Pulling, Known
    <3> QED BY <3>2, <3>3, <3>4, <3>5 DEF Fits
  <2>5. apart => \A q \in Processes \ {p} : ~Busy(q)
    BY <1>2 DEF OneAtATime
  <2>6. \A q \in Processes \ {p} : cmd'[q] = cmd[q] /\ todo'[q] = todo[q]
    BY <1>5 DEF LocalTypes
  <2> QED BY <1>1, <2>2, <2>3, <2>4, <2>5, <2>6, StepKeeps DEF Pcs
<1>6. \/ UNCHANGED <<copies, whole>> /\ \E status \in Codes : Exit(p, status)
      \/ /\ todo[p] # <<>> /\ whole' = whole \ {First(p)}
         /\ todo' = [todo EXCEPT ![p] = Tail(@)]
         /\ UNCHANGED <<pc, cmd, snap, network, failed, code>>
  <2>1. "pass" \in Codes /\ "infra" \in Codes
    BY DEF Codes
  <2> QED BY <2>1 DEF Rmtree
<1> QED BY <1>4, <1>5, <1>6

LEMMA RmtreeFailsStep ==
  ASSUME Inductive, NEW p \in Processes, RmtreeFails(p)
  PROVE  Inductive'
<1> USE DEF Inductive
<1>1. /\ pc[p] = "remove" /\ faults' = faults + 1 /\ whole' = whole \ {First(p)}
      /\ Exit(p, "infra") /\ "infra" \in Codes
      /\ UNCHANGED <<apart, table, copies, image, aside, placed, served, commands>>
  BY DEF RmtreeFails, Codes
<1>2. Busy(p) /\ StoreTypes' /\ faults' \in Nat /\ faults' # 0
  BY <1>1 DEF Busy, StoreTypes, LocalTypes
<1>3. apart => ServedHasACard' /\ ServedIsKept' /\ HandImageIsKept'
  BY <1>1, <1>2 DEF CardsAreThere, ImagesAreKept, ServedHasACard, ServedIsKept, HandImageIsKept
<1> QED BY <1>1, <1>2, <1>3, ExitKeeps

LEMMA DieStep ==
  ASSUME Inductive, NEW p \in Processes, Die(p)
  PROVE  Inductive'
<1>1. /\ Busy(p) /\ faults' = faults + 1 /\ Exit(p, None) /\ None \in Codes
      /\ UNCHANGED <<apart, store, commands>>
  BY DEF Die, Codes
<1>2. faults' \in Nat /\ faults' # 0
  BY <1>1 DEF Inductive, LocalTypes
<1> QED BY <1>1, <1>2, ExitQuietly

-----------------------------------------------------------------------------
(* The theorems.                                                           *)

LEMMA InductiveInit == Init => Inductive
<1> SUFFICES ASSUME Init PROVE Inductive
  OBVIOUS
<1> USE DEF Init
<1>1. StoreTypes /\ LocalTypes
  BY Constants, EmptySeq DEF StoreTypes, LocalTypes, Pcs
<1>2. \A p \in Processes : ~Busy(p)
  BY DEF Busy
<1>3. ServedHasACard /\ PulledIsRegistered
  BY DEF ServedHasACard, PulledIsRegistered, Known
<1>4. ServedIsKept /\ HandImageIsKept
  BY Constants DEF ServedIsKept, HandImageIsKept
<1> QED
  BY <1>1, <1>2, <1>3, <1>4 DEF Inductive, OneAtATime, CardsAreThere, ImagesAreKept

LEMMA Stutters ==
  ASSUME Inductive, UNCHANGED vars
  PROVE  Inductive'
<1> USE DEF vars, store, local, Inductive
<1>1. StoreTypes' /\ LocalTypes'
  BY DEF StoreTypes, LocalTypes
<1>2. \A p \in Processes : (Busy(p)' <=> Busy(p)) /\ (Works(p)' <=> Works(p))
  BY DEF Busy, Works
<1>3. ASSUME NEW p \in Processes, Fits(p) PROVE Fits(p)'
  <2>1. CardsFit(p)'
    BY <1>3 DEF Fits, CardsFit, NoneIsLost, Pulling, First
  <2>2. CopiesFit(p)'
    BY <1>3 DEF Fits, CopiesFit, Pulling, First, Known
  <2>3. ImageFits(p)'
    BY <1>3 DEF Fits, ImageFits, First
  <2> QED BY <2>1, <2>2, <2>3 DEF Fits
<1>4. OneAtATime' <=> OneAtATime
  BY DEF OneAtATime, Busy
<1>5. apart => CardsAreThere' /\ ImagesAreKept'
  BY <1>2 DEF CardsAreThere, ImagesAreKept, ServedHasACard, PulledIsRegistered, ServedIsKept,
              HandImageIsKept, Known
<1> QED BY <1>1, <1>2, <1>3, <1>4, <1>5

LEMMA InductiveStep == Inductive /\ [Next]_vars => Inductive'
<1> SUFFICES ASSUME Inductive, [Next]_vars PROVE Inductive'
  OBVIOUS
<1>1. CASE UNCHANGED vars
  BY <1>1, Stutters
<1>2. ASSUME NEW p \in Processes,
             Begin(p) \/ TableStep(p) \/ ImageStep(p) \/ CopyStep(p) \/ Die(p)
      PROVE  Inductive'
  <2>1. CASE Begin(p) \/ Die(p)
    BY <2>1, BeginStep, DieStep
  <2>2. CASE TableStep(p)
    BY <2>2, IndexStep, SaveStep, RememberStep, NoSuchBuildStep DEF TableStep
  <2>3. CASE ImageStep(p)
    BY <2>3, LookStep, VanishedStep, ClearStep, SymlinkStep, PublishStep, RecordStep DEF ImageStep
  <2>4. CASE CopyStep(p)
    BY <2>4, MakeStep, MakeFailsStep, PlanStep, RmtreeStep, RmtreeFailsStep DEF CopyStep
  <2> QED BY <1>2, <2>1, <2>2, <2>3, <2>4
<1> QED BY <1>1, <1>2 DEF Next

\* The table, the copies and the image fit what each command is about to do, wherever
\* it dies.
THEOREM Invariance == Spec => []Inductive
<1> QED BY InductiveInit, InductiveStep, PTL DEF Spec

\* The build that is recorded as served has a card (publish.py, `provision`), and between
\* commands every whole copy has one (table.py, `Builds.remember`).
THEOREM CardsThere == Spec => []CardsAreThere
<1>1. Inductive => CardsAreThere
  BY DEF Inductive, CardsAreThere, ServedHasACard, PulledIsRegistered
<1> QED BY <1>1, Invariance, PTL

\* The image a command serves is not pruned (prune.py: "never removed whatever its age")
\* and the one somebody put at the path is not lost (publish.py, `_link_served`).
THEOREM ImagesKept == Spec => []ImagesAreKept
<1>1. Inductive => ImagesAreKept
  BY DEF Inductive, ImagesAreKept, ServedIsKept, HandImageIsKept
<1> QED BY <1>1, Invariance, PTL

-----------------------------------------------------------------------------
(* What a step may not do.                                                 *)

\* Only a save changes the table.
LEMMA TableStays ==
  ASSUME Inductive, apart, [Next]_vars
  PROVE  NoneIsLost(table, table')
<1>1. CASE table' = table
  BY <1>1 DEF NoneIsLost
<1>2. CASE \E p \in Processes : Save(p)
  <2>1. PICK p \in Processes : pc[p] = "save" /\ table' = snap[p]
    BY <1>2 DEF Save
  <2>2. Fits(p)
    BY <2>1, BusyFacts DEF Busy
  <2> QED BY <2>1, <2>2 DEF Fits, CardsFit
<1>3. table' = table \/ \E p \in Processes : Save(p)
  BY DEF Next, vars, store, Begin, Die, TableStep, Index, Remember, NoSuchBuild, ImageStep, Look,
         Vanished, Unlink, Move, Symlink, Publish, Record, CopyStep, Make, MakeFails, Plan,
         Rmtree, RmtreeFails
<1> QED BY <1>1, <1>2, <1>3

\* Cards are only added, and a URL that names its build is never given up (model.py,
\* `Build.merge`), whichever commands run one after the other and wherever they die.
THEOREM CardsAreKept == Spec => CardsStay
<1>1. Inductive /\ [Next]_vars =>
        [apart => \A b \in Ids :
            /\ table[b] # "no card" => table'[b] # "no card"
            /\ table[b] = "own" => table'[b] = "own"]_vars
  BY TableStays DEF NoneIsLost
<1> QED BY <1>1, Invariance, PTL DEF Spec, CardsStay

\* A pull ends with a pass only where it saves, having failed for no build and having
\* none left.
LEMMA PassesMeanPulled ==
  ASSUME Inductive, apart, Next, NEW p \in Processes,
         Busy(p), ~Busy(p)', code'[p] = "pass", Pulling(p)
  PROVE  ToSet(cmd[p].ids) \subseteq whole
<1> USE DEF Inductive
<1>1. PICK q \in Processes :
         Begin(q) \/ TableStep(q) \/ ImageStep(q) \/ CopyStep(q) \/ Die(q)
  BY DEF Next
<1>2. q = p
  <2>1. \E l : pc' = [pc EXCEPT ![q] = l] \/ pc' = pc
    BY <1>1 DEF Begin, Die, TableStep, Index, Save, Remember, NoSuchBuild, ImageStep, Look,
         Vanished, Unlink, Move, Symlink, Publish, Record, CopyStep, Make, MakeFails, Made, Plan,
         Rmtree, RmtreeFails, Exit, Goto
  <2> QED BY <2>1 DEF Busy, LocalTypes
<1>3. Works(p) /\ Fits(p)
  BY BusyFacts
<1>4. \A status : Exit(p, status) => status = "pass"
  BY DEF Exit, LocalTypes
<1>5. \A l \in Pcs \ {"idle"} : ~Goto(p, l)
  BY DEF Goto, Busy, LocalTypes
<1>6. ~Begin(p) /\ ~Die(p)
  BY <1>4, Constants DEF Begin, Die, Busy
<1>7. ~ImageStep(p)
  BY <1>3, <1>4, <1>5 DEF ImageStep, Look, Vanished, Unlink, Move, Symlink, Publish, Record,
                          Works, Pulling, Pcs
<1>8. ~CopyStep(p)
  <2>1. ~Make(p) /\ ~MakeFails(p)
    BY <1>4, <1>5, MadeFacts DEF Make, MakeFails, Made, Busy, Pcs
  <2>2. ~Plan(p) /\ ~Rmtree(p) /\ ~RmtreeFails(p)
    BY <1>3 DEF Plan, Rmtree, RmtreeFails, Works, Pulling
  <2> QED BY <2>1, <2>2 DEF CopyStep
<1>9. Save(p)
  BY <1>1, <1>2, <1>3, <1>4, <1>5, <1>6, <1>7, <1>8
     DEF TableStep, Index, Remember, NoSuchBuild, Works, Pulling, Pcs
<1>10. todo[p] = <<>> /\ Exit(p, Status(p))
  BY <1>5, <1>9 DEF Save, Pulling, Pcs
<1>11. ~failed[p]
  BY <1>4, <1>10 DEF Status
<1> QED BY <1>3, <1>10, <1>11 DEF Fits, CopiesFit, ToSet

\* A pull that exits 0 has left every build it was asked for (table.py, `_pull`).
THEOREM PassIsPulled == Spec => PassMeansPulled
<1>1. Inductive /\ [Next]_vars =>
        [apart => \A p \in Processes :
            Busy(p) /\ ~Busy(p)' /\ code'[p] = "pass" /\ Pulling(p)
                => ToSet(cmd[p].ids) \subseteq whole]_vars
  BY PassesMeanPulled
<1> QED BY <1>1, Invariance, PTL DEF Spec, PassMeansPulled

-----------------------------------------------------------------------------
(* The directories of the copies.                                          *)

\* A copy that is whole has its directory.
OnDisk == copies \in Seq(Ids) /\ whole \subseteq ToSet(copies)

\* What is left of a list of directories without one of them.
LEMMA LeftOf ==
  ASSUME NEW s \in Seq(Ids), NEW b
  PROVE  LET left == Those(s, {i \in DOMAIN s : s[i] # b})
         IN  left \in Seq(Ids) /\ ToSet(left) = ToSet(s) \ {b}
<1> DEFINE at == {i \in DOMAIN s : s[i] # b}
           left == Those(s, at)
<1>1. at \subseteq DOMAIN s
  OBVIOUS
<1>2. {s[i] : i \in at} = ToSet(s) \ {b}
  BY DEF ToSet
<1> HIDE DEF at
<1>3. left \in Seq(Ids) /\ ToSet(left) = {s[i] : i \in at}
  BY <1>1, ThoseHold
<1> QED BY <1>2, <1>3 DEF at

LEMMA TouchedIs ==
  ASSUME copies \in Seq(Ids), NEW b \in Ids
  PROVE  Touched(b) \in Seq(Ids) /\ ToSet(Touched(b)) = ToSet(copies) \cup {b}
<1> DEFINE left == Those(copies, {i \in DOMAIN copies : copies[i] # b})
<1>1. left \in Seq(Ids) /\ ToSet(left) = ToSet(copies) \ {b}
  BY LeftOf
<1>2. Touched(b) = Append(left, b)
  BY DEF Touched, Such
<1> DEFINE one == <<b>>
<1>3. Append(left, b) = left \o one
  BY <1>1, AppendIsConcat
<1>4. one \in Seq(Ids) /\ DOMAIN one = {1} /\ one[1] = b
  OBVIOUS
<1> HIDE DEF left, one
<1>5. ToSet(one) = {b}
  BY <1>4 DEF ToSet
<1>6. left \o one \in Seq(Ids) /\ ToSet(left \o one) = ToSet(left) \cup ToSet(one)
  BY <1>1, <1>4, ToSetConcat
<1> QED BY <1>1, <1>2, <1>3, <1>5, <1>6

LEMMA StaysOnDisk ==
  ASSUME Inductive, OnDisk, [Next]_vars
  PROVE  OnDisk'
<1>1. CASE UNCHANGED vars
  BY <1>1 DEF OnDisk, vars, store
<1>2. CASE Next
  <2>1. PICK p \in Processes :
           Begin(p) \/ TableStep(p) \/ ImageStep(p) \/ CopyStep(p) \/ Die(p)
    BY <1>2 DEF Next
  <2>2. CASE Begin(p) \/ TableStep(p) \/ ImageStep(p) \/ Die(p)
    <3>1. UNCHANGED <<copies, whole>>
      BY <2>2 DEF Begin, Die, TableStep, Index, Save, Remember, NoSuchBuild, ImageStep, Look,
         Vanished, Unlink, Move, Symlink, Publish, Record, store
    <3> QED BY <3>1 DEF OnDisk
  <2>3. CASE Make(p) \/ MakeFails(p)
    <3>1. pc[p] = "make" /\ First(p) \in Ids
      <4>1. pc[p] = "make" /\ Busy(p)
        BY <2>3 DEF Make, MakeFails, Busy
      <4> QED BY <4>1, BusyFacts DEF Works
    <3>2. Touched(First(p)) \in Seq(Ids) /\ ToSet(Touched(First(p))) = ToSet(copies) \cup {First(p)}
      BY <3>1, TouchedIs DEF OnDisk
    <3>3. \/ copies' = Touched(First(p)) /\ whole' = whole \cup {First(p)}
          \/ copies' \in {copies, Touched(First(p))} /\ whole' = whole
      BY <2>3 DEF Make, MakeFails
    <3> QED BY <3>2, <3>3 DEF OnDisk
  <2>4. CASE Plan(p) \/ RmtreeFails(p)
    <3>1. copies' = copies /\ whole' \subseteq whole
      BY <2>4 DEF Plan, RmtreeFails, store
    <3> QED BY <3>1 DEF OnDisk
  <2>5. CASE Rmtree(p)
    <3> DEFINE left == Those(copies, {i \in DOMAIN copies : copies[i] # First(p)})
    <3>1. \/ UNCHANGED <<copies, whole>>
          \/ copies' = left /\ whole' = whole \ {First(p)}
      BY <2>5 DEF Rmtree, Such
    <3>2. left \in Seq(Ids) /\ ToSet(left) = ToSet(copies) \ {First(p)}
      BY LeftOf DEF OnDisk
    <3> HIDE DEF left
    <3> QED BY <3>1, <3>2 DEF OnDisk
  <2> QED BY <2>1, <2>2, <2>3, <2>4, <2>5 DEF CopyStep
<1> QED BY <1>1, <1>2

\* Whatever is whole has a directory (fetch.py makes it before it writes into it, and
\* prune.py removes it last).
THEOREM WholeIsOnDisk == Spec => []OnDisk
<1>1. Init => OnDisk
  BY DEF Init, OnDisk, ToSet
<1>2. Inductive /\ OnDisk /\ [Next]_vars => OnDisk'
  BY StaysOnDisk
<1> QED BY <1>1, <1>2, Invariance, PTL DEF Spec

-----------------------------------------------------------------------------
(* The smart button.                                                       *)

\* Whatever is ticked, the command the button picks is one that every row it acts on
\* can take: the rows furthest behind pick it.
LEMMA SmartIsRight ==
  ASSUME NEW w
  PROVE  SmartGoesThrough(w)
<1> DEFINE stage == [b \in Ids |-> Stage(w, b)]
<1> SUFFICES ASSUME NEW ticks \in (SUBSET Ids) \ {{}}
             PROVE  LET acted == Press!ActedOn("smart", stage, ticks)
                        behind == {b \in ticks : b \notin w.card \/ Present(w, b) = {}}
                    IN CASE Press!CommandOf("smart", stage, ticks) = "index_pull" ->
                                acted = behind /\ ~(acted \subseteq w.card)
                         [] Press!CommandOf("smart", stage, ticks) = "pull" ->
                                acted = behind /\ acted \subseteq w.card /\ acted # {}
                         [] Press!CommandOf("smart", stage, ticks) = "run" ->
                                acted = ticks /\ \A b \in acted : b \in w.card /\ Present(w, b) # {}
  BY DEF SmartGoesThrough
<1>1. \A b \in Ids : /\ stage[b] \in {1, 2, 3}
                     /\ stage[b] = 1 <=> b \notin w.card
                     /\ stage[b] = 2 <=> b \in w.card /\ Present(w, b) = {}
                     /\ stage[b] = 3 <=> b \in w.card /\ Present(w, b) # {}
  BY DEF Stage, Press!Unknown, Press!Known, Press!Held
<1> HIDE DEF stage
<1> DEFINE phase == Press!Phase(stage, ticks)
           command == Press!CommandOf("smart", stage, ticks)
           acted == Press!ActedOn("smart", stage, ticks)
<1>2. /\ phase \in {stage[b] : b \in ticks} /\ \A b \in ticks : phase <= stage[b]
  <2>1. {stage[b] : b \in ticks} \subseteq Nat /\ {stage[b] : b \in ticks} # {}
    BY <1>1
  <2>2. \E s \in {stage[b] : b \in ticks} : \A y \in {stage[b] : b \in ticks} : s <= y
    BY <2>1, LeastElement
  <2>3. \E s \in {stage[b] : b \in ticks} : \A b \in ticks : s <= stage[b]
    BY <2>2
  <2> QED BY <2>3 DEF Press!Phase
<1>3. /\ command = CASE phase = 1 -> "index_pull" [] phase = 2 -> "pull" [] phase = 3 -> "run"
      /\ acted = {b \in ticks : stage[b] <= (IF phase = 3 THEN 3 ELSE 2)}
  BY DEF Press!CommandOf, Press!SmartStep, Press!ActedOn, Press!SmartActed, Press!Unknown,
         Press!Known, Press!Held
<1> HIDE DEF phase, command, acted
<1>4. PICK least \in ticks : stage[least] = phase
  BY <1>2
<1>5. CASE phase = 1
  <2>1. command = "index_pull" /\ least \in acted /\ least \notin w.card
    BY <1>1, <1>3, <1>4, <1>5
  <2>2. acted = {b \in ticks : b \notin w.card \/ Present(w, b) = {}}
    BY <1>1, <1>3, <1>5
  <2> QED BY <2>1, <2>2 DEF acted, command
<1>6. CASE phase = 2
  <2>1. command = "pull" /\ least \in acted /\ Present(w, least) = {}
    BY <1>1, <1>3, <1>4, <1>6
  <2>2. acted \subseteq w.card
    BY <1>1, <1>2, <1>3, <1>6
  <2>3. acted = {b \in ticks : b \notin w.card \/ Present(w, b) = {}}
    BY <1>1, <1>3, <1>6
  <2> QED BY <2>1, <2>2, <2>3 DEF acted, command
<1>7. CASE phase = 3
  <2>1. command = "run" /\ \A b \in ticks : stage[b] = 3
    BY <1>1, <1>2, <1>3, <1>7
  <2>2. acted = ticks /\ \A b \in acted : b \in w.card /\ Present(w, b) # {}
    BY <1>1, <1>3, <1>7, <2>1
  <2> QED BY <2>1, <2>2 DEF acted, command
<1> QED BY <1>1, <1>2, <1>4, <1>5, <1>6, <1>7

-----------------------------------------------------------------------------
(* The jobs page.                                                          *)

\* What the query of a question says of a key.
IsQuery(q) ==
    \A k \in Keys : k \in DOMAIN q =>
        /\ q[k] \in Seq(ToSet(q[k]))
        /\ \A value \in ToSet(q[k]) : value \in Seq(IF k \in Numbers THEN Int ELSE ToSet(value))

\* The numbers of a question are natural, and it names one test there is, or none.
LEMMA QuestionFacts ==
  ASSUME NEW f \in Questions
  PROVE  /\ f["offset"][1] \in Nat /\ f["limit"][1] \in Nat
         /\ f["test"] \in Seq(Tests)
         /\ TestsOf(f) \in Seq(Tests)
<1>0. DefaultLimit \in Int /\ MaxLimit \in Nat /\ MaxLimit >= 1
  <2>1. DefaultLimit \in 1..MaxLimit /\ MaxLimit \in Nat
    BY Zenon, QuestionsAssumption
  <2> QED BY <2>1
<1>1. PICK q \in Asked : f = FromQuery(q)
  BY DEF Questions
<1>2. IsQuery(q)
  BY DeskAssumption DEF IsQuery
<1>3. /\ "offset" \in Keys /\ "limit" \in Keys /\ "test" \in Keys
      /\ "offset" \in Numbers /\ "limit" \in Numbers
      /\ {"offset", "limit", "test"} \cap Fields = {}
  BY QuestionsAssumption DEF Keys, Numbers, OneOf
<1>4. ASSUME NEW k \in Keys, FirstValue(q, k) # <<>>
      PROVE  FirstValue(q, k) \in Seq(IF k \in Numbers THEN Int ELSE ToSet(FirstValue(q, k)))
  <2>1. k \in DOMAIN q /\ q[k] # <<>> /\ FirstValue(q, k) = Head(q[k])
    BY <1>4 DEF FirstValue, Values
  <2>2. q[k] \in Seq(ToSet(q[k]))
    BY <1>2, <2>1 DEF IsQuery
  <2>3. Head(q[k]) \in ToSet(q[k])
    BY <2>1, <2>2, HeadTailProperties
  <2> QED BY <1>2, <2>1, <2>3 DEF IsQuery
<1>5. ASSUME NEW k \in {"offset", "limit"} PROVE Number(q, k) \in Int
  <2>1. CASE FirstValue(q, k) = <<>>
    <3>1. /\ DefaultOf("offset") = <<0>> /\ DefaultOf("limit") = <<DefaultLimit>>
      BY DEF DefaultOf
    <3> QED BY <1>0, <2>1, <3>1 DEF Number
  <2>2. CASE FirstValue(q, k) # <<>>
    <3> DEFINE v == FirstValue(q, k)
    <3>1. v \in Seq(Int)
      BY <1>3, <1>4, <2>2
    <3>2. v[1] \in Int
      <4> HIDE DEF v
      <4>1. v # <<>>
        BY <2>2 DEF v
      <4> QED BY <3>1, <4>1, EmptySeq, LenProperties
    <3> QED BY <2>2, <3>2 DEF Number
  <2> QED BY <2>1, <2>2
<1>6. f["offset"][1] \in Nat
  <2>1. f["offset"] = <<IF Number(q, "offset") < 0 THEN 0 ELSE Number(q, "offset")>>
    BY <1>1, <1>3 DEF FromQuery, Chosen, OneOf, Lists
  <2> QED BY <1>5, <2>1
<1>7. f["limit"][1] \in Nat
  <2>1. f["limit"] = <<Clamp(Number(q, "limit"), 1, MaxLimit)>>
    BY <1>1, <1>3 DEF FromQuery, Chosen, OneOf, Lists
  <2>2. Clamp(Number(q, "limit"), 1, MaxLimit) \in Nat
    BY <1>0, <1>5 DEF Clamp
  <2> QED BY <2>1, <2>2
<1>8. f["test"] \in Seq(Tests)
  <2> DEFINE v == FirstValue(q, "test")
  <2>1. f["test"] = IF v # <<>> /\ Len(v) = 1 /\ v[1] \in Tests THEN v ELSE <<>>
    <3>1. f["test"] = IF v # <<>> /\ Len(v) = 1 /\ v[1] \in Options("test")
                      THEN v ELSE DefaultOf("test")
      BY <1>1, <1>3 DEF FromQuery, Chosen, OneOf, Lists
    <3>2. Options("test") = Tests /\ DefaultOf("test") = <<>>
      BY DEF Options, DefaultOf
    <3> QED BY <3>1, <3>2
  <2>2. CASE v # <<>> /\ Len(v) = 1 /\ v[1] \in Tests
    <3>1. v \in Seq(ToSet(v))
      BY <1>3, <1>4, <2>2 DEF Numbers
    <3> HIDE DEF v
    <3>2. v = [i \in 1..1 |-> v[i]] /\ \A i \in 1..1 : v[i] \in Tests
      BY <2>2, <3>1, LenProperties
    <3>3. v \in Seq(Tests)
      BY <3>2, MadeSeq
    <3> QED BY <2>1, <2>2, <3>3
  <2>3. <<>> \in Seq(Tests)
    OBVIOUS
  <2> HIDE DEF v
  <2> QED BY <2>1, <2>2, <2>3
<1>9. TestsOf(f) \in Seq(Tests)
  BY <1>8, GapAssumption DEF TestsOf
<1> QED BY <1>6, <1>7, <1>8, <1>9

\* What a row of the page says, for a build and a test.
RowOf(f, w, b, test) ==
    [build |-> b, test |-> test, gap |-> <<b, test>> \in Todo(f, w),
     ready |-> DOMAIN Lacking(w, b, test) = {},
     last  |-> IF RecordsOf(b, test) = <<>> THEN "" ELSE Last(RecordsOf(b, test))[2]]

RowsOf(f, w) == {RowOf(f, w, p[1], p[2]) : p \in w.card \X Tests}

\* The order of the table goes through every card.
LEMMA TableIs ==
  ASSUME NEW w, w.card \subseteq Ids
  PROVE  TableOrder(w) \in Seq(w.card)
<1> DEFINE D == w.card
           R == {p \in D \X D : \/ Dates[p[1]] > Dates[p[2]]
                                \/ Dates[p[1]] = Dates[p[2]] /\ Rank[p[1]] < Rank[p[2]]}
           t == Ranked(D, R)
<1>1. /\ IsFiniteSet(Ids)
      /\ \A b \in D : Dates[b] \in Int /\ Rank[b] \in Int
      /\ \A b, c \in D : Rank[b] = Rank[c] => b = c
  <2>1. /\ IsFiniteSet(Ids) /\ Dates \in [Ids -> 1..Today] /\ Rank \in [Ids -> Nat]
        /\ IsInjective(Rank)
    BY Zenon, DeskAssumption
  <2>2. \A b, c \in Ids : Rank[b] = Rank[c] => b = c
    BY <2>1 DEF IsInjective
  <2> QED BY <2>1, <2>2
<1>2. IsFiniteSet(D) /\ Cardinality(D) \in Nat
  BY <1>1, FS_Subset, FS_CardinalityType
<1>3. IsOrder(R, D)
  BY <1>1 DEF IsOrder
<1> HIDE DEF R, D
<1>4. Enumerates(t, D, R)
  BY <1>2, <1>3, RankedEnumerates
<1>5. t \in Seq(D)
  BY <1>2, <1>4, SeqDef DEF Enumerates
<1>6. TableOrder(w) = t
  BY DEF TableOrder, t, R, D
<1> QED BY <1>5, <1>6 DEF D

\* Every row is one of a card and a test.
LEMMA PairsAre ==
  ASSUME NEW f \in Questions, NEW w, w.card \subseteq Ids
  PROVE  JobPairs(f, w) \in Seq(RowsOf(f, w))
<1> DEFINE Fitting(b) == {i \in DOMAIN TestsOf(f) :
                            Accepts([f EXCEPT !["test"] = <<TestsOf(f)[i]>>], w, b, TRUE)}
           For(b) == Those(TestsOf(f), Fitting(b))
           cards == Those(TableOrder(w), {i \in DOMAIN TableOrder(w) :
                                             Accepts(f, w, TableOrder(w)[i], TRUE)})
           Lines(b) == [j \in DOMAIN For(b) |-> RowOf(f, w, b, For(b)[j])]
           lists == [i \in DOMAIN cards |-> Lines(cards[i])]
           S == RowsOf(f, w)
           n == Len(cards)
<1>1. JobPairs(f, w) = FlattenSeq(lists)
  BY DEF JobPairs, Such, RowOf
<1>2. cards \in Seq(w.card)
  <2> DEFINE at == {i \in DOMAIN TableOrder(w) : Accepts(f, w, TableOrder(w)[i], TRUE)}
  <2>1. at \subseteq DOMAIN TableOrder(w)
    OBVIOUS
  <2> HIDE DEF at
  <2>2. Those(TableOrder(w), at) \in Seq(w.card)
    BY <2>1, TableIs, ThoseAre
  <2> QED BY <2>2 DEF at
<1> HIDE DEF cards
<1>3. ASSUME NEW b \in w.card PROVE Lines(b) \in Seq(S)
  <2>1. For(b) \in Seq(Tests)
    <3>1. Fitting(b) \subseteq DOMAIN TestsOf(f) /\ TestsOf(f) \in Seq(Tests)
      BY QuestionFacts
    <3> DEFINE at == Fitting(b)
    <3> HIDE DEF at
    <3>2. Those(TestsOf(f), at) \in Seq(Tests)
      BY <3>1, ThoseAre DEF at
    <3> QED BY <3>2 DEF at
  <2> DEFINE tests == For(b)
             lines == [j \in DOMAIN tests |-> RowOf(f, w, b, tests[j])]
             m == Len(tests)
  <2> HIDE DEF tests, For
  <2>2. m \in Nat /\ DOMAIN tests = 1..m /\ \A j \in 1..m : tests[j] \in Tests
    BY <2>1, LenProperties DEF tests, For
  <2> HIDE DEF m
  <2>3. ASSUME NEW j \in 1..m PROVE lines[j] \in S
    <3>1. <<b, tests[j]>> \in w.card \X Tests
      BY <2>2
    <3>2. lines[j] = RowOf(f, w, b, tests[j])
      BY <2>2
    <3> QED BY <3>1, <3>2 DEF RowsOf
  <2>4. lines = [j \in 1..m |-> lines[j]]
    BY <2>2
  <2> HIDE DEF lines, S
  <2>5. lines \in Seq(S)
    BY <2>2, <2>3, <2>4, MadeSeq
  <2> QED BY <2>5 DEF lines, tests
<1>4. n \in Nat /\ lists \in [1..n -> Seq(S)]
  <2>1. n \in Nat /\ DOMAIN cards = 1..n /\ \A i \in 1..n : cards[i] \in w.card
    BY <1>2, LenProperties
  <2> HIDE DEF S, Lines
  <2> QED BY <1>3, <2>1
<1>5. FlattenSeq(lists) \in Seq(S)
  <2> HIDE DEF lists, S, n
  <2> QED BY <1>4, FlattenIs
<1> QED BY <1>1, <1>5

\* The page of them shows some.
LEMMA ShownRows ==
  ASSUME NEW f \in Questions, NEW w, w.card \subseteq Ids
  PROVE  ToSet(JobRows(f, w)) \subseteq RowsOf(f, w)
<1> DEFINE pairs == JobPairs(f, w)
           from == f["offset"][1]
           most == f["limit"][1]
           upto == IF from + most < Len(pairs) THEN from + most ELSE Len(pairs)
           S == RowsOf(f, w)
<1>1. from \in Nat /\ most \in Nat /\ pairs \in Seq(S)
  BY QuestionFacts, PairsAre
<1>2. JobRows(f, w) = SubSeq(pairs, from + 1, upto)
  BY DEF JobRows
<1> HIDE DEF pairs, from, most, S
<1>3. Len(pairs) \in Nat /\ DOMAIN pairs = 1..Len(pairs) /\ \A i \in 1..Len(pairs) : pairs[i] \in S
  BY <1>1, LenProperties
<1>4. upto \in Nat /\ upto <= Len(pairs)
  BY <1>1, <1>3
<1> HIDE DEF upto
<1> DEFINE page == SubSeq(pairs, from + 1, upto)
<1>5. page = [i \in 1..(upto - from) |-> pairs[from + i]]
  BY <1>1, <1>3, <1>4
<1>6. \A i \in DOMAIN page : page[i] \in S
  BY <1>1, <1>3, <1>4, <1>5
<1> QED BY <1>2, <1>6 DEF ToSet, S

\* The last record of a test has a verdict.
LEMMA RecordsSay ==
  ASSUME NEW b \in Ids, NEW test, RecordsOf(b, test) # <<>>
  PROVE  Last(RecordsOf(b, test))[2] # ""
<1> DEFINE at == {i \in DOMAIN Said[b] : Said[b][i][1] = test}
           t == Those(Said[b], at)
<1>1. Said[b] \in Seq(Tests \X Verdicts) /\ at \subseteq DOMAIN Said[b]
  BY Zenon, DeskAssumption
<1>2. RecordsOf(b, test) = t
  BY DEF RecordsOf, Such
<1> HIDE DEF at
<1>3. t \in Seq(Tests \X Verdicts)
  BY <1>1, ThoseAre
<1> HIDE DEF t
<1>4. t # <<>> /\ Last(t) = t[Len(t)]
  BY <1>2 DEF Last
<1>5. Len(t) \in 1..Len(t) /\ t[Len(t)] \in Tests \X Verdicts
  BY <1>3, <1>4, EmptySeq, LenProperties
<1>6. "" \notin Verdicts
  BY DEF Verdicts
<1> QED BY <1>2, <1>4, <1>5, <1>6

\* What the button of the jobs page runs.
LEMMA RunsAreRight ==
  ASSUME NEW f \in Questions, NEW w, w.card \subseteq Ids
  PROVE  RunIsRight(f, w)
<1> DEFINE ticks == Tickable(f, w)
           open == [f EXCEPT !["test"] = <<>>]
<1>1. ASSUME NEW p \in ticks
      PROVE  /\ p[1] \in w.card /\ p[2] \in Tests /\ p = <<p[1], p[2]>>
             /\ DOMAIN Lacking(w, p[1], p[2]) = {}
             /\ RowOf(f, w, p[1], p[2]) \in ToSet(JobRows(f, w))
  <2>1. PICK row \in ToSet(JobRows(f, w)) : row.ready /\ p = <<row.build, row.test>>
    BY DEF Tickable
  <2>2. row \in RowsOf(f, w)
    BY <2>1, ShownRows
  <2>3. PICK pair \in w.card \X Tests : row = RowOf(f, w, pair[1], pair[2])
    BY <2>2 DEF RowsOf
  <2>4. row.build = pair[1] /\ row.test = pair[2] /\ (row.ready <=> DOMAIN Lacking(w, pair[1], pair[2]) = {})
    BY <2>3 DEF RowOf
  <2> QED BY <2>1, <2>3, <2>4
<1>2. "test" \in DOMAIN f /\ TestsOf(open) = Catalogue
  <2>1. PICK q \in Asked : f = FromQuery(q)
    BY DEF Questions
  <2>2. "test" \in DOMAIN f
    BY <2>1 DEF FromQuery, Keys, OneOf
  <2>3. open["test"] = <<>>
    BY <2>2
  <2> QED BY <2>2, <2>3 DEF TestsOf
<1> HIDE DEF ticks, open
<1>3. ASSUME NEW p \in RunOf(ticks, FALSE)
      PROVE  p[1] \in w.card /\ DOMAIN Lacking(w, p[1], p[2]) = {} /\ p \in Todo(open, w)
  <2>1. p \in ticks /\ RecordsOf(p[1], p[2]) = <<>>
    BY <1>3 DEF RunOf
  <2>2. p \in w.card \X ToSet(TestsOf(open))
    BY <1>1, <1>2, <2>1, GapAssumption
  <2> QED BY <1>1, <2>1, <2>2 DEF Todo
<1>4. ASSUME NEW p \in ticks \ RunOf(ticks, FALSE)
      PROVE  p \in {<<row.build, row.test>> : row \in {r \in ToSet(JobRows(f, w)) : r.last # ""}}
  <2>1. RecordsOf(p[1], p[2]) # <<>> /\ p[1] \in Ids
    BY <1>1, <1>4 DEF RunOf
  <2> DEFINE row == RowOf(f, w, p[1], p[2])
  <2>2. row.last # ""
    BY <2>1, RecordsSay DEF RowOf
  <2>3. row.build = p[1] /\ row.test = p[2]
    BY DEF RowOf
  <2>4. row \in ToSet(JobRows(f, w)) /\ p = <<p[1], p[2]>>
    BY <1>1, <1>4
  <2> HIDE DEF row
  <2> QED BY <2>2, <2>3, <2>4
<1> QED BY <1>3, <1>4 DEF RunIsRight, ticks, open

\* Whatever the commands leave on disk, the smart button acts on every row that is behind
\* and on no other, and the jobs page runs what has no record and lacks nothing (actions.py,
\* `_smart`; pages/jobs.py, `_tick_cell`).
THEOREM PressesGoThrough == Spec => []ButtonsGoThrough
<1>1. Inductive /\ OnDisk => Now \in Bases
  <2> SUFFICES ASSUME Inductive, OnDisk PROVE Now \in Bases
    OBVIOUS
  <2>1. ToSet(copies) \in SUBSET Ids
    <3>1. \A i \in DOMAIN copies : copies[i] \in Ids
      BY LenProperties DEF OnDisk
    <3> QED BY <3>1 DEF ToSet
  <2>2. Known(table) \in SUBSET Ids /\ whole \in SUBSET ToSet(copies)
    BY DEF Known, OnDisk
  <2> DEFINE Of(dirs) == {[card |-> card, dirs |-> dirs, whole |-> held] :
                             card \in SUBSET Ids, held \in SUBSET dirs}
  <2>3. Now \in Of(ToSet(copies))
    BY <2>2 DEF Now
  <2>4. Bases = UNION {Of(dirs) : dirs \in SUBSET Ids}
    BY DEF Bases
  <2> HIDE DEF Of
  <2> QED BY <2>1, <2>3, <2>4
<1>2. ASSUME NEW base \in Bases, NEW w \in WorldsOf(base) PROVE w.card \subseteq Ids
  BY DEF Bases, WorldsOf
<1>3. Bases \subseteq SmartBases
  BY SmartIsRight DEF SmartBases
<1>4. Bases \subseteq RunBases
  BY <1>2, RunsAreRight DEF RunBases
<1>5. Inductive /\ OnDisk => ButtonsGoThrough
  BY <1>1, <1>3, <1>4 DEF ButtonsGoThrough
<1> QED BY <1>5, Invariance, WholeIsOnDisk, PTL
=============================================================================
