----------------------------- MODULE PageProofs -----------------------------
(***************************************************************************)
(* Theorems about the page and what it starts: about Activity, for every   *)
(* set of request threads and every number of names, attempts and          *)
(* restarts, and about Page, for any builds and any number of polls at     *)
(* once, of activities, of writes and of loads.                            *)
(***************************************************************************)
EXTENDS Activity, Page, SequenceTheorems, FiniteSetTheorems, WellFoundedInduction, TLAPS

-----------------------------------------------------------------------------
(* Activity: the inductive invariant.                                      *)

\* A request whose child, or the one it is about to start, nobody else can know of.
Owning(r) == r.at = "spawn" \/ (r.at \in {"write", "rename"} /\ r.copy = "running")

\* What is true of a name: nothing before its directory; a process before its record,
\* and in its first record no word of an end; an end anywhere only of a process that
\* has ended.
NameFits(n) ==
    /\ n \notin dirs => proc[n] = "none"
    /\ proc[n] = "none" => json[n] = "absent" /\ tmp[n] = "absent"
    /\ json[n] = "absent" => live[n] = "absent" /\ reaper[n].at = "off" /\ tmp[n] \notin Settled
    /\ tmp[n] = "running" => json[n] = "absent"
    /\ \/ json[n] \in Settled \cup {"torn"} \/ tmp[n] \in Settled \/ live[n] \in {"ok", "bad"}
       \/ reaper[n].at \in {"put", "write", "rename"}
       => proc[n] # "alive"

\* What is true of a request's local variables: the activity in hand is on record, the
\* copy says it is over only when it is, and the copy of a start is the first record;
\* a start that found nobody has seen each of the known ones end.
Fits(r) ==
    /\ r.todo \subseteq dirs
    /\ r.at \in {"reap", "kill", "write", "rename", "mkdir", "spawn", "enlist"} => r.id \in Names
    /\ r.at \in {"reap", "kill", "enlist"} => json[r.id] # "absent"
    /\ r.at = "kill" => r.op = "cancel"
    /\ r.at \in {"write", "rename"} => r.copy # "absent"
    /\ r.at \in {"write", "rename"} /\ r.copy \in Settled =>
           json[r.id] # "absent" /\ proc[r.id] # "alive"
    /\ r.at = "spawn" => r.id \in dirs /\ proc[r.id] = "none"
    /\ r.at \in {"write", "rename"} /\ r.copy = "running" =>
           /\ proc[r.id] # "none" /\ json[r.id] = "absent" /\ r.saves = 1
           /\ tmp[r.id] = IF r.at = "write" THEN "absent" ELSE "running"
    /\ \A n \in r.known : json[n] # "absent"
    /\ r.op = "start" /\ r.at \in {"visit", "reap"} /\ ~r.busy =>
           \A n \in r.known : n \in r.todo \/ proc[n] # "alive"
    /\ r.op = "start" /\ r.at \in {"write", "rename"} /\ r.copy \in Settled /\ ~r.busy =>
           \A n \in r.known : n \in r.todo \/ proc[n] # "alive"
    /\ r.at \in {"free", "mkdir", "spawn"} => \A n \in r.known : proc[n] # "alive"

OneOwner ==
    \A t, u \in Threads :
        Owning(request[t]) /\ Owning(request[u]) /\ request[t].id = request[u].id => t = u

\* A child without a record is being recorded, or its save was refused.
RecordedOrRefused ==
    restarts = 0 => \A n \in Names :
        proc[n] = "alive" /\ json[n] = "absent" =>
            \/ n \in refused
            \/ \E t \in Threads : request[t].id = n /\ request[t].at \in {"write", "rename"}

Inductive ==
    /\ TypeOK
    /\ \A n \in Names : NameFits(n)
    /\ \A t \in Threads : Fits(request[t])
    /\ OneOwner
    /\ RecordedOrRefused

-----------------------------------------------------------------------------
(* Lemmas about the operators.                                             *)

\* A set of names that is not empty has a largest one.
LEMMA MaxFacts ==
  ASSUME NEW S \in SUBSET Names, S # {}
  PROVE  Max(S) \in S /\ \A y \in S : Max(S) >= y
<1> DEFINE Above(x) == {y \in S : y > x}
           T == {Above(x) : x \in S}
<1>1. IsFiniteSet(Names) /\ \A x \in S : x \in Int
  BY ActivityAssumption, FS_Interval DEF Names
<1>2. IsWellFoundedOn(StrictSubsetOrdering(Names), FiniteSubsetsOf(Names))
  BY FS_StrictSubsetOrderingWellFounded
<1>3. T \subseteq FiniteSubsetsOf(Names)
  <2> SUFFICES ASSUME NEW x \in S PROVE Above(x) \in FiniteSubsetsOf(Names)
    OBVIOUS
  <2>1. Above(x) \in SUBSET Names
    OBVIOUS
  <2> QED BY <1>1, <2>1, FS_Subset DEF FiniteSubsetsOf
<1>4. T # {}
  OBVIOUS
<1>5. PICK U \in T : \A V \in T : ~(<<V, U>> \in StrictSubsetOrdering(Names))
  <2> HIDE DEF T
  <2> QED BY <1>2, <1>3, <1>4, WFMin
<1>6. PICK x \in S : U = Above(x)
  OBVIOUS
<1>7. \A y \in S : x >= y
  <2> SUFFICES ASSUME NEW y \in S, ~(x >= y) PROVE FALSE
    OBVIOUS
  <2>1. Above(y) \in T /\ Above(y) \subseteq Above(x) /\ y \in Above(x) /\ y \notin Above(y)
    BY <1>1
  <2>2. <<Above(y), Above(x)>> \in StrictSubsetOrdering(Names)
    BY <2>1 DEF StrictSubsetOrdering
  <2> QED BY <1>5, <1>6, <2>1, <2>2
<1>8. \E z \in S : \A y \in S : z >= y
  BY <1>7
<1> HIDE DEF T
<1> QED BY <1>8, Zenon DEF Max

\* And a smallest one.
LEMMA MinFacts ==
  ASSUME NEW S \in SUBSET Names, S # {}
  PROVE  Min(S) \in S
<1> DEFINE R == {MaxNames + 1 - x : x \in S}
<1>1. MaxNames \in Nat \ {0} /\ \A x \in S : x \in 1..MaxNames
  BY ActivityAssumption DEF Names
<1>2. R \in SUBSET Names /\ R # {}
  BY <1>1 DEF Names
<1>3. Max(R) \in R /\ \A y \in R : Max(R) >= y
  BY <1>2, MaxFacts
<1>4. PICK x \in S : Max(R) = MaxNames + 1 - x
  BY <1>3
<1>5. ASSUME NEW y \in S PROVE x =< y
  <2>1. MaxNames + 1 - y \in R
    OBVIOUS
  <2>2. MaxNames + 1 - x >= MaxNames + 1 - y
    BY <1>3, <1>4, <2>1
  <2> QED BY <1>1, <2>2
<1>6. \E z \in S : \A y \in S : z =< y
  BY <1>5
<1> HIDE DEF R
<1> QED BY <1>6, Zenon DEF Min

-----------------------------------------------------------------------------
(* What a step leaves alone.                                               *)

\* Directories and records stay, and a process that has ended does not come back.
Grown ==
    /\ dirs \subseteq dirs' /\ refused \subseteq refused'
    /\ \A n \in Names :
          /\ json[n] # "absent" => json'[n] # "absent"
          /\ proc[n] # "none" => proc'[n] # "none"
          /\ proc[n] \notin {"none", "alive"} => proc'[n] # "alive"

\* What a start is about to record is as it was.
Quiet(m) ==
    /\ json'[m] = json[m] /\ tmp'[m] = tmp[m]
    /\ proc[m] = "none" => proc'[m] = "none"

\* Such a step leaves the local variables of every request fitting, if it is quiet for
\* the name it owns.
LEMMA OthersFit ==
  ASSUME TypeOK, \A n \in Names : NameFits(n), TypeOK', Grown,
         NEW r \in Requests, Fits(r), Owning(r) => Quiet(r.id)
  PROVE  Fits(r)'
<1>1. \A n \in Names : json[n] # "absent" /\ proc[n] # "alive" => proc'[n] # "alive"
  BY DEF Grown, NameFits
<1>2. r.todo \subseteq dirs' /\ r.known \subseteq Names
  BY DEF Fits, Grown, Requests
<1>3. \A n \in r.known : json'[n] # "absent" /\ (proc[n] # "alive" => proc'[n] # "alive")
  BY <1>1, <1>2 DEF Fits, Grown
<1>4. r.at \in {"reap", "kill", "enlist"} => json'[r.id] # "absent"
  BY DEF Fits, Grown
<1>5. r.at \in {"write", "rename"} /\ r.copy \in Settled =>
          json'[r.id] # "absent" /\ proc'[r.id] # "alive"
  BY <1>1 DEF Fits, Grown
<1>6. r.at = "spawn" => r.id \in dirs' /\ proc'[r.id] = "none"
  BY DEF Fits, Grown, Owning, Quiet
<1>7. r.at \in {"write", "rename"} /\ r.copy = "running" =>
          /\ proc'[r.id] # "none" /\ json'[r.id] = "absent" /\ r.saves = 1
          /\ tmp'[r.id] = IF r.at = "write" THEN "absent" ELSE "running"
  BY DEF Fits, Grown, Owning, Quiet
<1> QED BY <1>2, <1>3, <1>4, <1>5, <1>6, <1>7 DEF Fits

\* The request that takes the step fits, and owns a name no other owns.
LEMMA RequestsFit ==
  ASSUME Inductive, TypeOK', Grown, NEW t \in Threads, NEW r \in Requests, Do(t, r),
         Fits(r)',
         \A u \in Threads \ {t} :
             /\ Owning(request[u]) => Quiet(request[u].id)
             /\ Owning(request[u]) /\ Owning(r) => request[u].id # r.id
  PROVE  /\ \A u \in Threads : Fits(request[u])'
         /\ OneOwner'
<1>1. request'[t] = r /\ \A u \in Threads \ {t} : request'[u] = request[u]
  BY DEF Do, Inductive, TypeOK
<1>2. ASSUME NEW u \in Threads PROVE Fits(request[u])'
  <2>1. CASE u = t
    BY <1>1, <2>1 DEF Fits
  <2>2. CASE u # t
    <3> DEFINE q == request[u]
    <3>1. q \in Requests /\ Fits(q) /\ (Owning(q) => Quiet(q.id))
      BY <2>2 DEF Inductive, TypeOK
    <3>2. request'[u] = q
      BY <1>1, <2>2
    <3>3. ASSUME NEW p \in Requests, Fits(p), Owning(p) => Quiet(p.id), request'[u] = p
          PROVE  Fits(request[u])'
      <4>1. Fits(p)'
        BY <3>3, OthersFit DEF Inductive
      <4> QED BY <3>3, <4>1 DEF Fits
    <3> QED BY <3>1, <3>2, <3>3
  <2> QED BY <2>1, <2>2
<1>3. OneOwner'
  <2> SUFFICES ASSUME NEW u \in Threads, NEW v \in Threads,
                      Owning(request'[u]), Owning(request'[v]), request'[u].id = request'[v].id
               PROVE  u = v
    BY DEF OneOwner, Owning
  <2> QED BY <1>1 DEF Inductive, OneOwner
<1> QED BY <1>2, <1>3

\* A step that nobody but its request sees.
LEMMA Quietly ==
  ASSUME Inductive, NEW t \in Threads, NEW r \in Requests, Do(t, r), Fits(r),
         UNCHANGED <<files, children, live, reaper, restarts>>,
         ~Owning(r), request[t].at \in {"write", "rename"} => json[request[t].id] # "absent"
  PROVE  Inductive'
<1>1. TypeOK'
  BY DEF Inductive, TypeOK, Do, files, children
<1>2. Grown /\ \A m : Quiet(m)
  BY DEF Grown, Quiet, files, children
<1>3. Fits(r)'
  BY DEF Fits, files, children
<1>4. /\ \A u \in Threads : Fits(request[u])'
      /\ OneOwner'
  BY <1>1, <1>2, <1>3, RequestsFit
<1>5. \A n \in Names : NameFits(n)'
  BY DEF Inductive, NameFits, files, children
<1>6. RecordedOrRefused'
  <2> SUFFICES ASSUME restarts = 0, NEW n \in Names, proc[n] = "alive", json[n] = "absent",
                      n \notin refused
               PROVE  \E u \in Threads : request'[u].id = n /\ request'[u].at \in {"write", "rename"}
    BY DEF RecordedOrRefused, files, children
  <2>1. PICK u \in Threads : request[u].id = n /\ request[u].at \in {"write", "rename"}
    BY DEF Inductive, RecordedOrRefused
  <2>2. u # t
    BY <2>1
  <2> QED BY <2>1, <2>2 DEF Do, Inductive, TypeOK
<1> QED BY <1>1, <1>4, <1>5, <1>6 DEF Inductive

-----------------------------------------------------------------------------
(* The steps of a request that only it can see.                            *)

\* A request comes in.
LEMMA ArriveStep ==
  ASSUME Inductive, NEW t \in Threads, Arrive(t)
  PROVE  Inductive'
<1>1. request[t] \in Requests /\ dirs \subseteq Names /\ Idle \in Requests
  BY ActivityAssumption DEF Inductive, TypeOK, Requests, Idle, States, Settled
<1>2. ASSUME NEW S \in SUBSET dirs, Look(t, S) PROVE Inductive'
  <2> DEFINE r == [Idle EXCEPT !.at = "visit", !.op = "look", !.todo = S]
  <2>1. r \in Requests /\ Fits(r) /\ ~Owning(r)
    BY <1>1 DEF Requests, Fits, Owning, Idle
  <2> QED BY <1>2, <2>1, Quietly DEF Look
<1>3. ASSUME AskToStart(t) PROVE Inductive'
  <2> DEFINE r == [Idle EXCEPT !.at = "visit", !.op = "start", !.todo = dirs, !.known = OnRecord]
  <2>1. \A n \in OnRecord : n \in dirs /\ json[n] # "absent" /\ n \in Names
    BY DEF OnRecord, Inductive, NameFits
  <2>2. r \in Requests /\ Fits(r) /\ ~Owning(r)
    BY <1>1, <2>1 DEF Requests, Fits, Owning, Idle
  <2> QED BY <1>3, <2>2, Quietly DEF AskToStart
<1>4. ASSUME NEW n \in dirs, Cancel(t, n) PROVE Inductive'
  <2> DEFINE r == [Idle EXCEPT !.at = "kill", !.op = "cancel", !.id = n, !.copy = "running"]
  <2>1. r \in Requests /\ Fits(r) /\ ~Owning(r)
    BY <1>1, <1>4 DEF Requests, Fits, Owning, Idle, Cancel, States
  <2> QED BY <1>4, <2>1, Quietly DEF Cancel
<1> QED BY <1>2, <1>3, <1>4 DEF Arrive

\* It goes through the list.
LEMMA VisitSteps ==
  ASSUME Inductive, NEW t \in Threads, Load(t) \/ ReapFindsRunning(t) \/ Looked(t)
  PROVE  Inductive'
<1> DEFINE q == request[t]
<1>1. q \in Requests /\ Fits(q) /\ Idle \in Requests /\ Fits(Idle) /\ ~Owning(Idle)
  BY ActivityAssumption
     DEF Inductive, TypeOK, Requests, Idle, States, Settled, Fits, Owning
<1>2. ASSUME Load(t) PROVE Inductive'
  <2> DEFINE n == Max(q.todo)
             r == IF json[n] = "running"
                  THEN [q EXCEPT !.at = "reap", !.id = n, !.copy = "running"]
                  ELSE [q EXCEPT !.todo = @ \ {n}]
  <2>1. q.at = "visit" /\ n \in q.todo /\ n \in Names /\ json[n] \in States \cup {"torn"}
    BY <1>1, <1>2, MaxFacts DEF Load, Requests, Inductive, TypeOK
  <2> HIDE DEF n
  <2>2. json[n] # "running" /\ json[n] # "absent" => proc[n] # "alive"
    BY <2>1 DEF Inductive, NameFits, States
  <2>3. r \in Requests /\ Fits(r) /\ ~Owning(r)
    <3>1. CASE json[n] = "running"
      BY <1>1, <2>1, <3>1 DEF Requests, Fits, Owning, States
    <3>2. CASE json[n] # "running"
      BY <1>1, <2>1, <2>2, <3>2 DEF Requests, Fits, Owning
    <3> QED BY <3>1, <3>2
  <2>4. Do(t, r) /\ UNCHANGED <<files, children, live, reaper, restarts>>
    BY <1>2 DEF Load, n
  <2> HIDE DEF r
  <2> QED BY <2>1, <2>3, <2>4, Quietly
<1>3. ASSUME ReapFindsRunning(t) PROVE Inductive'
  <2> DEFINE r == [GoOn(q) EXCEPT !.busy = (q.op = "start"), !.known = {}]
  <2>1. r \in Requests /\ Fits(r) /\ ~Owning(r)
    <3>1. "absent" \in States /\ 0 \in 0..2
      BY DEF States
    <3>2. r \in Requests /\ r.at = "visit" /\ r.todo = q.todo \ {q.id} /\ r.known = {}
      BY <1>1, <3>1 DEF Requests, GoOn
    <3> HIDE DEF r
    <3> QED BY <1>1, <3>2 DEF Fits, Owning
  <2> QED BY <1>3, <2>1, Quietly DEF ReapFindsRunning
<1>4. ASSUME Looked(t) PROVE Inductive'
  <2> DEFINE r == [q EXCEPT !.at = "free"]
  <2>1. CASE q.op = "start" /\ ~q.busy
    <3>1. r \in Requests /\ Fits(r) /\ ~Owning(r)
      BY <1>1, <1>4, <2>1 DEF Requests, Fits, Owning, Looked
    <3> QED BY <1>4, <2>1, <3>1, Quietly DEF Looked
  <2>2. CASE ~(q.op = "start" /\ ~q.busy)
    BY <1>1, <1>4, <2>2, Quietly DEF Looked
  <2> QED BY <2>1, <2>2
<1> QED BY <1>2, <1>3, <1>4

\* It signals, or finds nobody to signal; it picks a name; it fails.
LEMMA OwnSteps ==
  ASSUME Inductive, NEW t \in Threads,
         Signal(t) \/ SignalFindsNobody(t) \/ FreeId(t) \/ SpawnFails(t) \/ RequestRenameFails(t)
  PROVE  Inductive'
<1> DEFINE q == request[t]
<1>1. q \in Requests /\ Fits(q) /\ Idle \in Requests /\ Fits(Idle) /\ ~Owning(Idle)
  BY ActivityAssumption
     DEF Inductive, TypeOK, Requests, Idle, States, Settled, Fits, Owning
<1>2. ASSUME Signal(t) PROVE Inductive'
  <2> DEFINE r == [q EXCEPT !.at = "reap"]
  <2>1. r \in Requests /\ Fits(r) /\ ~Owning(r)
    BY <1>1, <1>2 DEF Requests, Fits, Owning, Signal
  <2> QED BY <1>2, <2>1, Quietly DEF Signal
<1>3. ASSUME SignalFindsNobody(t) PROVE Inductive'
  <2> DEFINE r == [q EXCEPT !.at = "write", !.op = "look", !.copy = StateOf("none"), !.saves = 1,
                            !.todo = {}]
  <2>1. StateOf("none") = "failed" /\ q.at = "kill" /\ proc[q.id] = "gone"
    BY <1>3 DEF SignalFindsNobody, StateOf
  <2>2. r = [q EXCEPT !.at = "write", !.op = "look", !.copy = "failed", !.saves = 1,
                      !.todo = {}]
    BY <2>1
  <2> HIDE DEF r
  <2>3. r \in Requests /\ ~Owning(r)
    <3>1. "failed" \in States /\ {} \in SUBSET Names /\ 1 \in 0..2
      BY DEF States, Settled
    <3>2. r \in Requests
      BY <1>1, <2>2, <3>1 DEF Requests
    <3>3. ~Owning(r)
      BY <1>1, <2>2 DEF Requests, Owning
    <3> QED BY <3>2, <3>3
  <2>4. Fits(r)
    BY <1>1, <2>1, <2>2 DEF Requests, Fits
  <2>5. Do(t, r) /\ UNCHANGED <<files, children, live, reaper, restarts>>
    BY <1>3 DEF SignalFindsNobody, r
  <2> QED BY <2>1, <2>3, <2>4, <2>5, Quietly
<1>4. ASSUME FreeId(t) PROVE Inductive'
  <2> DEFINE free == Names \ dirs
             r == [q EXCEPT !.at = "mkdir", !.id = Min(free)]
  <2>1. CASE free = {}
    BY <1>1, <1>4, <2>1, Quietly DEF FreeId
  <2>2. CASE free # {}
    <3>1. Min(free) \in Names
      BY <2>2, MinFacts
    <3>2. r \in Requests /\ Fits(r) /\ ~Owning(r)
      BY <1>1, <1>4, <3>1 DEF Requests, Fits, Owning, FreeId
    <3> QED BY <1>4, <2>2, <3>2, Quietly DEF FreeId
  <2> QED BY <2>1, <2>2
<1>5. ASSUME SpawnFails(t) PROVE Inductive'
  BY <1>1, <1>5, Quietly DEF SpawnFails
<1>6. ASSUME RequestRenameFails(t) PROVE Inductive'
  <2>1. json[q.id] # "absent"
    BY <1>1, <1>6 DEF RequestRenameFails, Fits, Requests, States
  <2> QED BY <1>1, <1>6, <2>1, Quietly DEF RequestRenameFails
<1> QED BY <1>2, <1>3, <1>4, <1>5, <1>6

-----------------------------------------------------------------------------
(* The steps of a request that others see.                                 *)

\* An activity that is on record is nobody's to start.
LEMMA RecordedIsNotOwned ==
  ASSUME Inductive, NEW u \in Threads, Owning(request[u])
  PROVE  /\ request[u].id \in Names /\ json[request[u].id] = "absent"
         /\ request[u].id \in dirs
BY DEF Inductive, Owning, Fits, NameFits

\* A child without a record stays recorded by the request that started it, when the
\* step leaves that request and adds no such child.
LEMMA ChildrenStay ==
  ASSUME Inductive, NEW t \in Threads, NEW r, Do(t, r), restarts' = restarts,
         refused \subseteq refused',
         \A n \in Names : proc'[n] = "alive" /\ json'[n] = "absent" =>
             \/ proc[n] = "alive" /\ json[n] = "absent"
                   /\ (request[t].id = n /\ request[t].at \in {"write", "rename"}
                         => r.id = n /\ r.at \in {"write", "rename"})
             \/ r.id = n /\ r.at \in {"write", "rename"}
             \/ n \in refused'
  PROVE  RecordedOrRefused'
<1> SUFFICES ASSUME restarts = 0, NEW n \in Names, proc'[n] = "alive", json'[n] = "absent",
                    n \notin refused'
             PROVE  \E u \in Threads :
                       request'[u].id = n /\ request'[u].at \in {"write", "rename"}
  BY DEF RecordedOrRefused
<1>1. request'[t] = r /\ \A u \in Threads \ {t} : request'[u] = request[u]
  BY DEF Do, Inductive, TypeOK
<1>2. CASE r.id = n /\ r.at \in {"write", "rename"}
  BY <1>1, <1>2
<1>3. CASE ~(r.id = n /\ r.at \in {"write", "rename"})
  <2>1. PICK u \in Threads : request[u].id = n /\ request[u].at \in {"write", "rename"}
    BY <1>3 DEF Inductive, RecordedOrRefused
  <2> QED BY <1>1, <1>3, <2>1
<1> QED BY <1>2, <1>3

\* Whoever settles the activity in hand, after its process has ended.
LEMMA SettlingStep ==
  ASSUME Inductive, NEW t \in Threads, NEW n, NEW c \in {"done", "failed"}, NEW s \in 1..2,
         n = request[t].id, request[t].at = "reap",
         Do(t, [request[t] EXCEPT !.at = "write", !.copy = c, !.saves = s]),
         UNCHANGED <<dirs, json, tmp, refused, mine, live, reaper, restarts>>,
         status' \in [Names -> {"none", "ok", "bad"}],
         \/ proc[n] # "alive" /\ proc' = proc
         \/ proc' = [proc EXCEPT ![n] = "zombie"]
         \/ proc' = [proc EXCEPT ![n] = "gone"]
  PROVE  Inductive'
<1> DEFINE q == request[t]
<1>1. /\ q \in Requests /\ Fits(q) /\ n \in Names /\ json[n] # "absent" /\ proc[n] # "none"
  BY DEF Inductive, TypeOK, Fits, NameFits
<1>2. PICK r : r = [q EXCEPT !.at = "write", !.copy = c, !.saves = s]
  OBVIOUS
<1>3. /\ r \in Requests /\ ~Owning(r) /\ r.at = "write" /\ r.copy = c /\ Do(t, r)
      /\ r.id = n /\ r.todo = q.todo /\ r.known = q.known /\ r.op = q.op /\ r.busy = q.busy
  <2>1. c \in Settled /\ s \in 0..2
    BY DEF Settled
  <2>2. Do(t, r)
    BY <1>2
  <2> HIDE DEF q
  <2>3. c \in States /\ q \in Requests
    BY <1>1, <2>1 DEF States
  <2>4. r \in Requests
    BY <1>2, <2>1, <2>3 DEF Requests
  <2>5. /\ r.at = "write" /\ r.copy = c /\ r.id = q.id /\ r.todo = q.todo
        /\ r.known = q.known /\ r.op = q.op /\ r.busy = q.busy
    BY <1>2, <2>3 DEF Requests
  <2>6. n = q.id
    BY DEF q
  <2>7. ~Owning(r)
    BY <2>5 DEF Owning
  <2> QED BY <2>2, <2>4, <2>5, <2>6, <2>7
<1>4. \A m \in Names : proc'[m] = proc[m] \/ (m = n /\ proc'[m] \in {"zombie", "gone"})
  BY DEF Inductive, TypeOK
<1>5. proc'[n] # "alive"
  BY <1>1 DEF Inductive, TypeOK
<1>6. TypeOK'
  BY <1>3 DEF Inductive, TypeOK, Do
<1>7. Grown /\ \A m \in Names : m # n => Quiet(m)
  BY <1>1, <1>4, <1>5 DEF Grown, Quiet
<1>8. \A m \in r.known : m \in Names /\ json'[m] # "absent" /\ (proc[m] # "alive" => proc'[m] # "alive")
  BY <1>1, <1>3, <1>4 DEF Fits, Requests
<1>9. Fits(r)'
  <2>1. ~(r.at \in {"visit", "reap", "kill", "rename", "mkdir", "spawn", "enlist", "free"})
    BY <1>3
  <2>2. /\ r.todo \subseteq dirs' /\ r.copy # "absent" /\ r.copy # "running"
        /\ json'[r.id] # "absent" /\ proc'[r.id] # "alive" /\ r.id \in Names
    BY <1>1, <1>3, <1>5 DEF Fits
  <2>3. r.op = "start" /\ ~r.busy => \A m \in r.known : m \in r.todo \/ proc'[m] # "alive"
    BY <1>1, <1>3, <1>8 DEF Fits
  <2> QED BY <1>8, <2>1, <2>2, <2>3 DEF Fits
<1>10. /\ \A u \in Threads : Fits(request[u])'
       /\ OneOwner'
  <2>1. ASSUME NEW u \in Threads, Owning(request[u]) PROVE Quiet(request[u].id)
    BY <1>1, <1>7, <2>1, RecordedIsNotOwned
  <2> QED BY <1>3, <1>6, <1>7, <1>9, <2>1, RequestsFit
<1>11. \A m \in Names : NameFits(m)'
  BY <1>1, <1>4 DEF Inductive, NameFits
<1>12. RecordedOrRefused'
  BY <1>1, <1>3, <1>4, ChildrenStay
<1> QED BY <1>6, <1>10, <1>11, <1>12 DEF Inductive

\* `reap` settles, after `waitpid` or without.
LEMMA ReapSettlesStep ==
  ASSUME Inductive, NEW t \in Threads, ReapSettles(t)
  PROVE  Inductive'
<1> DEFINE q == request[t]
           n == q.id
           waited == live[n] = "absent" /\ proc[n] = "zombie"
           unknown == live[n] = "absent" /\ proc[n] = "gone"
           code == IF unknown THEN "none" ELSE IF waited THEN status[n] ELSE live[n]
<1>1. n \in Names /\ q.at = "reap"
  BY DEF ReapSettles, Inductive, Fits
<1>2. PICK c \in {"done", "failed"}, s \in 1..2 : c = StateOf(code) /\ s = IF unknown THEN 2 ELSE 1
  BY DEF StateOf
<1>3. Do(t, [q EXCEPT !.at = "write", !.copy = c, !.saves = s])
  BY <1>2 DEF ReapSettles
<1>4. \/ proc[n] # "alive" /\ proc' = proc
      \/ proc' = [proc EXCEPT ![n] = "gone"]
  BY <1>1 DEF ReapSettles, StillRunning, Inductive, NameFits, TypeOK
<1>5. UNCHANGED <<dirs, json, tmp, refused, mine, live, reaper, restarts>>
  BY DEF ReapSettles, files
<1>6. status' \in [Names -> {"none", "ok", "bad"}]
  BY DEF ReapSettles, Inductive, TypeOK
<1> HIDE DEF code, unknown, waited
<1> QED BY <1>1, <1>3, <1>4, <1>5, <1>6, SettlingStep

\* The time is up: SIGKILL.
LEMMA KillsAtLastStep ==
  ASSUME Inductive, NEW t \in Threads, KillsAtLast(t)
  PROVE  Inductive'
<1> DEFINE q == request[t]
           n == q.id
<1>1. n \in Names /\ q.at = "reap" /\ StateOf("none") = "failed"
  BY DEF KillsAtLast, Inductive, Fits, StateOf
<1>2. PICK c \in {"done", "failed"}, s \in 1..2 :
          Do(t, [q EXCEPT !.at = "write", !.copy = c, !.saves = s])
  <2>1. Do(t, [q EXCEPT !.at = "write", !.copy = "failed", !.saves = 1])
    BY <1>1 DEF KillsAtLast
  <2>2. "failed" \in {"done", "failed"} /\ 1 \in 1..2
    OBVIOUS
  <2> QED BY <2>1, <2>2, Zenon
<1>3. /\ UNCHANGED <<dirs, json, tmp, refused, mine, live, reaper, restarts>>
      /\ status' = status \/ status' = [status EXCEPT ![n] = "bad"]
      /\ \/ proc[n] # "alive" /\ proc' = proc
         \/ proc' = [proc EXCEPT ![n] = "zombie"]
         \/ proc' = [proc EXCEPT ![n] = "gone"]
  BY DEF KillsAtLast, files
<1>4. status' \in [Names -> {"none", "ok", "bad"}]
  BY <1>3 DEF Inductive, TypeOK
<1> QED BY <1>1, <1>2, <1>3, <1>4, SettlingStep

\* A save writes the file beside the record.
LEMMA RequestWritesStep ==
  ASSUME Inductive, NEW t \in Threads, RequestWrites(t)
  PROVE  Inductive'
<1> DEFINE q == request[t]
           n == q.id
<1>1. /\ q \in Requests /\ Fits(q) /\ q.at = "write" /\ n \in Names /\ proc[n] # "none"
      /\ q.copy \in {"running"} \cup Settled
  BY DEF Inductive, TypeOK, Fits, NameFits, RequestWrites, Requests, States
<1>2. PICK r : r = [q EXCEPT !.at = "rename"]
  OBVIOUS
<1>3. /\ Do(t, r) /\ tmp' = [tmp EXCEPT ![n] = q.copy]
      /\ UNCHANGED <<dirs, refused, json, proc, status, mine, live, reaper, restarts>>
  BY <1>2 DEF RequestWrites, Write, children
<1>4. /\ r \in Requests /\ r.at = "rename" /\ r.id = n /\ r.copy = q.copy /\ r.todo = q.todo
      /\ r.known = q.known /\ r.op = q.op /\ r.busy = q.busy /\ r.saves = q.saves
  BY <1>1, <1>2 DEF Requests
<1>5. TypeOK'
  BY <1>1, <1>3, <1>4 DEF Inductive, TypeOK, Do, States
<1>6. Grown /\ \A m \in Names : m # n => Quiet(m)
  BY <1>3 DEF Grown, Quiet, Inductive, TypeOK
<1>7. tmp'[n] = q.copy
  BY <1>1, <1>3 DEF Inductive, TypeOK
<1>8. Fits(r)'
  <2>1. r.todo \subseteq dirs' /\ r.id \in Names /\ r.copy # "absent"
    BY <1>1, <1>3, <1>4 DEF Fits
  <2>2. r.copy \in Settled => json'[r.id] # "absent" /\ proc'[r.id] # "alive"
    BY <1>1, <1>3, <1>4 DEF Fits
  <2>3. r.copy = "running" =>
          /\ proc'[r.id] # "none" /\ json'[r.id] = "absent" /\ r.saves = 1
          /\ tmp'[r.id] = "running"
    BY <1>1, <1>3, <1>4, <1>7 DEF Fits
  <2>4. \A m \in r.known : json'[m] # "absent"
    BY <1>1, <1>3, <1>4 DEF Fits
  <2>5. r.op = "start" /\ r.copy \in Settled /\ ~r.busy =>
           \A m \in r.known : m \in r.todo \/ proc'[m] # "alive"
    BY <1>1, <1>3, <1>4 DEF Fits
  <2> QED BY <1>4, <2>1, <2>2, <2>3, <2>4, <2>5 DEF Fits
<1>9. ASSUME NEW u \in Threads \ {t}, Owning(request[u]) PROVE request[u].id # n
  <2>1. CASE q.copy = "running"
    BY <1>1, <1>9, <2>1 DEF Inductive, OneOwner, Owning
  <2>2. CASE q.copy \in Settled
    BY <1>1, <1>9, <2>2, RecordedIsNotOwned DEF Fits
  <2> QED BY <1>1, <2>1, <2>2
<1>10. /\ \A u \in Threads : Fits(request[u])'
      /\ OneOwner'
  <2>1. ASSUME NEW u \in Threads \ {t}, Owning(request[u])
        PROVE  Quiet(request[u].id) /\ request[u].id # r.id
    BY <1>4, <1>6, <1>9, <2>1, RecordedIsNotOwned
  <2> QED BY <1>3, <1>4, <1>5, <1>6, <1>8, <2>1, RequestsFit
<1>11. ASSUME NEW m \in Names PROVE NameFits(m)'
  <2>1. CASE m = n
    <3>1. q.copy = "running" => json[n] = "absent"
      BY <1>1 DEF Fits
    <3>2. q.copy \in Settled => json[n] # "absent" /\ proc[n] # "alive"
      BY <1>1 DEF Fits
    <3> QED BY <1>1, <1>3, <1>7, <2>1, <3>1, <3>2 DEF Inductive, NameFits, Settled
  <2>2. CASE m # n
    BY <1>3, <2>2 DEF Inductive, NameFits, TypeOK
  <2> QED BY <2>1, <2>2
<1>12. RecordedOrRefused'
  BY <1>1, <1>3, <1>4, ChildrenStay
<1> QED BY <1>5, <1>10, <1>11, <1>12 DEF Inductive

\* A save is refused: the request is over, and what it was to record is not.
LEMMA RequestWriteRefusedStep ==
  ASSUME Inductive, NEW t \in Threads, RequestWriteRefused(t)
  PROVE  Inductive'
<1> DEFINE q == request[t]
           n == q.id
<1>1. /\ q \in Requests /\ Fits(q) /\ q.at = "write" /\ n \in Names /\ proc[n] # "none"
      /\ q.copy \in {"running"} \cup Settled
  BY DEF Inductive, TypeOK, Fits, NameFits, RequestWriteRefused, Requests, States
<1>2. /\ Do(t, Idle)
      /\ tmp' = tmp \/ tmp' = [tmp EXCEPT ![n] = "torn"]
      /\ refused' = refused \cup {n}
      /\ UNCHANGED <<dirs, json, proc, status, mine, live, reaper, restarts>>
  BY DEF RequestWriteRefused, WriteRefused, children
<1>3. Idle \in Requests /\ ~Owning(Idle) /\ Fits(Idle)'
  BY ActivityAssumption DEF Requests, Idle, States, Settled, Fits, Owning
<1>4. TypeOK'
  BY <1>1, <1>2, <1>3 DEF Inductive, TypeOK, Do
<1>5. tmp'[n] \in {tmp[n], "torn"} /\ \A m \in Names : m # n => tmp'[m] = tmp[m]
  BY <1>1, <1>2 DEF Inductive, TypeOK
<1>6. Grown /\ \A m \in Names : m # n => Quiet(m)
  BY <1>2, <1>5 DEF Grown, Quiet
<1>7. ASSUME NEW u \in Threads \ {t}, Owning(request[u]) PROVE Quiet(request[u].id)
  <2>1. request[u].id # n
    <3>1. CASE q.copy = "running"
      BY <1>1, <1>7, <3>1 DEF Inductive, OneOwner, Owning
    <3>2. CASE q.copy \in Settled
      BY <1>1, <1>7, <3>2, RecordedIsNotOwned DEF Fits
    <3> QED BY <1>1, <3>1, <3>2
  <2> QED BY <1>6, <1>7, <2>1, RecordedIsNotOwned
<1>8. /\ \A u \in Threads : Fits(request[u])'
      /\ OneOwner'
  BY <1>2, <1>3, <1>4, <1>6, <1>7, RequestsFit
<1>9. \A m \in Names : NameFits(m)'
  BY <1>1, <1>2, <1>5 DEF Inductive, NameFits, Settled
<1>10. RecordedOrRefused'
  BY <1>1, <1>2, ChildrenStay
<1> QED BY <1>4, <1>8, <1>9, <1>10 DEF Inductive

\* Where a request goes on after its save.
LEMMA ResumeFacts ==
  ASSUME NEW q \in Requests, q.at = "rename",
         q.copy \in {"running"} \cup Settled, q.copy = "running" => q.saves = 1
  PROVE  /\ Resume(q) \in Requests /\ ~Owning(Resume(q))
         /\ Resume(q).at \in {"write", "enlist", "idle", "visit"}
         /\ Resume(q).at \in {"write", "enlist"} => Resume(q).id = q.id
         /\ Resume(q).at = "write" => Resume(q).copy \in Settled /\ q.copy # "running"
         /\ Resume(q).at # "idle" => Resume(q).known = q.known /\ Resume(q).op = q.op
                                     /\ Resume(q).busy = q.busy
         /\ Resume(q).at = "idle" => Resume(q) = Idle
         /\ Resume(q).at = "visit" => Resume(q).todo = q.todo \ {q.id} /\ q.copy # "running"
         /\ Resume(q).todo \subseteq q.todo
         /\ Resume(q).at = "write" => Resume(q).todo = q.todo
<1>1. /\ "cancelled" \in States /\ "cancelled" \in Settled /\ Idle \in Requests
      /\ Settled \subseteq States /\ "running" \notin Settled
  BY ActivityAssumption DEF States, Settled, Requests, Idle
<1>2. CASE q.saves > 1
  <2> DEFINE r == [q EXCEPT !.at = "write", !.saves = @ - 1]
  <2>1. Resume(q) = r /\ q.copy \in Settled
    BY <1>2 DEF Resume
  <2>2. r \in Requests /\ r.at = "write" /\ r.copy = q.copy /\ r.id = q.id /\ r.todo = q.todo
        /\ r.known = q.known /\ r.op = q.op /\ r.busy = q.busy
    <3>1. q.saves \in 0..2
      BY DEF Requests
    <3>2. q.saves - 1 \in 0..2
      BY <1>2, <3>1
    <3> QED BY <3>2 DEF Requests
  <2> HIDE DEF r
  <2> QED BY <1>1, <2>1, <2>2 DEF Owning
<1>3. CASE ~(q.saves > 1) /\ q.copy = "running"
  <2> DEFINE r == [q EXCEPT !.at = "enlist"]
  <2>1. Resume(q) = r
    BY <1>3 DEF Resume
  <2>2. r \in Requests /\ r.at = "enlist" /\ r.copy = q.copy /\ r.id = q.id /\ r.todo = q.todo
        /\ r.known = q.known /\ r.op = q.op /\ r.busy = q.busy
    BY DEF Requests
  <2> HIDE DEF r
  <2> QED BY <1>1, <2>1, <2>2 DEF Owning
<1>4. CASE ~(q.saves > 1) /\ q.copy # "running" /\ q.op = "cancel" /\ q.copy # "cancelled"
  <2> DEFINE r == [q EXCEPT !.at = "write", !.copy = "cancelled"]
  <2>1. Resume(q) = r
    BY <1>4 DEF Resume
  <2>2. r \in Requests /\ r.at = "write" /\ r.copy = "cancelled" /\ r.id = q.id
        /\ r.todo = q.todo /\ r.known = q.known /\ r.op = q.op /\ r.busy = q.busy
    BY <1>1 DEF Requests
  <2> HIDE DEF r
  <2> QED BY <1>1, <1>4, <2>1, <2>2 DEF Owning
<1>5. CASE ~(q.saves > 1) /\ q.copy # "running" /\ q.op = "cancel" /\ q.copy = "cancelled"
  <2>1. Resume(q) = Idle
    BY <1>5 DEF Resume
  <2>2. Idle.at = "idle" /\ Idle.todo = {}
    BY DEF Idle
  <2> QED BY <1>1, <2>1, <2>2 DEF Owning
<1>6. CASE ~(q.saves > 1) /\ q.copy # "running" /\ q.op # "cancel"
  <2> DEFINE r == GoOn(q)
  <2>1. Resume(q) = r
    BY <1>6 DEF Resume
  <2>2. r \in Requests /\ r.at = "visit"
        /\ r.todo = q.todo \ {q.id} /\ r.known = q.known /\ r.op = q.op /\ r.busy = q.busy
    <3>1. "absent" \in States /\ 0 \in 0..2
      BY DEF States
    <3> QED BY <3>1 DEF Requests, GoOn
  <2> HIDE DEF r
  <2> QED BY <1>6, <2>1, <2>2 DEF Owning
<1> QED BY <1>2, <1>3, <1>4, <1>5, <1>6

\* And the rename puts it in the record's place.
LEMMA RequestRenamesStep ==
  ASSUME Inductive, NEW t \in Threads, RequestRenames(t)
  PROVE  Inductive'
<1> DEFINE q == request[t]
           n == q.id
<1>1. /\ q \in Requests /\ Fits(q) /\ q.at = "rename" /\ n \in Names /\ proc[n] # "none"
      /\ q.copy \in {"running"} \cup Settled /\ tmp[n] # "absent"
  BY DEF Inductive, TypeOK, Fits, NameFits, RequestRenames, Rename, Requests, States
<1>2. PICK r : r = Resume(q)
  OBVIOUS
<1>3. /\ Do(t, r) /\ json' = [json EXCEPT ![n] = tmp[n]] /\ tmp' = [tmp EXCEPT ![n] = "absent"]
      /\ UNCHANGED <<dirs, refused, proc, status, mine, live, reaper, restarts>>
  BY <1>2 DEF RequestRenames, Rename, children
<1>4. q.copy = "running" => q.saves = 1
  BY <1>1 DEF Fits
<1> HIDE DEF q
<1>5. /\ r \in Requests /\ ~Owning(r) /\ r.at \in {"write", "enlist", "idle", "visit"}
      /\ r.at \in {"write", "enlist"} => r.id = n
      /\ r.at = "write" => r.copy \in Settled /\ q.copy # "running" /\ r.todo = q.todo
      /\ r.at # "idle" => r.known = q.known /\ r.op = q.op /\ r.busy = q.busy
      /\ r.at = "idle" => r = Idle
      /\ r.at = "visit" => r.todo = q.todo \ {n} /\ q.copy # "running"
      /\ r.todo \subseteq q.todo
  BY <1>1, <1>2, <1>4, ResumeFacts
<1> USE DEF q
<1>6. TypeOK'
  BY <1>1, <1>3, <1>5 DEF Inductive, TypeOK, Do, States
<1>7. json'[n] = tmp[n] /\ tmp'[n] = "absent"
  BY <1>1, <1>3 DEF Inductive, TypeOK
<1>8. Grown /\ \A m \in Names : m # n => Quiet(m)
  BY <1>1, <1>3, <1>7 DEF Grown, Quiet, Inductive, TypeOK
<1>9. \A m \in q.known : m \in Names /\ json'[m] # "absent"
  BY <1>1, <1>8 DEF Fits, Grown, Requests
<1>10. q.copy # "running" /\ q.op = "start" /\ ~q.busy =>
          /\ \A m \in q.known : m \in q.todo \/ proc'[m] # "alive"
          /\ proc'[n] # "alive"
  BY <1>1, <1>3 DEF Fits
<1>11. Fits(r)'
  <2>1. CASE r.at = "idle"
    BY <1>5, <2>1 DEF Fits, Idle
  <2>2. CASE r.at = "visit"
    BY <1>1, <1>3, <1>5, <1>9, <1>10, <2>2 DEF Fits
  <2>3. CASE r.at = "enlist"
    BY <1>1, <1>3, <1>5, <1>7, <1>9, <2>3 DEF Fits
  <2>4. CASE r.at = "write"
    <3>1. r.copy # "absent" /\ r.copy # "running" /\ proc'[n] # "alive" /\ json'[n] # "absent"
      BY <1>1, <1>3, <1>5, <1>7, <2>4 DEF Fits, Settled
    <3> QED BY <1>1, <1>3, <1>5, <1>9, <1>10, <2>4, <3>1 DEF Fits
  <2> QED BY <1>5, <2>1, <2>2, <2>3, <2>4
<1>12. ASSUME NEW u \in Threads \ {t}, Owning(request[u]) PROVE Quiet(request[u].id)
  <2>1. request[u].id # n
    <3>1. CASE q.copy = "running"
      BY <1>1, <1>12, <3>1 DEF Inductive, OneOwner, Owning
    <3>2. CASE q.copy \in Settled
      BY <1>1, <1>12, <3>2, RecordedIsNotOwned DEF Fits
    <3> QED BY <1>1, <3>1, <3>2
  <2> QED BY <1>8, <1>12, <2>1, RecordedIsNotOwned
<1>13. /\ \A u \in Threads : Fits(request[u])'
       /\ OneOwner'
  BY <1>3, <1>5, <1>6, <1>8, <1>11, <1>12, RequestsFit
<1>14. ASSUME NEW m \in Names PROVE NameFits(m)'
  <2>1. CASE m = n
    <3>1. /\ tmp[n] \in Settled \cup {"running", "torn"}
          /\ "running" \notin Settled /\ "absent" \notin Settled
      BY <1>1 DEF Inductive, TypeOK, States, Settled
    <3>2. tmp[n] = "torn" => proc[n] # "alive" /\ json[n] # "absent"
      BY <1>1 DEF Fits
    <3> QED BY <1>1, <1>3, <1>7, <2>1, <3>1, <3>2 DEF Inductive, NameFits
  <2>2. CASE m # n
    BY <1>3, <2>2 DEF Inductive, NameFits, TypeOK
  <2> QED BY <2>1, <2>2
<1>15. RecordedOrRefused'
  BY <1>1, <1>3, <1>7, ChildrenStay DEF Inductive, TypeOK
<1> QED BY <1>6, <1>13, <1>14, <1>15 DEF Inductive

\* A directory of one's own.
LEMMA MakeDirStep ==
  ASSUME Inductive, NEW t \in Threads, MakeDir(t)
  PROVE  Inductive'
<1> DEFINE q == request[t]
           n == q.id
<1>1. q \in Requests /\ Fits(q) /\ q.at = "mkdir" /\ n \in Names
  BY DEF Inductive, TypeOK, Fits, MakeDir
<1>2. CASE n \in dirs
  <2>1. CASE q.tries + 1 < Tries
    <3>1. PICK r : r = [q EXCEPT !.at = "free", !.tries = @ + 1]
      OBVIOUS
    <3>2. q.tries + 1 \in 0..(Tries - 1)
      BY <1>1, <2>1, ActivityAssumption DEF Requests
    <3>3. r \in Requests /\ ~Owning(r) /\ Fits(r)
      BY <1>1, <3>1, <3>2 DEF Requests, Owning, Fits
    <3>4. Do(t, r) /\ UNCHANGED <<files, children, live, reaper, restarts>>
      BY <1>2, <2>1, <3>1 DEF MakeDir, files
    <3> QED BY <1>1, <3>3, <3>4, Quietly
  <2>2. CASE ~(q.tries + 1 < Tries)
    <3>1. Idle \in Requests /\ Fits(Idle) /\ ~Owning(Idle)
      BY ActivityAssumption DEF Requests, Idle, States, Settled, Fits, Owning
    <3>2. Do(t, Idle) /\ UNCHANGED <<files, children, live, reaper, restarts>>
      BY <1>2, <2>2 DEF MakeDir, files
    <3> QED BY <1>1, <3>1, <3>2, Quietly
  <2> QED BY <2>1, <2>2
<1>3. CASE n \notin dirs
  <2>1. PICK r : r = [q EXCEPT !.at = "spawn"]
    OBVIOUS
  <2>2. /\ Do(t, r) /\ dirs' = dirs \cup {n}
        /\ UNCHANGED <<json, tmp, refused, proc, status, mine, live, reaper, restarts>>
    BY <1>3, <2>1 DEF MakeDir, children
  <2>3. /\ r \in Requests /\ r.at = "spawn" /\ r.id = n /\ r.todo = q.todo
        /\ r.known = q.known /\ r.op = q.op /\ r.busy = q.busy
    BY <1>1, <2>1 DEF Requests
  <2>4. TypeOK'
    BY <1>1, <2>2, <2>3 DEF Inductive, TypeOK, Do
  <2>5. Grown /\ \A m \in Names : Quiet(m)
    BY <2>2 DEF Grown, Quiet
  <2>6. Fits(r)'
    BY <1>1, <1>3, <2>2, <2>3 DEF Fits, Inductive, NameFits
  <2>7. ASSUME NEW u \in Threads \ {t}, Owning(request[u])
        PROVE  Quiet(request[u].id) /\ request[u].id # r.id
    BY <1>3, <2>3, <2>5, <2>7, RecordedIsNotOwned
  <2>8. /\ \A u \in Threads : Fits(request[u])'
        /\ OneOwner'
    BY <2>2, <2>3, <2>4, <2>5, <2>6, <2>7, RequestsFit
  <2>9. \A m \in Names : NameFits(m)'
    BY <2>2 DEF Inductive, NameFits
  <2>10. RecordedOrRefused'
    BY <1>1, <2>2, <2>3, ChildrenStay
  <2> QED BY <2>4, <2>8, <2>9, <2>10 DEF Inductive
<1> QED BY <1>2, <1>3

\* The child is there.
LEMMA SpawnStep ==
  ASSUME Inductive, NEW t \in Threads, Spawn(t)
  PROVE  Inductive'
<1> DEFINE q == request[t]
           n == q.id
<1>1. /\ q \in Requests /\ Fits(q) /\ q.at = "spawn" /\ n \in Names /\ n \in dirs
      /\ proc[n] = "none" /\ json[n] = "absent" /\ tmp[n] = "absent"
  BY DEF Inductive, TypeOK, Fits, Spawn, NameFits
<1>2. PICK r : r = [q EXCEPT !.at = "write", !.copy = "running", !.saves = 1, !.known = {}]
  OBVIOUS
<1>3. /\ Do(t, r) /\ proc' = [proc EXCEPT ![n] = "alive"] /\ status' = [status EXCEPT ![n] = "none"]
      /\ mine' = mine \cup {n}
      /\ UNCHANGED <<dirs, json, tmp, refused, live, reaper, restarts>>
  BY <1>2 DEF Spawn, files
<1>4. "running" \in States /\ 1 \in 0..2 /\ "running" \notin Settled
  BY DEF States, Settled
<1>5. /\ r \in Requests /\ r.at = "write" /\ r.id = n /\ r.copy = "running" /\ r.saves = 1
      /\ r.todo = q.todo /\ r.known = {} /\ r.op = q.op /\ r.busy = q.busy
  BY <1>1, <1>2, <1>4 DEF Requests
<1>6. TypeOK'
  BY <1>1, <1>3, <1>5 DEF Inductive, TypeOK, Do
<1>7. proc'[n] = "alive" /\ \A m \in Names : m # n => proc'[m] = proc[m]
  BY <1>1, <1>3 DEF Inductive, TypeOK
<1>8. Grown /\ \A m \in Names : m # n => Quiet(m)
  BY <1>1, <1>3, <1>7 DEF Grown, Quiet
<1>9. Fits(r)'
  BY <1>1, <1>3, <1>4, <1>5, <1>7 DEF Fits
<1>10. ASSUME NEW u \in Threads \ {t}, Owning(request[u])
       PROVE  Quiet(request[u].id) /\ request[u].id # r.id
  <2>1. request[u].id # n
    BY <1>1, <1>10 DEF Inductive, OneOwner, Owning
  <2> QED BY <1>5, <1>8, <1>10, <2>1, RecordedIsNotOwned
<1>11. /\ \A u \in Threads : Fits(request[u])'
       /\ OneOwner'
  BY <1>3, <1>5, <1>6, <1>8, <1>9, <1>10, RequestsFit
<1>12. \A m \in Names : NameFits(m)'
  BY <1>1, <1>3, <1>7 DEF Inductive, NameFits, Settled
<1>13. RecordedOrRefused'
  BY <1>1, <1>3, <1>5, <1>7, ChildrenStay
<1> QED BY <1>6, <1>11, <1>12, <1>13 DEF Inductive

\* The activity is enlisted.
LEMMA EnlistStep ==
  ASSUME Inductive, NEW t \in Threads, Enlist(t)
  PROVE  Inductive'
<1> DEFINE q == request[t]
           n == q.id
<1>1. q \in Requests /\ Fits(q) /\ q.at = "enlist" /\ n \in Names /\ json[n] # "absent"
  BY DEF Inductive, TypeOK, Fits, Enlist
<1>2. /\ Do(t, Idle) /\ live' = [live EXCEPT ![n] = "none"]
      /\ reaper' = [reaper EXCEPT ![n] = [at |-> "wait", code |-> "none"]]
      /\ UNCHANGED <<dirs, json, tmp, refused, proc, status, mine, restarts>>
  <2>1. [NoReaper EXCEPT !.at = "wait"] = [at |-> "wait", code |-> "none"]
    BY DEF NoReaper
  <2> QED BY <2>1 DEF Enlist, files, children
<1>3. Idle \in Requests /\ ~Owning(Idle) /\ Fits(Idle)'
  BY ActivityAssumption DEF Requests, Idle, States, Settled, Fits, Owning
<1>4. TypeOK'
  BY <1>1, <1>2, <1>3 DEF Inductive, TypeOK, Do
<1>5. Grown /\ \A m \in Names : Quiet(m)
  BY <1>2 DEF Grown, Quiet
<1>6. /\ \A u \in Threads : Fits(request[u])'
      /\ OneOwner'
  BY <1>2, <1>3, <1>4, <1>5, RecordedIsNotOwned, RequestsFit
<1>7. ASSUME NEW m \in Names PROVE NameFits(m)'
  <2>1. CASE m = n
    <3>1. live'[n] = "none" /\ reaper'[n].at = "wait"
      BY <1>1, <1>2 DEF Inductive, TypeOK
    <3> QED BY <1>1, <1>2, <2>1, <3>1 DEF Inductive, NameFits
  <2>2. CASE m # n
    BY <1>2, <2>2 DEF Inductive, NameFits, TypeOK
  <2> QED BY <2>1, <2>2
<1>8. RecordedOrRefused'
  BY <1>1, <1>2, ChildrenStay
<1> QED BY <1>4, <1>6, <1>7, <1>8 DEF Inductive

-----------------------------------------------------------------------------
(* The steps of the reapers, the children and the server.                  *)

\* A step that no request takes: everybody's local variables still fit, when the step
\* is quiet for the names that are owned and starts no child.
LEMMA NobodysStep ==
  ASSUME Inductive, TypeOK', Grown, request' = request, restarts' = restarts,
         \A n \in Names : json[n] = "absent" => Quiet(n),
         \A n \in Names : proc'[n] = "alive" /\ json'[n] = "absent" =>
                              proc[n] = "alive" /\ json[n] = "absent",
         \A n \in Names : NameFits(n)'
  PROVE  Inductive'
<1>1. ASSUME NEW u \in Threads PROVE Fits(request[u])'
  <2>1. PICK q \in Requests : q = request[u]
    BY DEF Inductive, TypeOK
  <2>2. Fits(q) /\ (Owning(q) => Quiet(q.id))
    BY <2>1, RecordedIsNotOwned DEF Inductive
  <2>3. Fits(q)'
    BY <2>2, OthersFit DEF Inductive
  <2>4. request'[u] = q
    BY <2>1
  <2> QED BY <2>3, <2>4 DEF Fits
<1>2. OneOwner'
  BY DEF Inductive, OneOwner, Owning
<1>3. RecordedOrRefused'
  BY DEF Inductive, RecordedOrRefused, Grown
<1> QED BY <1>1, <1>2, <1>3 DEF Inductive

\* The reaper has the child's status.
LEMMA ReaperWaitsStep ==
  ASSUME Inductive, NEW n \in Names, ReaperWaits(n)
  PROVE  Inductive'
<1>1. PICK code \in {"none", "ok", "bad"} :
          reaper' = [reaper EXCEPT ![n] = [at |-> "put", code |-> code]]
  BY DEF ReaperWaits, Inductive, TypeOK
<1>2. /\ reaper[n].at = "wait" /\ proc[n] \in {"zombie", "gone"} /\ proc' = [proc EXCEPT ![n] = "gone"]
      /\ UNCHANGED <<dirs, json, tmp, refused, mine, live, request, restarts>>
      /\ status' = [status EXCEPT ![n] = "none"]
  BY DEF ReaperWaits, files
<1>3. TypeOK'
  BY <1>1, <1>2 DEF Inductive, TypeOK
<1>4. /\ proc'[n] = "gone" /\ reaper'[n].at = "put"
      /\ \A m \in Names : m # n => proc'[m] = proc[m] /\ reaper'[m] = reaper[m]
  BY <1>1, <1>2 DEF Inductive, TypeOK
<1>5. json[n] # "absent"
  BY <1>2 DEF Inductive, NameFits
<1>6. Grown /\ \A m \in Names : json[m] = "absent" => Quiet(m)
  BY <1>2, <1>4, <1>5 DEF Grown, Quiet
<1>7. \A m \in Names : NameFits(m)'
  BY <1>2, <1>4, <1>5 DEF Inductive, NameFits
<1>8. \A m \in Names : proc'[m] = "alive" /\ json'[m] = "absent" => proc[m] = "alive" /\ json[m] = "absent"
  BY <1>2, <1>4
<1> QED BY <1>2, <1>3, <1>6, <1>7, <1>8, NobodysStep

\* It leaves the status where `reap` finds it.
LEMMA ReaperPutsStep ==
  ASSUME Inductive, NEW n \in Names, ReaperPuts(n)
  PROVE  Inductive'
<1>1. /\ reaper[n].at = "put" /\ live' = [live EXCEPT ![n] = reaper[n].code]
      /\ reaper' = [reaper EXCEPT ![n].at = "write"]
      /\ UNCHANGED <<dirs, json, tmp, refused, proc, status, mine, request, restarts>>
  BY DEF ReaperPuts, files, children
<1>2. TypeOK'
  BY <1>1 DEF Inductive, TypeOK
<1>3. /\ reaper'[n].at = "write"
      /\ \A m \in Names : m # n => reaper'[m] = reaper[m] /\ live'[m] = live[m]
  BY <1>1 DEF Inductive, TypeOK
<1>4. json[n] # "absent" /\ proc[n] # "alive"
  BY <1>1 DEF Inductive, NameFits
<1>5. Grown /\ \A m \in Names : Quiet(m)
  BY <1>1 DEF Grown, Quiet
<1>6. \A m \in Names : NameFits(m)'
  BY <1>1, <1>3, <1>4 DEF Inductive, NameFits
<1> QED BY <1>1, <1>2, <1>5, <1>6, NobodysStep

\* It writes what it settled.
LEMMA ReaperWritesStep ==
  ASSUME Inductive, NEW n \in Names, ReaperWrites(n)
  PROVE  Inductive'
<1>1. PICK state \in {"done", "failed"} : tmp' = [tmp EXCEPT ![n] = state]
  BY DEF ReaperWrites, Write, StateOf
<1>2. /\ reaper[n].at = "write" /\ reaper' = [reaper EXCEPT ![n].at = "rename"]
      /\ UNCHANGED <<dirs, refused, json, proc, status, mine, live, request, restarts>>
  BY DEF ReaperWrites, Write, children
<1>3. TypeOK'
  BY <1>1, <1>2 DEF Inductive, TypeOK, States, Settled
<1>4. /\ tmp'[n] = state /\ reaper'[n].at = "rename"
      /\ \A m \in Names : m # n => tmp'[m] = tmp[m] /\ reaper'[m] = reaper[m]
  BY <1>1, <1>2 DEF Inductive, TypeOK
<1>5. json[n] # "absent" /\ proc[n] \notin {"alive", "none"}
  BY <1>2 DEF Inductive, NameFits
<1>6. Grown /\ \A m \in Names : json[m] = "absent" => Quiet(m)
  BY <1>2, <1>4, <1>5 DEF Grown, Quiet
<1>7. \A m \in Names : NameFits(m)'
  BY <1>2, <1>4, <1>5 DEF Inductive, NameFits
<1> QED BY <1>2, <1>3, <1>6, <1>7, NobodysStep

\* Or is refused the write.
LEMMA ReaperWriteRefusedStep ==
  ASSUME Inductive, NEW n \in Names, ReaperWriteRefused(n)
  PROVE  Inductive'
<1>1. /\ reaper[n].at = "write" /\ refused' = refused \cup {n}
      /\ reaper' = [reaper EXCEPT ![n] = [at |-> "off", code |-> "none"]]
      /\ tmp' = tmp \/ tmp' = [tmp EXCEPT ![n] = "torn"]
      /\ UNCHANGED <<dirs, json, proc, status, mine, live, request, restarts>>
  BY DEF ReaperWriteRefused, WriteRefused, children, NoReaper
<1>2. TypeOK'
  BY <1>1 DEF Inductive, TypeOK
<1>3. /\ tmp'[n] \in {tmp[n], "torn"} /\ reaper'[n].at = "off"
      /\ \A m \in Names : m # n => tmp'[m] = tmp[m] /\ reaper'[m] = reaper[m]
  BY <1>1 DEF Inductive, TypeOK
<1>4. json[n] # "absent" /\ proc[n] \notin {"alive", "none"}
  BY <1>1 DEF Inductive, NameFits
<1>5. Grown /\ \A m \in Names : json[m] = "absent" => Quiet(m)
  BY <1>1, <1>3, <1>4 DEF Grown, Quiet
<1>6. \A m \in Names : NameFits(m)'
  BY <1>1, <1>3, <1>4 DEF Inductive, NameFits, Settled
<1> QED BY <1>1, <1>2, <1>5, <1>6, NobodysStep

\* And renames it, unless somebody renamed it away.
LEMMA ReaperRenamesStep ==
  ASSUME Inductive, NEW n \in Names, ReaperRenames(n)
  PROVE  Inductive'
<1>1. /\ reaper[n].at = "rename"
      /\ reaper' = [reaper EXCEPT ![n] = [at |-> "off", code |-> "none"]]
      /\ UNCHANGED <<dirs, refused, proc, status, mine, live, request, restarts>>
  BY DEF ReaperRenames, Rename, files, children, NoReaper
<1>2. json[n] # "absent" /\ proc[n] \notin {"alive", "none"}
  BY <1>1 DEF Inductive, NameFits
<1>3. \/ tmp[n] # "absent" /\ json' = [json EXCEPT ![n] = tmp[n]] /\ tmp' = [tmp EXCEPT ![n] = "absent"]
      \/ UNCHANGED <<json, tmp>>
  BY DEF ReaperRenames, Rename, files
<1>4. TypeOK'
  BY <1>1, <1>3 DEF Inductive, TypeOK, States
<1>5. /\ reaper'[n].at = "off"
      /\ \/ tmp[n] # "absent" /\ json'[n] = tmp[n] /\ tmp'[n] = "absent"
         \/ json'[n] = json[n] /\ tmp'[n] = tmp[n]
      /\ \A m \in Names : m # n => json'[m] = json[m] /\ tmp'[m] = tmp[m] /\ reaper'[m] = reaper[m]
  BY <1>1, <1>3 DEF Inductive, TypeOK
<1>6. json'[n] # "absent"
  BY <1>2, <1>5
<1>7. Grown /\ \A m \in Names : json[m] = "absent" => Quiet(m)
  BY <1>1, <1>2, <1>5, <1>6 DEF Grown, Quiet
<1>8. \A m \in Names : NameFits(m)'
  BY <1>1, <1>2, <1>5, <1>6 DEF Inductive, NameFits, Settled
<1>9. \A m \in Names : proc'[m] = "alive" /\ json'[m] = "absent" => proc[m] = "alive" /\ json[m] = "absent"
  BY <1>1, <1>5, <1>6
<1> QED BY <1>1, <1>4, <1>7, <1>8, <1>9, NobodysStep

\* A child exits.
LEMMA ExitsStep ==
  ASSUME Inductive, NEW n \in Names, Exits(n)
  PROVE  Inductive'
<1>1. /\ proc[n] = "alive"
      /\ proc' = [proc EXCEPT ![n] = "zombie"] \/ proc' = [proc EXCEPT ![n] = "gone"]
      /\ UNCHANGED <<dirs, json, tmp, refused, mine, live, reaper, request, restarts>>
  BY DEF Exits, files
<1>2. status' \in [Names -> {"none", "ok", "bad"}]
  BY DEF Exits, Inductive, TypeOK
<1>3. TypeOK'
  BY <1>1, <1>2 DEF Inductive, TypeOK
<1>4. proc'[n] \in {"zombie", "gone"} /\ \A m \in Names : m # n => proc'[m] = proc[m]
  BY <1>1 DEF Inductive, TypeOK
<1>5. Grown /\ \A m \in Names : Quiet(m)
  BY <1>1, <1>4 DEF Grown, Quiet
<1>6. \A m \in Names : NameFits(m)'
  BY <1>1, <1>4 DEF Inductive, NameFits
<1>7. \A m \in Names : proc'[m] = "alive" => proc[m] = "alive"
  BY <1>4
<1> QED BY <1>1, <1>3, <1>5, <1>6, <1>7, NobodysStep

\* The server starts anew.
LEMMA RestartStep ==
  ASSUME Inductive, Restart
  PROVE  Inductive'
<1>1. Idle \in Requests /\ ~Owning(Idle) /\ Fits(Idle)'
  BY ActivityAssumption DEF Requests, Idle, States, Settled, Fits, Owning
<1>2. restarts' = restarts + 1 /\ restarts \in Nat /\ restarts + 1 <= MaxRestarts
  BY ActivityAssumption DEF Restart, Inductive, TypeOK
<1>3. TypeOK'
  BY <1>1, <1>2 DEF Restart, Inductive, TypeOK, files, NoReaper
<1>4. \A u \in Threads : request'[u] = Idle
  BY DEF Restart
<1>5. \A u \in Threads : Fits(request[u])'
  BY <1>1, <1>4 DEF Fits
<1>6. OneOwner'
  BY <1>1, <1>4 DEF OneOwner, Owning
<1>7. \A m \in Names : NameFits(m)'
  BY DEF Restart, Inductive, TypeOK, NameFits, files, NoReaper
<1>8. RecordedOrRefused'
  BY <1>2 DEF RecordedOrRefused
<1> QED BY <1>3, <1>5, <1>6, <1>7, <1>8 DEF Inductive

-----------------------------------------------------------------------------
(* The theorems.                                                           *)

\* The initial state.
LEMMA InductiveInit == Init => Inductive
<1> SUFFICES ASSUME Init PROVE Inductive
  OBVIOUS
<1>1. Idle \in Requests /\ ~Owning(Idle) /\ Fits(Idle)
  BY ActivityAssumption DEF Requests, Idle, States, Settled, Fits, Owning
<1>2. TypeOK
  BY <1>1, ActivityAssumption DEF Init, TypeOK, States, NoReaper
<1>3. \A n \in Names : NameFits(n)
  BY DEF Init, NameFits, NoReaper, Settled
<1>4. (\A t \in Threads : Fits(request[t])) /\ OneOwner
  BY <1>1 DEF Init, OneOwner
<1>5. RecordedOrRefused
  BY DEF Init, RecordedOrRefused
<1> QED BY <1>2, <1>3, <1>4, <1>5 DEF Inductive

\* Every step.
LEMMA InductiveStep == Inductive /\ [Next]_vars => Inductive'
<1> SUFFICES ASSUME Inductive, [Next]_vars PROVE Inductive'
  OBVIOUS
<1>1. ASSUME NEW t \in Threads, Arrive(t) PROVE Inductive'
  BY <1>1, ArriveStep
<1>2. ASSUME NEW t \in Threads, Proceed(t) PROVE Inductive'
  BY <1>2, VisitSteps, OwnSteps, ReapSettlesStep, KillsAtLastStep, RequestWritesStep,
     RequestWriteRefusedStep,
     RequestRenamesStep, MakeDirStep, SpawnStep, EnlistStep DEF Proceed
<1>3. ASSUME NEW n \in Names, Reaper(n) \/ Exits(n) PROVE Inductive'
  BY <1>3, ReaperWaitsStep, ReaperPutsStep, ReaperWritesStep, ReaperWriteRefusedStep,
     ReaperRenamesStep, ExitsStep DEF Reaper
<1>4. CASE Restart
  BY <1>4, RestartStep
<1>5. CASE UNCHANGED vars
  <2>1. TypeOK'
    BY <1>5 DEF Inductive, TypeOK, vars, files, children
  <2>2. Grown /\ (\A n : Quiet(n)) /\ request' = request /\ restarts' = restarts
    BY <1>5 DEF Grown, Quiet, vars, files, children
  <2>3. \A n \in Names : NameFits(n)'
    BY <1>5 DEF Inductive, NameFits, vars, files, children
  <2>4. json' = json /\ proc' = proc
    BY <1>5 DEF vars, files, children
  <2> QED BY <2>1, <2>2, <2>3, <2>4, NobodysStep
<1> QED BY <1>1, <1>2, <1>3, <1>4, <1>5 DEF Next

\* The invariant, for every number of threads, names, attempts and restarts.
THEOREM Invariance == Spec => []Inductive
BY InductiveInit, InductiveStep, PTL DEF Spec

\* Every variable has its type.
THEOREM TypeCorrect == Spec => []TypeOK
<1>1. Inductive => TypeOK
  BY DEF Inductive
<1> QED BY <1>1, Invariance, PTL

\* A record that says an activity is over is right, and a child no record names as running
\* is being recorded, unless that save was refused or the server died in between.
THEOREM RecordsTrue == Spec => []RecordsAreTrue
<1>1. Inductive => RecordsAreTrue
  <2> SUFFICES ASSUME Inductive PROVE SettledIsOver /\ ChildrenAreRecorded
    BY DEF RecordsAreTrue
  <2>1. SettledIsOver
    BY DEF Inductive, NameFits, SettledIsOver
  <2>2. \A n \in Names : proc[n] = "alive" /\ json[n] # "running" => json[n] = "absent"
    BY DEF Inductive, TypeOK, NameFits, States
  <2>3. ChildrenAreRecorded
    BY <2>2 DEF Inductive, RecordedOrRefused, ChildrenAreRecorded
  <2> QED BY <2>1, <2>3
<1> QED BY <1>1, Invariance, PTL

\* The gate never lets a writer pass a running one that was on record when it came in.
THEOREM GateSound == Spec => []GateSeesWriters
<1>1. Inductive => GateSeesWriters
  BY DEF Inductive, Fits, GateSeesWriters
<1> QED BY <1>1, Invariance, PTL

\* Only a rename changes what a record says, and only a start makes a process.
LEMMA RecordsKept ==
  ASSUME Inductive, [Next]_vars
  PROVE  OwnDirectory /\ SettledStays
<1>1. ASSUME NEW n \in Names, Rename(n) PROVE SettledStays
  <2>1. tmp[n] # "running" \/ json[n] = "absent"
    BY <1>1 DEF Rename, Inductive, TypeOK, NameFits
  <2>2. json' = [json EXCEPT ![n] = tmp[n]]
    BY <1>1 DEF Rename
  <2> QED BY <2>1, <2>2 DEF Inductive, TypeOK, SettledStays, Settled
<1>2. json' = json => SettledStays
  BY DEF SettledStays, Settled
<1>3. (\A n \in Names : proc'[n] = "alive" => proc[n] = "alive") => OwnDirectory
  BY DEF OwnDirectory
<1>4. ASSUME NEW t \in Threads, Arrive(t) PROVE UNCHANGED <<json, proc>>
  BY <1>4 DEF Arrive, Look, AskToStart, Cancel, files, children
<1>5. ASSUME NEW t \in Threads, Proceed(t) PROVE OwnDirectory /\ SettledStays
  <2>1. CASE Load(t) \/ ReapFindsRunning(t) \/ RequestWrites(t) \/ RequestRenameFails(t) \/ Signal(t)
           \/ RequestWriteRefused(t)
    BY <1>2, <1>3, <2>1
       DEF Load, ReapFindsRunning, RequestWrites, RequestRenameFails, Signal, Write, files, children,
           RequestWriteRefused, WriteRefused
  <2>2. CASE \/ SignalFindsNobody(t) \/ Looked(t) \/ FreeId(t) \/ MakeDir(t) \/ SpawnFails(t) \/ Enlist(t)
    BY <1>2, <1>3, <2>2
       DEF SignalFindsNobody, Looked, FreeId, MakeDir, SpawnFails, Enlist, files, children
  <2>3. CASE ReapSettles(t)
    <3>1. /\ json' = json
          /\ \/ proc' = proc
             \/ proc' = [proc EXCEPT ![request[t].id] = "gone"]
      BY <2>3, Zenon DEF ReapSettles, files
    <3> QED BY <1>2, <1>3, <3>1 DEF Inductive, TypeOK
  <2>4. CASE RequestRenames(t)
    <3>1. request[t].id \in Names /\ Rename(request[t].id) /\ proc' = proc
      BY <2>4 DEF RequestRenames, Inductive, Fits, children
    <3> QED BY <1>1, <1>3, <3>1
  <2>5. CASE KillsAtLast(t)
    <3>1. /\ json' = json
          /\ \/ proc' = proc
             \/ proc' = [proc EXCEPT ![request[t].id] = "gone"]
             \/ proc' = [proc EXCEPT ![request[t].id] = "zombie"]
      BY <2>5 DEF KillsAtLast, files
    <3> QED BY <1>2, <1>3, <3>1 DEF Inductive, TypeOK
  <2>6. CASE Spawn(t)
    <3>1. /\ json' = json /\ proc' = [proc EXCEPT ![request[t].id] = "alive"]
          /\ proc[request[t].id] = "none"
      BY <2>6 DEF Spawn, files, Inductive, Fits
    <3>2. OwnDirectory
      BY <3>1 DEF OwnDirectory, Inductive, TypeOK
    <3> QED BY <1>2, <3>1, <3>2
  <2> QED BY <1>5, <2>1, <2>2, <2>3, <2>4, <2>5, <2>6 DEF Proceed
<1>6. ASSUME NEW n \in Names, Reaper(n) PROVE OwnDirectory /\ SettledStays
  <2>1. CASE ReaperWaits(n)
    <3>1. json' = json /\ proc' = [proc EXCEPT ![n] = "gone"]
      BY <2>1 DEF ReaperWaits, files
    <3> QED BY <1>2, <1>3, <3>1 DEF Inductive, TypeOK
  <2>2. CASE ReaperPuts(n) \/ ReaperWrites(n) \/ ReaperWriteRefused(n)
    BY <1>2, <1>3, <2>2
       DEF ReaperPuts, ReaperWrites, ReaperWriteRefused, Write, WriteRefused, files, children
  <2>3. CASE ReaperRenames(n)
    BY <1>1, <1>2, <1>3, <2>3 DEF ReaperRenames, files, children
  <2> QED BY <1>6, <2>1, <2>2, <2>3 DEF Reaper
<1>7. ASSUME NEW n \in Names, Exits(n) PROVE OwnDirectory /\ SettledStays
  <2>1. json' = json /\ \A m \in Names : m # n => proc'[m] = proc[m]
    BY <1>7 DEF Exits, files, Inductive, TypeOK
  <2> QED BY <1>2, <1>7, <2>1 DEF Exits, OwnDirectory
<1>8. CASE Restart
  BY <1>2, <1>3, <1>8 DEF Restart, files
<1>9. CASE UNCHANGED vars
  BY <1>2, <1>3, <1>9 DEF vars, files, children
<1> QED BY <1>2, <1>3, <1>4, <1>5, <1>6, <1>7, <1>8, <1>9 DEF Next

\* Two activities never share a directory, and one that is over stays over.
THEOREM RecordsAreFinal == Spec => RecordsStay
<1>1. Inductive /\ [Next]_vars => [OwnDirectory /\ SettledStays]_vars
  BY RecordsKept
<1> QED BY <1>1, Invariance, PTL DEF Spec, RecordsStay
-----------------------------------------------------------------------------
(* The page: types.                                                        *)

Runs == [state : {"running", "ended"}, ended : Nat]
Doings == {NoCommand} \cup [cmd : {"index", "index_pull", "pull", "run"}, on : SUBSET Builds]

Pages == [view : Views, rows : SUBSET Builds, drawn : Nat, digest : Nat, seen : SUBSET Nat,
          noticed : SUBSET Nat, gone : SUBSET Nat, ticked : SUBSET Builds]

Loads ==
    {NoLoad}
    \cup [step : {"asked"}, view : Views]
    \cup [step : {"read"}, view : Views, rows : SUBSET Builds]
    \cup [step : {"stamped"}, view : Views, rows : SUBSET Builds, drawn : Nat, digest : Nat]

Polls ==
    {NoPoll}
    \cup [step : {"asked"}]
    \cup [step : {"read"}, acts : Seq(Runs)]
    \cup [step : {"answered"}, acts : Seq(Runs), digest : Nat]

ServerTypes ==
    /\ stage \in [Builds -> Stages]
    /\ acts \in Seq(Runs)
    /\ doing \in Doings
    /\ writes \in Nat /\ foreign \in Nat /\ clock \in Nat

BrowserTypes ==
    /\ page \in Pages /\ load \in Loads /\ polls \in [Slots -> Polls]
    /\ session \in SUBSET Builds /\ meant \in SUBSET Builds
    /\ typing \in BOOLEAN /\ swept \in BOOLEAN /\ visits \in Nat

TabTypeOK == ServerTypes /\ BrowserTypes

-----------------------------------------------------------------------------
(* The inductive invariant.                                                *)

\* The one activity that runs is the last one made, and an end was counted.
OneRuns ==
    /\ \A k \in DOMAIN acts :
          /\ acts[k].ended <= clock
          /\ acts[k].state = "running" => k = Len(acts) /\ doing # NoCommand
    /\ doing # NoCommand => acts # <<>> /\ acts[Len(acts)].state = "running"

\* An activity somebody saw running while this page was open: it still runs, or it
\* ended after the page was drawn.
RanSince(k) == k \in DOMAIN acts /\ (acts[k].state = "ended" => acts[k].ended > page.drawn)

\* What an answer says of an activity is what its record says, or it said so while the
\* activity was running.
IsPast(told) ==
    \A k \in DOMAIN told :
        /\ k \in DOMAIN acts
        /\ told[k].state = "running" => RanSince(k)
        /\ told[k].state = "ended" => told[k] = acts[k]

\* What the page drew, saw and said, and every answer on its way to it.
PageIsPast ==
    /\ page.drawn <= clock
    /\ load.step = "stamped" => load.drawn <= clock
    /\ \A k \in page.seen : RanSince(k)
    /\ \A k \in page.noticed :
          k \in DOMAIN acts /\ acts[k].state = "ended" /\ acts[k].ended > page.drawn
    /\ \A s \in Slots : polls[s].step \in {"read", "answered"} => IsPast(polls[s].acts)

\* The boxes are those of the rows drawn, the reader means them, and they are saved
\* unless the header box set them.
TicksAreSaved ==
    /\ page.ticked = meant /\ page.ticked \subseteq page.rows
    /\ ~swept => session = page.ticked

TabInductive == TabTypeOK /\ OneRuns /\ PageIsPast /\ TicksAreSaved

-----------------------------------------------------------------------------
(* Lemmas about the operators.                                             *)

\* The constants are never the ones a step or a command is told by.
LEMMA Distinct ==
    /\ NoCommand \in Doings /\ NoCommand.cmd = "none"
    /\ NoLoad.step = "none" /\ NoPoll.step = "free"
    /\ NoLoad \in Loads /\ NoPoll \in Polls
  BY DEF NoCommand, Doings, NoLoad, NoPoll, Loads, Polls

\* The rows furthest behind are in one of the stages.
LEMMA PhaseFacts ==
  ASSUME NEW ticks \in SUBSET Builds, ticks # {}, NEW st \in [Builds -> Stages]
  PROVE  Phase(st, ticks) \in Stages
<1> DEFINE Some == {st[b] : b \in ticks}
<1>1. \E b \in ticks : st[b] \in Stages
  OBVIOUS
<1>2. \A b \in ticks : st[b] \in {1, 2, 3}
  BY DEF Stages, Unknown, Held
<1>3. \E s \in Some : \A b \in ticks : s <= st[b]
  <2>1. CASE \E b \in ticks : st[b] = 1
    BY <2>1, <1>2
  <2>2. CASE (\A b \in ticks : st[b] # 1) /\ \E b \in ticks : st[b] = 2
    BY <2>2, <1>2
  <2>3. CASE \A b \in ticks : st[b] = 3
    BY <2>3, <1>1
  <2> QED BY <2>1, <2>2, <2>3, <1>2
<1>4. Phase(st, ticks) \in Some
  BY <1>3, Zenon DEF Phase
<1> QED BY <1>4

\* What a press makes is a command over builds there are.
LEMMA PressFacts ==
  ASSUME NEW button \in Buttons, NEW ticks \in SUBSET Builds, Accepted(button, ticks),
         NEW st \in [Builds -> Stages]
  PROVE  [cmd |-> CommandOf(button, st, ticks), on |-> ActedOn(button, st, ticks)]
           \in Doings \ {NoCommand}
<1>1. CASE button = "smart"
  <2>1. Phase(st, ticks) \in {1, 2, 3}
    BY <1>1, PhaseFacts DEF Accepted, Stages, Unknown, Held
  <2>2. SmartStep(Phase(st, ticks)) \in {"index_pull", "pull", "run"}
    BY <2>1 DEF SmartStep, Unknown, Known, Held
  <2> QED BY <1>1, <2>2 DEF CommandOf, ActedOn, SmartActed, Doings, NoCommand
<1>2. CASE button # "smart"
  BY <1>2 DEF Buttons, CommandOf, ActedOn, Doings, NoCommand
<1> QED BY <1>1, <1>2

\* A command leaves every build in one of the stages.
LEMMA EffectFacts ==
  ASSUME NEW cmd \in {"index", "index_pull", "pull", "run"}, NEW st \in [Builds -> Stages],
         NEW good \in SUBSET Builds
  PROVE  Effect(cmd, st, good) \in [Builds -> Stages]
<1>1. \A b \in Builds : Gets(cmd, st, b) \in Stages
  BY DEF Gets, Stages, Unknown, Known, Held
<1> QED BY <1>1 DEF Effect

-----------------------------------------------------------------------------
(* What the server does to the activities.                                 *)

\* Time passes and nothing is rewritten: a record stays, or that of a running activity
\* says an end that is counted now.
TabGrown ==
    /\ clock' >= clock
    /\ \A k \in DOMAIN acts :
          /\ k \in DOMAIN acts'
          /\ \/ acts'[k] = acts[k]
             \/ acts[k].state = "running" /\ acts'[k].state = "ended" /\ acts'[k].ended > clock

LEMMA RanStays ==
  ASSUME TabInductive, ServerTypes', TabGrown, page'.drawn = page.drawn, NEW k, RanSince(k)
  PROVE  RanSince(k)'
<1>1. page.drawn <= clock /\ page.drawn \in Nat /\ clock \in Nat
  BY DEF TabInductive, TabTypeOK, ServerTypes, BrowserTypes, Pages, PageIsPast
<1>2. k \in DOMAIN acts /\ acts[k] \in Runs
  BY ElementOfSeq DEF TabInductive, TabTypeOK, ServerTypes, RanSince
<1>3. CASE acts'[k] = acts[k]
  BY <1>3 DEF RanSince, TabGrown
<1>4. CASE acts[k].state = "running" /\ acts'[k].state = "ended" /\ acts'[k].ended > clock
  <2>1. acts'[k] \in Runs
    BY <1>2, ElementOfSeq DEF ServerTypes, TabGrown
  <2>2. acts'[k].ended > page.drawn
    BY <1>1, <1>4, <2>1 DEF Runs
  <2> QED BY <1>2, <2>2 DEF RanSince, TabGrown
<1> QED BY <1>2, <1>3, <1>4 DEF TabGrown

LEMMA PastStays ==
  ASSUME TabInductive, ServerTypes', TabGrown, page'.drawn = page.drawn,
         NEW told \in Seq(Runs), IsPast(told)
  PROVE  IsPast(told)'
<1> SUFFICES ASSUME NEW k \in DOMAIN told
             PROVE  /\ k \in DOMAIN acts'
                    /\ told[k].state = "running" => RanSince(k)'
                    /\ told[k].state = "ended" => told[k] = acts'[k]
  BY DEF IsPast
<1>1. k \in DOMAIN acts /\ k \in DOMAIN acts'
  BY DEF IsPast, TabGrown
<1>2. told[k].state = "running" => RanSince(k)'
  BY RanStays DEF IsPast
<1>3. told[k].state = "ended" => told[k] = acts'[k]
  BY <1>1 DEF IsPast, TabGrown
<1> QED BY <1>1, <1>2, <1>3

\* A step of the server that leaves the browser alone keeps what the browser knows.
LEMMA ServerKeeps ==
  ASSUME TabInductive, TabGrown, UNCHANGED tab, typing' \in BOOLEAN, ServerTypes', OneRuns',
         NEW s \in Slots,
         polls' = polls \/ polls' = [polls EXCEPT ![s] = [step |-> "asked"]]
  PROVE  TabInductive'
<1> USE DEF TabInductive, TabTypeOK
<1>0. UNCHANGED <<page, load, session, meant, swept, visits>>
  BY DEF tab
<1>1. BrowserTypes'
  BY <1>0 DEF BrowserTypes, Polls
<1>2. TicksAreSaved'
  BY <1>0 DEF TicksAreSaved
<1>3. page'.drawn <= clock' /\ (load'.step = "stamped" => load'.drawn <= clock')
  BY <1>0 DEF PageIsPast, TabGrown, ServerTypes, BrowserTypes, Pages, Loads, NoLoad
<1>4. \A k \in page'.seen : RanSince(k)'
  BY <1>0, RanStays DEF PageIsPast
<1>5. ASSUME NEW k \in page'.noticed
      PROVE  k \in DOMAIN acts' /\ acts'[k].state = "ended" /\ acts'[k].ended > page'.drawn
  BY <1>0, <1>5 DEF PageIsPast, TabGrown
<1>6. ASSUME NEW t \in Slots, polls'[t].step \in {"read", "answered"}
      PROVE  IsPast(polls[t].acts)'
  <2>1. polls'[t] = polls[t]
    BY <1>6 DEF BrowserTypes
  <2>2. PICK told \in Seq(Runs) : told = polls[t].acts
    BY <1>6, <2>1 DEF BrowserTypes, Polls, NoPoll
  <2>3. IsPast(told)
    BY <1>6, <2>1, <2>2 DEF PageIsPast
  <2>4. IsPast(told)'
    BY <1>0, <2>3, PastStays
  <2>5. told = polls'[t].acts
    BY <2>1, <2>2
  <2> QED BY <2>4, <2>5
<1>7. PageIsPast'
  BY <1>3, <1>4, <1>5, <1>6 DEF PageIsPast
<1> QED BY <1>1, <1>2, <1>7

-----------------------------------------------------------------------------
(* The steps of the server.                                                *)

LEMMA WorkStep == TabInductive /\ Work => TabInductive'
<1> SUFFICES ASSUME TabInductive, Work PROVE TabInductive'
  OBVIOUS
<1> USE DEF Work, TabInductive, TabTypeOK
<1>1. doing.cmd \in {"index", "index_pull", "pull", "run"}
  <2>1. doing # NoCommand
    <3> SUFFICES ASSUME doing = NoCommand PROVE FALSE
      OBVIOUS
    <3>1. PICK good \in SUBSET {} : stage' = Effect("none", stage, good)
      BY DEF NoCommand
    <3>2. stage' = [b \in Builds |-> stage[b]]
      BY <3>1 DEF Effect
    <3> QED BY <3>2 DEF ServerTypes
  <2> QED BY <2>1 DEF ServerTypes, Doings, NoCommand
<1>2. ServerTypes'
  <2>1. PICK good \in SUBSET doing.on : stage' = Effect(doing.cmd, stage, good)
    OBVIOUS
  <2>2. good \in SUBSET Builds
    BY DEF ServerTypes, Doings, NoCommand
  <2>3. stage' \in [Builds -> Stages]
    BY <1>1, <2>1, <2>2, EffectFacts DEF ServerTypes
  <2> QED BY <2>3 DEF ServerTypes
<1>3. TabGrown /\ OneRuns'
  BY DEF TabGrown, OneRuns, ServerTypes
<1>4. PICK s \in Slots : TRUE
  BY PageAssumption
<1> QED BY <1>2, <1>3, ServerKeeps DEF BrowserTypes

LEMMA SettleStep == TabInductive /\ Settle => TabInductive'
<1> SUFFICES ASSUME TabInductive, Settle PROVE TabInductive'
  OBVIOUS
<1> USE DEF Settle, TabInductive, TabTypeOK
<1> DEFINE end == [state |-> "ended", ended |-> clock + 1]
<1>1. end \in Runs /\ acts \in Seq(Runs) /\ acts # <<>> /\ Len(acts) \in 1..Len(acts)
  BY DEF Runs, ServerTypes, OneRuns
<1>2. /\ acts' \in Seq(Runs) /\ DOMAIN acts' = DOMAIN acts
      /\ \A k \in DOMAIN acts : acts'[k] = IF k = Len(acts) THEN end ELSE acts[k]
  BY <1>1, ExceptSeq
<1>3. ServerTypes'
  BY <1>2 DEF ServerTypes, Doings
<1>4. Len(acts) \in DOMAIN acts /\ acts[Len(acts)].state = "running"
  BY <1>1 DEF OneRuns
<1>5. TabGrown
  BY <1>2, <1>4 DEF TabGrown, ServerTypes
<1>6. OneRuns'
  <2>1. ASSUME NEW k \in DOMAIN acts
        PROVE  acts'[k].ended <= clock' /\ acts'[k].state # "running"
    <3>1. acts[k] \in Runs /\ acts[k].ended <= clock /\ clock \in Nat
      BY <1>1, ElementOfSeq DEF OneRuns, ServerTypes
    <3> QED BY <1>2, <2>1, <3>1 DEF OneRuns, Runs
  <2> QED BY <1>2, <2>1 DEF OneRuns
<1>7. PICK s \in Slots : TRUE
  BY PageAssumption
<1> QED BY <1>3, <1>5, <1>6, ServerKeeps DEF BrowserTypes

LEMMA ElsewhereStep == TabInductive /\ Elsewhere => TabInductive'
<1> SUFFICES ASSUME TabInductive, Elsewhere PROVE TabInductive'
  OBVIOUS
<1> USE DEF Elsewhere, TabInductive, TabTypeOK
<1>1. ServerTypes' /\ OneRuns' /\ TabGrown
  BY DEF ServerTypes, OneRuns, TabGrown
<1>2. PICK s \in Slots : TRUE
  BY PageAssumption
<1> QED BY <1>1, ServerKeeps DEF BrowserTypes

\* A press starts an activity, and may make the page poll.
LEMMA PressStep ==
  ASSUME TabInductive, NEW button \in Buttons, Press(button)
  PROVE  TabInductive'
<1> USE DEF TabInductive, TabTypeOK
<1> DEFINE run == [state |-> "running", ended |-> 0]
           new == [cmd |-> CommandOf(button, stage, page.ticked),
                   on |-> ActedOn(button, stage, page.ticked)]
<1>1. /\ doing = NoCommand /\ acts' = Append(acts, run) /\ doing' = new /\ writes' = writes + 1
      /\ UNCHANGED <<stage, foreign, clock>>
  BY DEF Press, Start
<1>2. new \in Doings \ {NoCommand}
  BY PressFacts DEF Press, BrowserTypes, Pages, ServerTypes
<1>3. run \in Runs /\ acts \in Seq(Runs) /\ clock \in Nat
  BY DEF Runs, ServerTypes
<1>4. /\ acts' \in Seq(Runs) /\ Len(acts') = Len(acts) + 1 /\ Len(acts) \in Nat
      /\ DOMAIN acts = 1..Len(acts) /\ DOMAIN acts' = 1..Len(acts')
      /\ \A k \in DOMAIN acts : acts'[k] = acts[k]
      /\ acts'[Len(acts')] = run
  BY <1>1, <1>3
<1>5. ServerTypes'
  BY <1>1, <1>2, <1>4 DEF ServerTypes
<1>6. TabGrown
  BY <1>1, <1>3, <1>4 DEF TabGrown
<1>7. OneRuns'
  <2>1. ASSUME NEW k \in DOMAIN acts'
        PROVE  acts'[k].ended <= clock' /\ (acts'[k].state = "running" => k = Len(acts'))
    <3>1. CASE k \in DOMAIN acts
      BY <1>1, <1>4, <3>1 DEF OneRuns
    <3>2. CASE k = Len(acts')
      BY <1>1, <1>3, <1>4, <3>2
    <3> QED BY <1>4, <2>1, <3>1, <3>2
  <2> QED BY <1>1, <1>2, <1>4, <2>1 DEF OneRuns
<1> HIDE DEF run, new
<1>8. \E s \in Slots : polls' = polls \/ polls' = [polls EXCEPT ![s] = [step |-> "asked"]]
  BY PageAssumption DEF Press
<1>9. PICK s \in Slots : polls' = polls \/ polls' = [polls EXCEPT ![s] = [step |-> "asked"]]
  BY <1>8
<1> QED BY <1>5, <1>6, <1>7, <1>9, ServerKeeps DEF Press

-----------------------------------------------------------------------------
(* The steps of a load.                                                    *)

\* A step of the browser that lands nothing and leaves the polls and what the page
\* knows alone.
LEMMA LoadKeeps ==
  ASSUME TabInductive, UNCHANGED <<disk, page, polls>>, BrowserTypes', TicksAreSaved',
         load'.step = "stamped" => load'.drawn <= clock
  PROVE  TabInductive'
  BY DEF TabInductive, TabTypeOK, ServerTypes, OneRuns, PageIsPast, IsPast, RanSince, disk

LEMMA LoadReadStep == TabInductive /\ LoadRead => TabInductive'
<1> SUFFICES ASSUME TabInductive, LoadRead PROVE TabInductive'
  OBVIOUS
<1>1. load \in [step : {"asked"}, view : Views]
  BY DEF TabInductive, TabTypeOK, BrowserTypes, Loads, NoLoad, LoadRead
<1>2. load' \in Loads /\ load'.step = "read"
  BY <1>1 DEF LoadRead, Loads, Rows
<1> QED
  BY <1>2, LoadKeeps DEF LoadRead, TabInductive, TabTypeOK, BrowserTypes, TicksAreSaved

LEMMA LoadStampStep == TabInductive /\ LoadStamp => TabInductive'
<1> SUFFICES ASSUME TabInductive, LoadStamp PROVE TabInductive'
  OBVIOUS
<1>1. load \in [step : {"read"}, view : Views, rows : SUBSET Builds]
  BY DEF TabInductive, TabTypeOK, BrowserTypes, Loads, NoLoad, LoadStamp
<1>2. load' \in Loads /\ load'.drawn <= clock
  BY <1>1 DEF LoadStamp, Loads, TabInductive, TabTypeOK, ServerTypes
<1> QED
  BY <1>2, LoadKeeps DEF LoadStamp, TabInductive, TabTypeOK, BrowserTypes, TicksAreSaved

LEMMA VisitStep ==
  ASSUME TabInductive, NEW v \in Views, Visit(v)
  PROVE  TabInductive'
<1>1. load' \in Loads /\ load'.step = "asked"
  BY DEF Visit, Loads
<1> QED
  BY <1>1, LoadKeeps DEF Visit, TabInductive, TabTypeOK, BrowserTypes, TicksAreSaved

\* A page that lands has seen nothing, said nothing and asked nothing, and restores
\* the ticks that were saved.
LEMMA LandStep == TabInductive /\ Land => TabInductive'
<1> SUFFICES ASSUME TabInductive, Land PROVE TabInductive'
  OBVIOUS
<1> USE DEF TabInductive, TabTypeOK
<1>1. load \in [step : {"stamped"}, view : Views, rows : SUBSET Builds, drawn : Nat, digest : Nat]
  BY DEF BrowserTypes, Loads, NoLoad, Land
<1>2. PICK ticked : ticked = session \cap load.rows
  OBVIOUS
<1>3. /\ page' = [view |-> load.view, rows |-> load.rows, drawn |-> load.drawn,
                  digest |-> load.digest, seen |-> {}, noticed |-> {}, gone |-> {},
                  ticked |-> ticked]
      /\ session' = ticked
      /\ meant' = IF swept THEN ticked ELSE meant \cap load.rows
      /\ swept' = FALSE /\ load' = NoLoad /\ polls' = [s \in Slots |-> NoPoll]
      /\ typing' = FALSE /\ visits' = visits /\ UNCHANGED disk
  BY <1>2 DEF Land
<1>4. ticked \in SUBSET Builds
  BY <1>2 DEF BrowserTypes
<1>5. ServerTypes' /\ OneRuns'
  BY <1>3 DEF ServerTypes, OneRuns, disk
<1>6. BrowserTypes'
  <2>1. page' \in Pages
    BY <1>1, <1>3, <1>4 DEF Pages
  <2>2. session' \in SUBSET Builds /\ meant' \in SUBSET Builds
    BY <1>3, <1>4 DEF BrowserTypes
  <2> QED BY <1>3, <2>1, <2>2, Distinct DEF BrowserTypes
<1>7. TicksAreSaved'
  <2>1. meant' = ticked
    BY <1>2, <1>3 DEF TicksAreSaved
  <2> QED BY <1>2, <1>3, <2>1 DEF TicksAreSaved
<1>8. PageIsPast'
  <2>1. page'.drawn <= clock' /\ load'.step # "stamped"
    BY <1>1, <1>3 DEF PageIsPast, disk, NoLoad
  <2>2. page'.seen = {} /\ page'.noticed = {}
    BY <1>3
  <2>3. \A s \in Slots : polls'[s].step = "free"
    BY <1>3 DEF NoPoll
  <2> QED BY <2>1, <2>2, <2>3 DEF PageIsPast
<1> QED BY <1>5, <1>6, <1>7, <1>8

-----------------------------------------------------------------------------
(* The steps of a poll.                                                    *)

LEMMA PollKeeps ==
  ASSUME TabInductive, NEW s \in Slots, NEW p \in Polls, polls' = [polls EXCEPT ![s] = p],
         UNCHANGED <<disk, tab, typing>>, p.step \in {"read", "answered"} => IsPast(p.acts)
  PROVE  TabInductive'
<1> USE DEF TabInductive, TabTypeOK, disk, tab
<1>1. ServerTypes' /\ OneRuns' /\ TicksAreSaved'
  BY DEF ServerTypes, OneRuns, TicksAreSaved
<1>2. BrowserTypes'
  BY DEF BrowserTypes
<1>3. \A told : IsPast(told)' <=> IsPast(told)
  BY DEF IsPast, RanSince
<1>4. ASSUME NEW t \in Slots, polls'[t].step \in {"read", "answered"}
      PROVE  IsPast(polls[t].acts)'
  <2>1. PICK told : told = polls'[t].acts
    OBVIOUS
  <2>2. IsPast(told)
    BY <1>4, <2>1 DEF PageIsPast, BrowserTypes
  <2> QED BY <1>3, <2>1, <2>2
<1>5. PageIsPast'
  <2>1. \A k : RanSince(k)' <=> RanSince(k)
    BY DEF RanSince
  <2> QED BY <1>4, <2>1 DEF PageIsPast
<1> QED BY <1>1, <1>2, <1>5

LEMMA AskStep ==
  ASSUME TabInductive, NEW s \in Slots, Ask(s)
  PROVE  TabInductive'
<1>1. [step |-> "asked"] \in Polls
  BY DEF Polls
<1> QED BY <1>1, PollKeeps DEF Ask

\* The activities are as they are: one that runs was not over when the page was drawn.
LEMMA PollRunsStep ==
  ASSUME TabInductive, NEW s \in Slots, PollRuns(s)
  PROVE  TabInductive'
<1> DEFINE p == [step |-> "read", acts |-> acts]
<1>1. p \in Polls
  BY DEF TabInductive, TabTypeOK, ServerTypes, Polls
<1>2. IsPast(acts)
  <2>1. \A k \in DOMAIN acts : acts[k] \in Runs
    BY ElementOfSeq DEF TabInductive, TabTypeOK, ServerTypes
  <2> QED BY <2>1 DEF IsPast, RanSince, Runs
<1>3. PICK q \in Polls : q = p /\ IsPast(q.acts)
  BY <1>1, <1>2
<1> QED BY <1>3, PollKeeps DEF PollRuns

LEMMA PollDigestStep ==
  ASSUME TabInductive, NEW s \in Slots, PollDigest(s)
  PROVE  TabInductive'
<1>1. polls[s] \in [step : {"read"}, acts : Seq(Runs)] /\ IsPast(polls[s].acts)
  BY DEF TabInductive, TabTypeOK, BrowserTypes, Polls, NoPoll, PollDigest, PageIsPast
<1>2. PICK q : q = [step |-> "answered", acts |-> polls[s].acts, digest |-> writes]
  OBVIOUS
<1>3. q \in Polls /\ IsPast(q.acts)
  BY <1>1, <1>2 DEF Polls, TabInductive, TabTypeOK, ServerTypes
<1>4. polls' = [polls EXCEPT ![s] = q]
  BY <1>2 DEF PollDigest
<1> QED BY <1>3, <1>4, PollKeeps DEF PollDigest

LEMMA PollLostStep ==
  ASSUME TabInductive, NEW s \in Slots, PollLost(s)
  PROVE  TabInductive'
  BY Distinct, PollKeeps DEF PollLost

\* What an answer says ended after the page was drawn did; what it says runs is seen.
LEMMA AnswerStep ==
  ASSUME TabInductive, NEW s \in Slots, Answer(s)
  PROVE  TabInductive'
<1> USE DEF TabInductive, TabTypeOK
<1>1. polls[s] \in [step : {"answered"}, acts : Seq(Runs), digest : Nat]
  BY DEF BrowserTypes, Polls, NoPoll, Answer
<1>2. PICK told \in Seq(Runs) : told = polls[s].acts
  BY <1>1
<1>3. IsPast(told) /\ DOMAIN told \subseteq DOMAIN acts
  BY <1>2 DEF Answer, PageIsPast, IsPast
<1>4. PICK ends, lost : ends = EndedNow(told) /\ lost = GoneNow(told)
  OBVIOUS
<1>5. PICK seen : seen = {k \in DOMAIN told : told[k].state = "running"}
  OBVIOUS
<1>6. /\ page' = [page EXCEPT !.seen = seen, !.noticed = @ \cup ends, !.gone = @ \cup lost]
      /\ load' = load \/ load' = [step |-> "asked", view |-> page.view]
      /\ polls' = [polls EXCEPT ![s] = NoPoll]
      /\ UNCHANGED <<disk, session, typing, meant, swept, visits>>
  BY <1>2, <1>4, <1>5, Zenon DEF Answer
<1>7. seen \in SUBSET Nat /\ ends \in SUBSET Nat /\ lost \in SUBSET Nat
  BY <1>2, <1>4, <1>5 DEF EndedNow, GoneNow, BrowserTypes, Pages
<1>8. /\ page' \in Pages /\ page'.drawn = page.drawn /\ page'.ticked = page.ticked
      /\ page'.rows = page.rows /\ page'.seen = seen /\ page'.noticed = page.noticed \cup ends
  BY <1>6, <1>7 DEF BrowserTypes, Pages
<1>9. ServerTypes' /\ OneRuns'
  BY <1>6 DEF ServerTypes, OneRuns, disk
<1>10. BrowserTypes'
  <2>1. load' \in Loads
    BY <1>6 DEF Loads, BrowserTypes, Pages
  <2> QED BY <1>6, <1>8, <2>1, Distinct DEF BrowserTypes
<1>11. TicksAreSaved'
  BY <1>6, <1>8 DEF TicksAreSaved
<1>12. \A k : RanSince(k)' <=> RanSince(k)
  BY <1>6, <1>8 DEF RanSince, disk
<1>13. \A k \in page'.seen : RanSince(k)'
  BY <1>3, <1>5, <1>8, <1>12 DEF IsPast
<1>14. ASSUME NEW k \in page'.noticed
       PROVE  k \in DOMAIN acts /\ acts[k].state = "ended" /\ acts[k].ended > page.drawn
  <2>1. CASE k \in page.noticed
    BY <2>1 DEF PageIsPast
  <2>2. CASE k \in ends
    <3>1. k \in DOMAIN told /\ told[k].state # "running" /\ (k \in page.seen \/ told[k].ended > page.drawn)
      BY <1>4, <2>2 DEF EndedNow
    <3>2. told[k] \in Runs
      BY <1>2, <3>1, ElementOfSeq
    <3>3. k \in DOMAIN acts /\ acts[k] = told[k] /\ acts[k].state = "ended"
      BY <1>3, <3>1, <3>2 DEF IsPast, Runs
    <3> QED BY <3>1, <3>3 DEF PageIsPast, RanSince
  <2> QED BY <1>8, <1>14, <2>1, <2>2
<1>15. PageIsPast'
  <2>1. page'.drawn <= clock' /\ (load'.step = "stamped" => load'.drawn <= clock')
    BY <1>6, <1>8 DEF PageIsPast, disk
  <2>2. \A t : IsPast(t)' <=> IsPast(t)
    BY <1>6, <1>12 DEF IsPast, disk
  <2>3. ASSUME NEW t \in Slots, polls'[t].step \in {"read", "answered"}
        PROVE  IsPast(polls[t].acts)'
    <3>1. t # s /\ polls'[t] = polls[t]
      BY <1>6, <2>3 DEF NoPoll, BrowserTypes
    <3>2. PICK said : said = polls[t].acts
      OBVIOUS
    <3>3. IsPast(said)
      BY <2>3, <3>1, <3>2 DEF PageIsPast
    <3> QED BY <2>2, <3>1, <3>2, <3>3
  <2> QED BY <1>6, <1>8, <1>13, <1>14, <2>1, <2>3 DEF PageIsPast, disk
<1> QED BY <1>9, <1>10, <1>11, <1>15

-----------------------------------------------------------------------------
(* The steps of the reader.                                                *)

\* The reader's own steps over the boxes and the focus: what the page knows of the
\* activities stays.
LEMMA ReaderKeeps ==
  ASSUME TabInductive, UNCHANGED <<disk, load, polls, visits>>, typing' \in BOOLEAN,
         swept' \in BOOLEAN, session' \in SUBSET Builds, TicksAreSaved',
         NEW now \in SUBSET Builds, page' = [page EXCEPT !.ticked = now], meant' = now
  PROVE  TabInductive'
<1> USE DEF TabInductive, TabTypeOK, disk
<1>1. /\ page' \in Pages /\ page'.drawn = page.drawn /\ page'.seen = page.seen
      /\ page'.noticed = page.noticed
  BY DEF BrowserTypes, Pages
<1>2. ServerTypes' /\ OneRuns' /\ BrowserTypes'
  BY <1>1 DEF ServerTypes, OneRuns, BrowserTypes
<1>3. PageIsPast'
  BY <1>1 DEF PageIsPast, IsPast, RanSince
<1> QED BY <1>2, <1>3

LEMMA TypeStep == TabInductive /\ (TypeOn \/ TypeOff) => TabInductive'
<1> SUFFICES ASSUME TabInductive, TypeOn \/ TypeOff PROVE TabInductive'
  OBVIOUS
<1>1. UNCHANGED <<disk, tab, polls>> /\ typing' \in BOOLEAN
  BY DEF TypeOn, TypeOff
<1> QED
  BY <1>1, LoadKeeps DEF TabInductive, TabTypeOK, BrowserTypes, TicksAreSaved, PageIsPast, tab

LEMMA TickStep ==
  ASSUME TabInductive, NEW b \in Builds, Tick(b)
  PROVE  TabInductive'
<1> USE DEF TabInductive, TabTypeOK
<1>1. PICK now : now = IF b \in page.ticked THEN page.ticked \ {b} ELSE page.ticked \cup {b}
  OBVIOUS
<1>2. page' = [page EXCEPT !.ticked = now] /\ session' = now /\ meant' = now /\ swept' = FALSE
  BY <1>1 DEF Tick
<1>3. now \in SUBSET Builds /\ now \subseteq page.rows
  BY <1>1 DEF Tick, BrowserTypes, Pages, TicksAreSaved
<1>4. TicksAreSaved'
  BY <1>2, <1>3 DEF TicksAreSaved, BrowserTypes, Pages
<1> QED BY <1>2, <1>3, <1>4, ReaderKeeps DEF Tick

\* The header box: what it ticked is meant, and not saved.
LEMMA TickAllStep ==
  ASSUME TabInductive, NEW want \in BOOLEAN, TickAll(want)
  PROVE  TabInductive'
<1> USE DEF TabInductive, TabTypeOK
<1>1. PICK now : now = IF want THEN page.rows ELSE {}
  OBVIOUS
<1>2. page' = [page EXCEPT !.ticked = now] /\ session' = session /\ meant' = now /\ swept' = TRUE
  BY <1>1 DEF TickAll
<1>3. now \in SUBSET Builds /\ now \subseteq page.rows
  BY <1>1 DEF BrowserTypes, Pages
<1>4. TicksAreSaved'
  BY <1>2, <1>3 DEF TicksAreSaved, BrowserTypes, Pages
<1> QED BY <1>2, <1>3, <1>4, ReaderKeeps DEF TickAll, BrowserTypes

-----------------------------------------------------------------------------
(* The theorems.                                                           *)

LEMMA TabInductiveInit == TabInit => TabInductive
<1> SUFFICES ASSUME TabInit PROVE TabInductive
  OBVIOUS
<1> USE DEF TabInit
<1>1. ServerTypes
  BY EmptySeq DEF ServerTypes, Stages, Unknown, Known, Held, Doings
<1>2. BrowserTypes
  BY Distinct DEF BrowserTypes, Pages, Views
<1>3. OneRuns /\ TicksAreSaved
  BY DEF OneRuns, TicksAreSaved
<1>4. PageIsPast
  BY Distinct DEF PageIsPast
<1> QED BY <1>1, <1>2, <1>3, <1>4 DEF TabInductive, TabTypeOK

LEMMA TabInductiveStep == TabInductive /\ [TabNext]_tabVars => TabInductive'
<1> SUFFICES ASSUME TabInductive, [TabNext]_tabVars PROVE TabInductive'
  OBVIOUS
<1>1. CASE Server
  BY <1>1, WorkStep, SettleStep, ElsewhereStep, LoadReadStep, LoadStampStep DEF Server
<1>2. CASE Browser
  BY <1>2, LandStep, AskStep, PollRunsStep, PollDigestStep, PollLostStep, AnswerStep DEF Browser
<1>3. CASE Reader
  BY <1>3, TypeStep, VisitStep, TickStep, TickAllStep, PressStep DEF Reader
<1>4. CASE UNCHANGED tabVars
  <2>1. UNCHANGED <<disk, page, polls>> /\ UNCHANGED <<load, session, typing, meant, swept, visits>>
    BY <1>4 DEF tabVars, tab
  <2> QED
    BY <2>1, LoadKeeps DEF TabInductive, TabTypeOK, BrowserTypes, TicksAreSaved, PageIsPast
<1> QED BY <1>1, <1>2, <1>3, <1>4 DEF TabNext

\* The page, the server and what is on its way between them fit together in every
\* reachable state, whatever is lost, overtaken or deferred.
THEOREM TabInvariance == TabSpec => []TabInductive
<1> QED BY TabInductiveInit, TabInductiveStep, PTL DEF TabSpec

\* Every variable has its type.
THEOREM TabTypeCorrect == TabSpec => []TabTypeOK
<1>1. TabInductive => TabTypeOK
  BY DEF TabInductive
<1> QED BY <1>1, TabInvariance, PTL

\* What a page announces ended while it was open (script.py, notice), with any number
\* of answers under way, in any order, read before the page that is on the screen.
THEOREM NoticesAreNews == TabSpec => []NothingFromBefore
<1>1. TabInductive => NothingFromBefore
  BY DEF TabInductive, PageIsPast, NothingFromBefore
<1> QED BY <1>1, TabInvariance, PTL

\* The rows a button would act on are those the reader means (script.py, tickRestore),
\* across any number of reloads, filters and commands; a selection made with the header
\* box and not touched since is let go by a reload (Land).
THEOREM TicksSurvive == TabSpec => []TicksAreMeant
<1>1. TabInductive => TicksAreMeant
  BY DEF TabInductive, TicksAreSaved, TicksAreMeant
<1> QED BY <1>1, TabInvariance, PTL
=============================================================================
