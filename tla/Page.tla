-------------------------------- MODULE Page --------------------------------
(***************************************************************************)
(* One browser tab on the console and the server behind it                 *)
(* (src/lib/gui/design/script.py, shell.py, src/lib/gui/server.py,         *)
(* actions.py, activities.py).  A page is drawn in three steps: the facts  *)
(* are read, the document is stamped with the time and with the digest of  *)
(* the local files, the browser lands on it.  Until then the old page goes *)
(* on polling.  A poll reads the activities, then the digest; several can  *)
(* be under way and their answers arrive in any order or not at all.  An   *)
(* answer announces what ended, remembers what runs, and re-reads the page *)
(* when the digest is another one and the reader is not typing.  The       *)
(* ticked rows outlive a page in sessionStorage.  The notice's cards, the  *)
(* cards carried over a reload and the scroll position are left out.       *)
(*                                                                         *)
(* The digest stands for the files it hashes: `writes` counts the writes   *)
(* to them and a digest is the count it was taken at.  `clock` counts the  *)
(* ends of activities, so that `ended > drawn` compares as in the code.    *)
(***************************************************************************)
EXTENDS Commands, Sequences

CONSTANTS Slots,      \* polls that can be under way at once
          MaxActs,    \* activities started
          MaxWrites,  \* writes by someone else: the worker, a command line
          MaxVisits   \* loads the reader asks for: F5, the filter bar, a link

ASSUME PageAssumption ==
    /\ IsFiniteSet(Slots) /\ Slots # {}
    /\ MaxActs \in Nat /\ MaxWrites \in Nat /\ MaxVisits \in Nat

VARIABLES stage,    \* what this machine holds of each build
          acts,     \* run.json of the activities, oldest first
          doing,    \* the command of the one that runs, or NoCommand
          writes,   \* writes to the files the digest covers
          foreign,  \* of which by someone else
          clock,    \* activities ended so far
          page,     \* the page on the screen
          load,     \* the page on its way, or NoLoad
          polls,    \* the requests to /api/state under way
          session,  \* sessionStorage: the ticked rows last saved
          typing,   \* the focus is in a control the reader writes in
          meant,    \* the rows the reader means to be ticked
          swept,    \* the select-all box was the last tick gesture
          visits    \* loads the reader asked for

disk == <<stage, acts, doing, writes, foreign, clock>>
tab  == <<page, load, session, meant, swept, visits>>
tabVars == <<disk, tab, polls, typing>>

NoCommand == [cmd |-> "none", on |-> {}]
NoLoad == [step |-> "none"]
NoPoll == [step |-> "free"]
Views  == {"all", "unheld"}

-----------------------------------------------------------------------------
(* The server                                                              *)

\* The rows one question has on this machine.
Rows(view) == IF view = "all" THEN Builds ELSE {b \in Builds : stage[b] < Held}

\* start: the command is made, the writer gate looks, run.json is written.
Start(cmd, on) ==
    /\ doing = NoCommand
    /\ Len(acts) < MaxActs
    /\ acts' = Append(acts, [state |-> "running", ended |-> 0])
    /\ doing' = [cmd |-> cmd, on |-> on]
    /\ writes' = writes + 1
    /\ UNCHANGED <<stage, foreign, clock>>

\* The running command writes what it got: any of its builds can fail.
Work ==
    /\ \E good \in SUBSET doing.on : stage' = Effect(doing.cmd, stage, good)
    /\ stage' # stage
    /\ writes' = writes + 1
    /\ UNCHANGED <<acts, doing, foreign, clock, tab, polls, typing>>

\* Its process ends, or is cancelled, and the reaper writes the end down.
Settle ==
    /\ doing # NoCommand
    /\ acts' = [acts EXCEPT ![Len(acts)] = [state |-> "ended", ended |-> clock + 1]]
    /\ doing' = NoCommand
    /\ clock' = clock + 1
    /\ writes' = writes + 1
    /\ UNCHANGED <<stage, foreign, tab, polls, typing>>

\* The worker writes its state file, or a command line runs.
Elsewhere ==
    /\ foreign < MaxWrites
    /\ foreign' = foreign + 1
    /\ writes' = writes + 1
    /\ UNCHANGED <<stage, acts, doing, clock, tab, polls, typing>>

-----------------------------------------------------------------------------
(* Loading a page                                                          *)

\* render: everything the screen shows is read first.
LoadRead ==
    /\ load.step = "asked"
    /\ load' = [step |-> "read", view |-> load.view, rows |-> Rows(load.view)]
    /\ UNCHANGED <<disk, page, polls, session, typing, meant, swept, visits>>

\* document: the answer is stamped when it is put together, and the digest
\* that rides to the script is taken then.
LoadStamp ==
    /\ load.step = "read"
    /\ load' = [step |-> "stamped", view |-> load.view, rows |-> load.rows,
                drawn |-> clock, digest |-> writes]
    /\ UNCHANGED <<disk, page, polls, session, typing, meant, swept, visits>>

\* The script of the new page: the ticks are restored to the rows drawn
\* here and saved again; polls of the page that is gone are gone.
Land ==
    /\ load.step = "stamped"
    /\ LET ticked == session \cap load.rows
       IN /\ page' = [view |-> load.view, rows |-> load.rows,
                      drawn |-> load.drawn, digest |-> load.digest,
                      seen |-> {}, noticed |-> {}, gone |-> {}, ticked |-> ticked]
          /\ session' = ticked
          /\ meant' = IF swept THEN ticked ELSE meant \cap load.rows
    /\ swept' = FALSE
    /\ load' = NoLoad
    /\ polls' = [s \in Slots |-> NoPoll]
    /\ typing' = FALSE
    /\ UNCHANGED <<disk, visits>>

\* F5, or the filter bar with another question: the load starts anew.
Visit(view) ==
    /\ visits < MaxVisits
    /\ visits' = visits + 1
    /\ load' = [step |-> "asked", view |-> view]
    /\ UNCHANGED <<disk, page, polls, session, typing, meant, swept>>

-----------------------------------------------------------------------------
(* The poll                                                                *)

Ask(s) ==
    /\ polls[s].step = "free"
    /\ polls' = [polls EXCEPT ![s] = [step |-> "asked"]]
    /\ UNCHANGED <<disk, tab, typing>>

\* state_poll: the activities are read before the digest is taken.
PollRuns(s) ==
    /\ polls[s].step = "asked"
    /\ polls' = [polls EXCEPT ![s] = [step |-> "read", acts |-> acts]]
    /\ UNCHANGED <<disk, tab, typing>>

PollDigest(s) ==
    /\ polls[s].step = "read"
    /\ polls' = [polls EXCEPT ![s] = [step |-> "answered", acts |-> @.acts,
                                      digest |-> writes]]
    /\ UNCHANGED <<disk, tab, typing>>

\* The request fails: nothing is said and nothing changes.
PollLost(s) ==
    /\ polls[s].step = "answered"
    /\ polls' = [polls EXCEPT ![s] = NoPoll]
    /\ UNCHANGED <<disk, tab, typing>>

\* Mutant: whatever has ended.
EndedEver(told) ==
    {k \in DOMAIN told :
        /\ told[k].state # "running"
        /\ k \notin page.noticed \cup page.gone}

\* What an answer makes the page say: the activities that ended since this page
\* saw them running or since it was drawn, and those no longer in the answer.
EndedNow(told) ==
    {k \in DOMAIN told :
        /\ told[k].state # "running"
        /\ k \notin page.noticed \cup page.gone
        /\ k \in page.seen \/ told[k].ended > page.drawn}

GoneNow(told) == {k \in page.seen : k \notin DOMAIN told} \ (page.noticed \cup page.gone)

\* Mutant: only an end re-reads the page.
AnswerOfAnEnd(s) ==
    LET told == polls[s].acts
        ends == EndedNow(told)
    IN /\ polls[s].step = "answered"
       /\ page' = [page EXCEPT !.seen = {k \in DOMAIN told : told[k].state = "running"},
                               !.noticed = @ \cup ends, !.gone = @ \cup GoneNow(told)]
       /\ load' = IF ends # {} /\ ~typing
                  THEN [step |-> "asked", view |-> page.view] ELSE load
       /\ polls' = [polls EXCEPT ![s] = NoPoll]
       /\ UNCHANGED <<disk, session, typing, meant, swept, visits>>

Answer(s) ==
    LET told == polls[s].acts
        ends == EndedNow(told)
        lost == GoneNow(told)
    IN /\ polls[s].step = "answered"
       /\ page' = [page EXCEPT !.seen = {k \in DOMAIN told : told[k].state = "running"},
                               !.noticed = @ \cup ends, !.gone = @ \cup lost]
       /\ load' = IF polls[s].digest # page.digest /\ ~typing
                  THEN [step |-> "asked", view |-> page.view] ELSE load
       /\ polls' = [polls EXCEPT ![s] = NoPoll]
       /\ UNCHANGED <<disk, session, typing, meant, swept, visits>>

-----------------------------------------------------------------------------
(* The reader                                                              *)

TypeOn  == ~typing /\ typing' = TRUE /\ UNCHANGED <<disk, tab, polls>>
TypeOff == typing /\ typing' = FALSE /\ UNCHANGED <<disk, tab, polls>>

\* Mutant: the box is not saved.
TickUnsaved(b) ==
    LET now == IF b \in page.ticked THEN page.ticked \ {b} ELSE page.ticked \cup {b}
    IN /\ b \in page.rows
       /\ page' = [page EXCEPT !.ticked = now]
       /\ meant' = now
       /\ swept' = FALSE
       /\ typing' \in BOOLEAN
       /\ UNCHANGED <<disk, load, polls, session, visits>>

\* One row's box: the change listener saves every box as it stands.  A box
\* is an INPUT, and browsers differ on whether a click gives it the focus.
Tick(b) ==
    LET now == IF b \in page.ticked THEN page.ticked \ {b} ELSE page.ticked \cup {b}
    IN /\ b \in page.rows
       /\ page' = [page EXCEPT !.ticked = now]
       /\ session' = now
       /\ meant' = now
       /\ swept' = FALSE
       /\ typing' \in BOOLEAN
       /\ UNCHANGED <<disk, load, polls, visits>>

\* The header box sets every box of its form.  Setting a box fires no change
\* event and the header box itself names no form, so nothing is saved.
TickAll(want) ==
    LET now == IF want THEN page.rows ELSE {}
    IN /\ page.rows # {}
       /\ page' = [page EXCEPT !.ticked = now]
       /\ meant' = now
       /\ swept' = TRUE
       /\ typing' \in BOOLEAN
       /\ UNCHANGED <<disk, load, polls, session, visits>>

\* A button over the ticked rows: the command of the button pressed, on the
\* rows ticked in the form, by what the disk holds when the server answers.
\* The answer to a start makes the page poll at once.
Press(button) ==
    /\ Accepted(button, page.ticked)
    /\ Start(CommandOf(button, stage, page.ticked), ActedOn(button, stage, page.ticked))
    /\ \/ \E s \in Slots : polls[s].step = "free" /\ polls' = [polls EXCEPT ![s] = [step |-> "asked"]]
       \/ UNCHANGED polls
    /\ typing' = FALSE
    /\ UNCHANGED tab

-----------------------------------------------------------------------------
TabInit ==
    /\ stage = [b \in Builds |-> Known]
    /\ acts = <<>> /\ doing = NoCommand
    /\ writes = 0 /\ foreign = 0 /\ clock = 0
    /\ page = [view |-> "all", rows |-> Builds, drawn |-> 0, digest |-> 0, seen |-> {},
               noticed |-> {}, gone |-> {}, ticked |-> {}]
    /\ load = NoLoad
    /\ polls = [s \in Slots |-> NoPoll]
    /\ session = {}
    /\ typing = FALSE /\ meant = {} /\ swept = FALSE /\ visits = 0

Server == Work \/ Settle \/ Elsewhere \/ LoadRead \/ LoadStamp

Browser ==
    \/ Land
    \/ \E s \in Slots : \/ Ask(s) \/ PollRuns(s) \/ PollDigest(s)
                        \/ PollLost(s) \/ Answer(s)

Reader ==
    \/ TypeOn \/ TypeOff
    \/ \E v \in Views : Visit(v)
    \/ \E b \in Builds : Tick(b)
    \/ \E want \in BOOLEAN : TickAll(want)
    \/ \E button \in Buttons : Press(button)

TabNext == Server \/ Browser \/ Reader

TabSpec == TabInit /\ [][TabNext]_tabVars

\* The timer asks for ever, the server is a thread per request, and a page
\* that is asked for arrives though the reader may ask for another first.
\* Requests can fail, but not every one for ever.
FairTabSpec ==
    /\ TabSpec
    /\ WF_tabVars(\E s \in Slots : Ask(s))
    /\ SF_tabVars(\E s \in Slots : PollRuns(s))
    /\ SF_tabVars(\E s \in Slots : PollDigest(s))
    /\ SF_tabVars(\E s \in Slots : Answer(s))
    /\ WF_tabVars(LoadRead) /\ SF_tabVars(LoadStamp) /\ SF_tabVars(Land)

-----------------------------------------------------------------------------
(* Properties                                                              *)

\* What a page announces ended while it was open: a tab that is opened, or
\* reloaded by hand, says nothing of what ended before (script.py, notice).
NothingFromBefore == \A k \in page.noticed : acts[k].ended > page.drawn

\* The rows a button would act on are those the reader means, across every
\* reload, every filter that hides rows and brings them back, and every
\* command that changes which rows are drawn (script.py, tickRestore).  Only
\* a selection made with the header box and not touched since is let go by
\* a reload, see Land.
TicksAreMeant == page.ticked = meant

\* A page that is left alone comes to rest on the newest digest, whatever
\* was lost, overtaken or deferred on the way (script.py, livePoll).
PageSettles ==
    (<>[]~typing) => <>[](load = NoLoad /\ page.digest = writes)
=============================================================================
