---------------------------- MODULE DialogObserver ----------------------------
(***************************************************************************)
(* dialog.Observer: the loop that looks for known dialogs on a page every  *)
(* two seconds and presses them away, with its callers, who attach pages,  *)
(* pause and stop it. Each Attach starts a loop (a goroutine) of its own;  *)
(* cancelling a loop is seen only where it waits for its tick.             *)
(***************************************************************************)
EXTENDS Integers

CONSTANTS
    Pages,
    NoPage,
    LastPattern, \* meetDialogPatterns are 1 .. LastPattern, in their order
    Buttoned,    \* patterns with ButtonTexts
    ByEscape,    \* patterns with ExitByEscape
    Answers,     \* what handlers return: TRUE for "dismiss it"
    MaxLoops,    \* bound: calls of Attach
    MaxDialogs   \* bound: dialogs that appear

Patterns == 1 .. LastPattern
Loops == 1 .. MaxLoops
NoLoop == 0

ASSUME DialogAssumption ==
    /\ NoPage \notin Pages
    /\ LastPattern \in Nat
    /\ Buttoned \subseteq Patterns
    /\ ByEscape \subseteq Patterns
    /\ Answers \subseteq BOOLEAN
    /\ MaxLoops \in Nat
    /\ MaxDialogs \in Nat

VARIABLES
    handlers,       \* what the subscribed handlers answer
    observerPaused, \* paused of the Observer
    page,           \* page of the Observer
    cancel,         \* the loop its cancel function is of
    attached,       \* how many loops were started
    loops,          \* the goroutines
    dialogs,        \* the patterns visible on each page
    appeared,       \* how many dialogs appeared
    late,           \* history: presses of each loop since the observer is paused
    astray          \* history: presses of each loop, since the last Attach, on another page

observer == <<handlers, observerPaused, page, cancel, attached>>
dialogVars == <<observer, loops, dialogs, appeared, late, astray>>

NotStarted == [pc |-> "none", live |-> FALSE, page |-> NoPage, pat |-> 0]

LoopRecords == [pc : {"none", "select", "look", "press", "ended"}, live : BOOLEAN,
                page : Pages \cup {NoPage}, pat : Patterns \cup {0}]

DialogTypeOK ==
    /\ handlers \in SUBSET Answers
    /\ observerPaused \in BOOLEAN
    /\ page \in Pages \cup {NoPage}
    /\ cancel \in Loops \cup {NoLoop}
    /\ attached \in 0 .. MaxLoops
    /\ loops \in [Loops -> LoopRecords]
    /\ dialogs \in [Pages -> SUBSET Patterns]
    /\ appeared \in 0 .. MaxDialogs
    /\ late \in [Loops -> Nat]
    /\ astray \in [Loops -> Nat]

DialogInit ==
    /\ handlers = {}
    /\ observerPaused = FALSE
    /\ page = NoPage
    /\ cancel = NoLoop
    /\ attached = 0
    /\ loops = [l \in Loops |-> NotStarted]
    /\ dialogs = [p \in Pages |-> {}]
    /\ appeared = 0
    /\ late = [l \in Loops |-> 0]
    /\ astray = [l \in Loops |-> 0]

\* context.CancelFunc, which may be called again.
Cancelled(ls, l) == IF l = NoLoop THEN ls ELSE [ls EXCEPT ![l].live = FALSE]

Nowhere == [l \in Loops |-> 0]

-----------------------------------------------------------------------------
(* Plausible bugs, used to show that the properties notice; not in the       *)
(* specification.                                                            *)

\* A second Attach that leaves the first loop running.
AttachKeepsLoop(p) ==
    /\ attached < MaxLoops
    /\ attached' = attached + 1
    /\ cancel' = attached'
    /\ page' = p
    /\ loops' = [loops EXCEPT ![attached'] = [NotStarted EXCEPT !.pc = "select", !.live = TRUE]]
    /\ astray' = Nowhere
    /\ UNCHANGED <<handlers, observerPaused, dialogs, appeared, late>>

\* A cycle that does not look at the pause.
TickUnpaused(l) ==
    /\ loops[l].pc = "select"
    /\ page # NoPage
    /\ loops' = [loops EXCEPT ![l].pc = "look", ![l].page = page, ![l].pat = 0]
    /\ UNCHANGED <<observer, dialogs, appeared, late, astray>>

\* A look that fails ends the cycle.
LookOnce(l) ==
    /\ loops[l].pc = "look"
    /\ loops[l].pat < LastPattern
    /\ LET next == loops[l].pat + 1 IN
           loops' = [loops EXCEPT ![l].pat = next,
                                  ![l].pc = IF next \in dialogs[loops[l].page]
                                            THEN "press" ELSE "select"]
    /\ UNCHANGED <<observer, dialogs, appeared, late, astray>>

-----------------------------------------------------------------------------
(* The callers *)

\* A handler that returns `auto`.
Subscribe(auto) ==
    /\ handlers' = handlers \cup {auto}
    /\ UNCHANGED <<observerPaused, page, cancel, attached, loops, dialogs, appeared, late, astray>>

Pause ==
    /\ observerPaused' = TRUE
    /\ late' = IF observerPaused THEN late ELSE Nowhere
    /\ UNCHANGED <<handlers, page, cancel, attached, loops, dialogs, appeared, astray>>

Resume ==
    /\ observerPaused' = FALSE
    /\ late' = Nowhere
    /\ UNCHANGED <<handlers, page, cancel, attached, loops, dialogs, appeared, astray>>

Attach(p) ==
    /\ attached < MaxLoops
    /\ attached' = attached + 1
    /\ cancel' = attached'
    /\ page' = p
    /\ loops' = [Cancelled(loops, cancel) EXCEPT
                     ![attached'] = [NotStarted EXCEPT !.pc = "select", !.live = TRUE]]
    /\ astray' = Nowhere
    /\ UNCHANGED <<handlers, observerPaused, dialogs, appeared, late>>

Stop ==
    /\ loops' = Cancelled(loops, cancel)
    /\ cancel' = NoLoop
    /\ UNCHANGED <<handlers, observerPaused, page, attached, dialogs, appeared, late, astray>>

\* The context Attach was called with is done.
CallerDone(l) ==
    /\ loops[l].live
    /\ loops' = [loops EXCEPT ![l].live = FALSE]
    /\ UNCHANGED <<observer, dialogs, appeared, late, astray>>

-----------------------------------------------------------------------------
(* runLoop *)

\* With its tick and its context both ready, select takes either.
LoopEnds(l) ==
    /\ loops[l].pc = "select"
    /\ ~loops[l].live
    /\ loops' = [loops EXCEPT ![l].pc = "ended"]
    /\ UNCHANGED <<observer, dialogs, appeared, late, astray>>

\* A tick: the pause and the page are read under the lock, and the lock released.
Tick(l) ==
    /\ loops[l].pc = "select"
    /\ ~observerPaused
    /\ page # NoPage
    /\ loops' = [loops EXCEPT ![l].pc = "look", ![l].page = page, ![l].pat = 0]
    /\ UNCHANGED <<observer, dialogs, appeared, late, astray>>

-----------------------------------------------------------------------------
(* dismissOnce, which does not look at the context *)

\* The selectors, one after the other: each is asked about the page as it is then. A
\* dialog whose IsVisible fails counts as one that is not there.
Look(l) ==
    /\ loops[l].pc = "look"
    /\ loops[l].pat < LastPattern
    /\ LET next == loops[l].pat + 1 IN
           \E to \in {"press", IF next = LastPattern THEN "select" ELSE "look"} :
               /\ to = "press" => next \in dialogs[loops[l].page]
               /\ loops' = [loops EXCEPT ![l].pat = next, ![l].pc = to]
    /\ UNCHANGED <<observer, dialogs, appeared, late, astray>>

\* dispatch: what the handlers say of the event.
AutoDismiss == TRUE \in handlers

\* Is there anything to press: a button of the dialog, which must be there still, or
\* Escape, where no click has succeeded?
CanPress(p, pat) ==
    \/ pat \in Buttoned /\ pat \in dialogs[p]
    \/ pat \in ByEscape \/ AutoDismiss

\* The first visible pattern wins. What is pressed may close any of the dialogs there
\* are, or none: a button may be missing, its click fail, or succeed and close
\* nothing, and Escape goes to whatever has the keyboard. The code takes each for the
\* end of the cycle.
Press(l) ==
    LET p == loops[l].page IN
    /\ loops[l].pc = "press"
    /\ loops' = [loops EXCEPT ![l].pc = "select"]
    /\ \E closed \in SUBSET dialogs[p] :
           /\ closed # {} => CanPress(p, loops[l].pat)
           /\ dialogs' = [dialogs EXCEPT ![p] = @ \ closed]
    /\ late' = IF observerPaused THEN [late EXCEPT ![l] = @ + 1] ELSE late
    /\ astray' = IF p # page THEN [astray EXCEPT ![l] = @ + 1] ELSE astray
    /\ UNCHANGED <<observer, appeared>>

-----------------------------------------------------------------------------
(* The pages *)

Appears(p, pat) ==
    /\ appeared < MaxDialogs
    /\ pat \notin dialogs[p]
    /\ appeared' = appeared + 1
    /\ dialogs' = [dialogs EXCEPT ![p] = @ \cup {pat}]
    /\ UNCHANGED <<observer, loops, late, astray>>

Disappears(p, pat) ==
    /\ pat \in dialogs[p]
    /\ dialogs' = [dialogs EXCEPT ![p] = @ \ {pat}]
    /\ UNCHANGED <<observer, loops, appeared, late, astray>>

Callers ==
    \/ \E auto \in Answers : Subscribe(auto)
    \/ Pause \/ Resume
    \/ \E p \in Pages : Attach(p)
    \/ Stop
    \/ \E l \in Loops : CallerDone(l)

DialogNext ==
    \/ Callers
    \/ \E l \in Loops : LoopEnds(l) \/ Tick(l) \/ Look(l) \/ Press(l)
    \/ \E p \in Pages, pat \in Patterns : Appears(p, pat) \/ Disappears(p, pat)

\* The goroutines run and the ticker fires.
DialogFairness ==
    \A l \in Loops : WF_dialogVars(Tick(l)) /\ WF_dialogVars(Look(l)) /\ WF_dialogVars(Press(l))

DialogSpec == DialogInit /\ [][DialogNext]_dialogVars /\ DialogFairness

-----------------------------------------------------------------------------
(* Properties *)

\* However Attach, Stop and the contexts interleave, the only loop that may go on
\* is the one the observer can cancel: no loop is left behind for good.
OnlyCurrentIsLive == \A l \in Loops : loops[l].live => cancel = l

\* Neither Pause nor Attach is a promise about a cycle under way, which has read
\* the pause and the page and looks at neither again. But each loop, the new one or
\* an old one that has not seen its context yet, presses at most once more while the
\* observer is paused, and at most once on a page that is not the current one.
OneStalePress == \A l \in Loops : late[l] <= 1 /\ astray[l] <= 1

Watched(p) == cancel # NoLoop /\ loops[cancel].live /\ page = p /\ ~observerPaused

\* A cycle presses for pattern d, or for one before it, on page p.
Tries(p, d) ==
    \E l \in Loops : loops[l].pc = "press" /\ loops[l].page = p /\ loops[l].pat <= d

\* The look for pattern d on page p does not find it.
LooksPast(p, d) ==
    \E l \in Loops :
        /\ loops[l].pc = "look" /\ loops[l].page = p /\ loops[l].pat + 1 = d
        /\ loops'[l].pc # "press" /\ loops'[l].pat = d

\* A dialog that stays on a page that is watched for good is not forgotten, whatever
\* the page does with the presses and however many looks for other dialogs fail: the
\* loop presses again and again, for it or for one that hides it because its pattern
\* comes first, unless the very looks for this one go on failing.
DialogsAreTried ==
    \A p \in Pages, d \in Patterns :
        <>[](Watched(p) /\ d \in dialogs[p]) =>
            []<>Tries(p, d) \/ []<><<LooksPast(p, d)>>_dialogVars

=============================================================================
