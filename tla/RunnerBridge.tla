---------------------------- MODULE RunnerBridge ----------------------------
(***************************************************************************)
(* Runnable code blocks on one page (packages/components/fade-runnable):   *)
(* each has a preview frame of its own, and all share one FadeRunner       *)
(* (packages/runtime/runner.ts, runner-pool.ts), which talks by postMessage *)
(* to the frame that was attached last and has one slot, onDebugEvent, for  *)
(* the component that is told of debug events.                             *)
(*                                                                         *)
(* A frame's program is external: it answers every call once, in its own   *)
(* time, and a program under the debugger pauses, completes or fails.  Left *)
(* out: what frames, scopes and evaluations return, breakpoints, and the    *)
(* language worker, which answers every call by its id.                     *)
(***************************************************************************)
EXTENDS Naturals, Sequences, FiniteSets

CONSTANTS Comps,      \* the components
          Runners,    \* those with a Run button (not hide-run)
          Debuggers,  \* those with the debug attribute
          Mono,       \* runtime="monogame": the game floats in a window that can be closed
          MaxEdits,   \* bound: edits of one component's text
          MaxCalls,   \* bound: calls that await an answer
          Removed,    \* bound: components that may be taken off the page
          NONE

ASSUME RunnerAssumption == IsFiniteSet(Comps) /\ NONE \notin Comps /\ MaxEdits \in Nat

VARIABLES
    arming,     \* armed and armingPromise: "no", "loading", "armed", "failed"; "gone" when removed
    waiting,    \* continuations of ensureArmed, in order
    ui,         \* what a component shows and believes
    attached,   \* runner: the component of vmIframe, or NONE
    listeners,  \* runner: how often attachVmIframe has added its listener
    hook,       \* runner: the component onDebugEvent belongs to, or NONE
    pending,    \* runner: calls that await an answer, and where they were sent
    nextId,     \* runner: ids given out
    frame       \* the frames: messages to and from, programs, the debug session

bridgeVars == <<arming, waiting, ui, attached, listeners, hook, pending, nextId, frame>>
runner == <<attached, listeners>>

Blank == [in |-> <<>>, out |-> <<>>, runs |-> {}, session |-> NONE, going |-> FALSE]
Msg(k, id) == [kind |-> k, id |-> id]
Say(k, id, ok) == [kind |-> k, id |-> id, ok |-> ok]

\* The bound on what a frame, or a continuation, has not taken yet when the
\* debugger is asked for.
Room == \A c \in Comps : Len(frame[c].in) <= 1 /\ Len(waiting[c]) <= 2

Present == {c \in Comps : arming[c] # "gone"}

\* No continuation of a promise waits to run: only then the page takes an event.
Quiet == \A c \in Comps : waiting[c] # <<>> => arming[c] = "loading"

\* postVm: to the frame attached last; dropped when there is none.
Send(fr, m) == IF attached \in Present THEN [fr EXCEPT ![attached].in = Append(@, m)] ELSE fr

\* A call that awaits its answer: the continuation is registered, then posted.
Call(c, k, src, fr) ==
    /\ nextId' = nextId + 1
    /\ pending' = pending \cup
          {[id |-> nextId + 1, comp |-> c, kind |-> k, src |-> src, to |-> attached]}
    /\ frame' = Send(fr, Msg(k, nextId + 1))

BridgeInit ==
    /\ arming = [c \in Comps |-> "no"]
    /\ waiting = [c \in Comps |-> <<>>]
    /\ ui = [c \in Comps |-> [text |-> 0, running |-> FALSE, source |-> 0, debugging |-> FALSE,
                              test |-> FALSE, stop |-> FALSE, paused |-> FALSE]]
    /\ attached = NONE /\ listeners = 0 /\ hook = NONE
    /\ pending = {} /\ nextId = 0
    /\ frame = [c \in Comps |-> Blank]

-----------------------------------------------------------------------------
(* The component.  A button's handler runs up to its first await.          *)

\* ensureArmed: the frame boots once; every caller shares the promise.
EnsureArmed(c, k) ==
    /\ waiting' = [waiting EXCEPT ![c] = Append(@, k)]
    /\ arming' = [arming EXCEPT ![c] = IF @ = "no" THEN "loading" ELSE @]

\* Mutant of StopDebug: it only forgets the session.
StopDebugHere(c, fr) ==
    /\ hook' = NONE
    /\ frame' = fr
    /\ ui' = [ui EXCEPT ![c].debugging = FALSE, ![c].test = FALSE,
                        ![c].stop = FALSE, ![c].paused = FALSE]

\* stopDebug: terminate, and empty the slot, whoever holds it.
StopDebug(c, fr) ==
    /\ hook' = NONE
    /\ frame' = Send(fr, Msg("term", 0))
    /\ ui' = [ui EXCEPT ![c].debugging = FALSE, ![c].test = FALSE,
                        ![c].stop = FALSE, ![c].paused = FALSE]

Edit(c) ==
    /\ Quiet /\ c \in Present /\ ui[c].text < MaxEdits
    /\ ui' = [ui EXCEPT ![c].text = @ + 1]
    /\ UNCHANGED <<arming, waiting, runner, hook, pending, nextId, frame>>

\* onDiagnostics, detectTests: a text with a TEST block arms the frame by itself.
DetectTests(c) ==
    /\ Quiet /\ c \in Debuggers /\ arming[c] = "no"
    /\ EnsureArmed(c, "list")
    /\ UNCHANGED <<ui, runner, hook, pending, nextId, frame>>

\* run
PressRun(c) ==
    /\ Quiet /\ c \in Present \cap Runners /\ ~ui[c].running /\ nextId < MaxCalls
    /\ ui' = [ui EXCEPT ![c].running = TRUE, ![c].source = ui[c].text]
    /\ EnsureArmed(c, "run")
    /\ UNCHANGED <<runner, hook, pending, nextId, frame>>

\* startDebug, of the program or of a test
PressDebug(c) ==
    /\ Quiet /\ c \in Present \cap Debuggers /\ ~ui[c].debugging /\ nextId < MaxCalls /\ Room
    /\ \E t \in BOOLEAN : ui' = [ui EXCEPT ![c].debugging = TRUE, ![c].test = t]
    /\ EnsureArmed(c, "start")
    /\ UNCHANGED <<runner, hook, pending, nextId, frame>>

\* doReload: offered while a program runs and the text has moved on
PressReload(c) ==
    /\ Quiet /\ c \in Present /\ ui[c].running /\ ui[c].text # ui[c].source
    /\ nextId < MaxCalls /\ ~\E p \in pending : p.comp = c /\ p.kind = "reload"
    /\ Call(c, "reload", ui[c].text, frame)
    /\ UNCHANGED <<arming, waiting, ui, runner, hook>>

PressContinue(c) ==
    /\ Quiet /\ c \in Present /\ ui[c].paused
    /\ ui' = [ui EXCEPT ![c].paused = FALSE]
    /\ frame' = Send(frame, Msg("go", 0))
    /\ UNCHANGED <<arming, waiting, runner, hook, pending, nextId>>

\* The Stop button is live once the debugger has answered.
PressStop(c) ==
    /\ Quiet /\ c \in Present /\ ui[c].stop
    /\ StopDebug(c, frame)
    /\ UNCHANGED <<arming, waiting, runner, pending, nextId>>

\* hideFloatingCanvas: the game's window is closed, as soon as it shows.
CloseWindow(c) ==
    /\ Mono /\ Quiet /\ c \in Present /\ ui[c].debugging
    /\ StopDebug(c, frame)
    /\ UNCHANGED <<arming, waiting, runner, pending, nextId>>

\* disconnectedCallback: the frame goes with the element, and the runner is not told.
Remove(c) ==
    /\ Quiet /\ c \in Present /\ c \in Removed
    /\ arming' = [arming EXCEPT ![c] = "gone"]
    /\ frame' = [frame EXCEPT ![c] = Blank]
    /\ UNCHANGED <<waiting, ui, runner, hook, pending, nextId>>

-----------------------------------------------------------------------------
(* Booting the frame, and what waits for it.                               *)

\* attachVmIframe: one more listener on the window; the filter follows the frame.
Attach(c) == attached' = c /\ listeners' = listeners + 1

\* armWebPreview, armMonoGamePreview: preview-armed has come.
Armed(c) ==
    /\ Quiet /\ arming[c] = "loading"
    /\ arming' = [arming EXCEPT ![c] = "armed"]
    /\ Attach(c)
    /\ UNCHANGED <<waiting, ui, hook, pending, nextId, frame>>

\* waitForMessage gives up; the promise stays rejected for every later caller.
ArmFails(c) ==
    /\ Quiet /\ arming[c] = "loading"
    /\ arming' = [arming EXCEPT ![c] = "failed"]
    /\ UNCHANGED <<waiting, ui, runner, hook, pending, nextId, frame>>

\* The continuation of ensureArmed in run, startDebug or detectTests.  It does
\* not look whether the user still wants the session.
Resume(c) ==
    /\ arming[c] = "armed" /\ waiting[c] # <<>>
    /\ waiting' = [waiting EXCEPT ![c] = Tail(@)]
    /\ \/ /\ Head(waiting[c]) = "run"
          /\ Call(c, "run", ui[c].source, frame)
          /\ UNCHANGED hook
       \/ /\ Head(waiting[c]) = "start"
          /\ hook' = c
          /\ Call(c, "start", ui[c].text, frame)
       \/ /\ Head(waiting[c]) = "list"
          /\ UNCHANGED <<hook, pending, nextId, frame>>
    /\ UNCHANGED <<arming, ui, runner>>

\* Mutant of Reject: run has no finally.
RejectKeepsRunning(c) ==
    /\ arming[c] \in {"failed", "gone"} /\ waiting[c] # <<>>
    /\ waiting' = [waiting EXCEPT ![c] = Tail(@)]
    /\ IF Head(waiting[c]) = "start" THEN StopDebug(c, frame) ELSE UNCHANGED <<ui, hook, frame>>
    /\ UNCHANGED <<arming, runner, pending, nextId>>

\* The catch of run and of startDebug.
Reject(c) ==
    /\ arming[c] \in {"failed", "gone"} /\ waiting[c] # <<>>
    /\ waiting' = [waiting EXCEPT ![c] = Tail(@)]
    /\ \/ /\ Head(waiting[c]) = "run"
          /\ ui' = [ui EXCEPT ![c].running = FALSE]
          /\ UNCHANGED <<hook, frame>>
       \/ /\ Head(waiting[c]) = "start"
          /\ StopDebug(c, frame)
       \/ /\ Head(waiting[c]) = "list"
          /\ UNCHANGED <<ui, hook, frame>>
    /\ UNCHANGED <<arming, runner, pending, nextId>>

-----------------------------------------------------------------------------
(* handleWorkerMessage, for messages of the frame attached last.           *)

Next1(f) == Head(frame[f].out)
Taken(f) == [frame EXCEPT ![f].out = Tail(@)]
Arrives(f) == Quiet /\ f \in Present /\ frame[f].out # <<>>
Heard(f) == Arrives(f) /\ f = attached

\* A message of any other frame is filtered out.
Ignored(f) ==
    /\ Arrives(f) /\ f # attached
    /\ frame' = Taken(f)
    /\ UNCHANGED <<arming, waiting, ui, runner, hook, pending, nextId>>

\* resolvePending of p; the listeners after the first find it gone.
Resolves(f, p) ==
    Heard(f) /\ Next1(f).kind = "result" /\ p \in pending /\ p.id = Next1(f).id

\* The rest of run.
RunEnds(f, p) ==
    /\ Resolves(f, p) /\ p.kind = "run"
    /\ pending' = pending \ {p}
    /\ ui' = [ui EXCEPT ![p.comp].running = FALSE]
    /\ frame' = Taken(f)
    /\ UNCHANGED <<arming, waiting, runner, hook, nextId>>

\* The rest of doReload: a verdict that is no refusal makes src the running source.
Reloaded(f, p) ==
    /\ Resolves(f, p) /\ p.kind = "reload"
    /\ pending' = pending \ {p}
    /\ ui' = [ui EXCEPT ![p.comp].source = IF Next1(f).ok THEN p.src ELSE @]
    /\ frame' = Taken(f)
    /\ UNCHANGED <<arming, waiting, runner, hook, nextId>>

\* The rest of startDebug.
Started(f, p) ==
    /\ Resolves(f, p) /\ p.kind = "start"
    /\ pending' = pending \ {p}
    /\ \/ /\ Next1(f).ok
          /\ ui' = [ui EXCEPT ![p.comp].stop = TRUE]
          /\ frame' = Send(Taken(f), Msg("go", 0))
          /\ UNCHANGED hook
       \/ /\ ~Next1(f).ok
          /\ StopDebug(p.comp, Taken(f))
    /\ UNCHANGED <<arming, waiting, runner, nextId>>

\* The rest of reportTestResult.
Verdict(f, p) ==
    /\ Resolves(f, p) /\ p.kind = "verdict"
    /\ pending' = pending \ {p}
    /\ StopDebug(p.comp, Taken(f))
    /\ UNCHANGED <<arming, waiting, runner, nextId>>

Event(f, k) == Heard(f) /\ Next1(f).kind = k

\* A debug event nobody is told of.
Unheard(f) ==
    /\ Heard(f) /\ Next1(f).kind # "result" /\ hook = NONE
    /\ frame' = Taken(f)
    /\ UNCHANGED <<arming, waiting, ui, runner, hook, pending, nextId>>

\* onPaused, and onFatal, which keeps the session for a look at the crash.
Paused(f) ==
    /\ Event(f, "paused") \/ Event(f, "exploded")
    /\ hook # NONE
    /\ ui' = [ui EXCEPT ![hook].paused = Next1(f).kind = "paused", ![hook].stop = TRUE]
    /\ frame' = Taken(f)
    /\ UNCHANGED <<arming, waiting, runner, hook, pending, nextId>>

\* onDebugEvent of a program that is over; every listener delivers it, and a
\* test is asked for its verdict once for each.
Complete(f) ==
    /\ Event(f, "complete") /\ hook # NONE
    /\ \/ /\ ~ui[hook].test
          /\ StopDebug(hook, Taken(f))
          /\ UNCHANGED <<pending, nextId>>
       \/ /\ ui[hook].test
          /\ LET ids == (nextId + 1) .. (nextId + listeners)
                 ask == [i \in 1 .. listeners |-> Msg("verdict", nextId + i)]
             IN  /\ pending' = pending \cup {[id |-> i, comp |-> hook, kind |-> "verdict",
                                              src |-> 0, to |-> attached] : i \in ids}
                 /\ frame' = [Taken(f) EXCEPT ![f].in = @ \o ask]
          /\ nextId' = nextId + listeners
          /\ UNCHANGED <<ui, hook>>
    /\ UNCHANGED <<arming, waiting, runner>>

\* onFatal of "interrupted by terminate": a clean stop.
Interrupted(f) ==
    /\ Event(f, "interrupted") /\ hook # NONE
    /\ StopDebug(hook, Taken(f))
    /\ UNCHANGED <<arming, waiting, runner, pending, nextId>>

-----------------------------------------------------------------------------
(* The frame's runtime, as the runner relies on it.                        *)

Put(f, fr, out) == frame' = [frame EXCEPT ![f] = [fr EXCEPT !.in = Tail(@), !.out = @ \o out]]

VmTake(f) ==
    /\ frame[f].in # <<>>
    /\ LET m == Head(frame[f].in)
           fr == frame[f]
       IN  \/ m.kind = "run" /\ Put(f, [fr EXCEPT !.runs = @ \cup {m.id}], <<>>)
           \/ /\ m.kind \in {"reload", "verdict"}
              /\ \E ok \in (IF m.kind = "verdict" THEN {TRUE} ELSE BOOLEAN) :
                    Put(f, fr, <<Say("result", m.id, ok)>>)
           \/ /\ m.kind = "start"
              /\ \/ Put(f, [fr EXCEPT !.session = (CHOOSE p \in pending : p.id = m.id).comp,
                                      !.going = FALSE], <<Say("result", m.id, TRUE)>>)
                 \/ Put(f, fr, <<Say("result", m.id, FALSE)>>)
           \/ m.kind = "go" /\ Put(f, [fr EXCEPT !.going = fr.session # NONE], <<>>)
           \/ /\ m.kind = "term"
              /\ Put(f, [fr EXCEPT !.session = NONE, !.going = FALSE],
                     IF fr.going THEN <<Say("interrupted", 0, TRUE)>> ELSE <<>>)
    /\ UNCHANGED <<arming, waiting, ui, runner, hook, pending, nextId>>

\* A program ends: its one run-tick-result.
VmEnd(f) ==
    /\ \E id \in frame[f].runs : frame' = 
          [frame EXCEPT ![f].runs = @ \ {id}, ![f].out = Append(@, Say("result", id, TRUE))]
    /\ UNCHANGED <<arming, waiting, ui, runner, hook, pending, nextId>>

\* The program under the debugger stops at a breakpoint, ends or fails.
VmEvent(f) ==
    /\ frame[f].going
    /\ \E k \in {"paused", "complete", "exploded"} :
          frame' = [frame EXCEPT ![f].going = FALSE, ![f].out = Append(@, Say(k, 0, TRUE))]
    /\ UNCHANGED <<arming, waiting, ui, runner, hook, pending, nextId>>

-----------------------------------------------------------------------------
Takes(f) ==
    \/ Ignored(f) \/ Unheard(f) \/ Paused(f) \/ Complete(f) \/ Interrupted(f)
    \/ \E p \in pending : RunEnds(f, p) \/ Reloaded(f, p) \/ Started(f, p) \/ Verdict(f, p)

BridgeNext ==
    \E c \in Comps :
        \/ Edit(c) \/ DetectTests(c) \/ PressRun(c) \/ PressDebug(c) \/ PressReload(c)
        \/ PressContinue(c) \/ PressStop(c) \/ CloseWindow(c) \/ Remove(c)
        \/ Armed(c) \/ ArmFails(c) \/ Resume(c) \/ Reject(c)
        \/ Takes(c) \/ VmTake(c) \/ VmEvent(c) \/ VmEnd(c)

BridgeSpec == BridgeInit /\ [][BridgeNext]_bridgeVars

-----------------------------------------------------------------------------
BridgeTypeOK ==
    /\ arming \in [Comps -> {"no", "loading", "armed", "failed", "gone"}]
    /\ \A c \in Comps : \A i \in 1 .. Len(waiting[c]) : waiting[c][i] \in {"run", "start", "list"}
    /\ ui \in [Comps -> [text : 0 .. MaxEdits, running : BOOLEAN, source : 0 .. MaxEdits,
                         debugging : BOOLEAN, test : BOOLEAN, stop : BOOLEAN, paused : BOOLEAN]]
    /\ attached \in Comps \cup {NONE} /\ hook \in Comps \cup {NONE}
    /\ listeners \in 0 .. Cardinality(Comps)
    /\ \A p \in pending : p.id \in 1 .. nextId /\ p.comp \in Comps
    /\ \A c \in Comps : frame[c].going => frame[c].session # NONE

(* A debug session that runs in the frame the runner talks to has a panel   *)
(* that can stop it: the component that started it shows a session, or its  *)
(* termination is on the way (fade-runnable.ts startDebug, stopDebug).      *)
(* True of consoles; the window of a game may be closed while it loads.     *)
SessionIsOwned ==
    attached \in Present /\ frame[attached].session # NONE =>
        \/ ui[frame[attached].session].debugging
        \/ \E i \in 1 .. Len(frame[attached].in) : frame[attached].in[i].kind = "term"

\* The answer to a call of c can no longer be heard.
CutOff(c) ==
    \/ arming[c] = "gone"
    \/ \E p \in pending : p.comp = c /\ p.kind = "run" /\ p.to \notin Present \cap {attached}

\* Where a call is that has been posted and not heard the answer of.
OnItsWay(id, f) ==
    \/ \E i \in 1 .. Len(frame[f].in) : frame[f].in[i].id = id
    \/ id \in frame[f].runs
    \/ \E i \in 1 .. Len(frame[f].out) : frame[f].out[i].id = id

(* A component that says it is running waits for its frame or for a call    *)
(* that will be answered: Run is never greyed out for nothing.  Left out    *)
(* are runs whose frame is gone or no longer the one the runner listens to  *)
(* (fade-runnable.ts run, runner.ts run and attachVmIframe).                *)
RunIsTracked ==
    \A c \in Comps : ui[c].running =>
        \/ CutOff(c)
        \/ \E i \in 1 .. Len(waiting[c]) : waiting[c][i] = "run"
        \/ \E p \in pending : p.comp = c /\ p.kind = "run" /\ OnItsWay(p.id, attached)
=============================================================================
