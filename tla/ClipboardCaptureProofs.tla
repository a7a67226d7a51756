----------------------- MODULE ClipboardCaptureProofs -----------------------
(***************************************************************************)
(* Theorems about ClipboardCapture, for any number of polls and of helpers *)
(* that linger.  The invariant of the capture and the order of its steps   *)
(* hold however late a helper or an application is; what the clipboard     *)
(* holds in the end is about those that are not.                           *)
(***************************************************************************)
EXTENDS ClipboardCapture, TLAPS

(***************************************************************************)
(* The processes and their collectors.                                     *)
(***************************************************************************)

(* The processes are as an event may leave them: h is helper, or what it   *)
(* will be.  Only of a doer it is known that it is done, wl-paste does not *)
(* print that a text is rich, and what a process comes to is open until    *)
(* its first signal.                                                       *)
Processes == [due : SUBSET {"stream", "exit"}, again : BOOLEAN, killed : BOOLEAN,
              outcome : Outcomes, young : BOOLEAN]
HelperTypes(h) ==
  /\ h \in [Helpers -> Processes]
  /\ \A p \in Helpers : h[p].due \subseteq Signals(p)
  /\ \A p \in Collectors :
       h[p].outcome # "done" /\ (h[p].due = Signals(p) => h[p].outcome = "missing")
  /\ h["clipboard-text"].outcome # "rich"

Slots == [open : BOOLEAN, stream : Results, exit : Results]
CollectorTypes(c) == c \in [Collectors -> Slots]

(* An open collector waits for the signals that its process owes, and what *)
(* it has is of that process.                                              *)
Paired(h, c, p) ==
  /\ h[p].due # {}
  /\ "stream" \in h[p].due <=> c[p].stream = Missing
  /\ "exit" \in h[p].due <=> c[p].exit = Missing
  /\ c[p].stream # Missing => c[p].stream.kind = h[p].outcome
  /\ c[p].exit # Missing => c[p].exit.kind = h[p].outcome

CaptureTypes ==
  /\ captureStage \in Stages
  /\ pollAttempts \in 0..MaxPolls /\ pollTimer \in BOOLEAN
  /\ clipboardBefore \in {"text", "copied", "empty"}
  /\ clipboard \in {"text", "copied", "empty", "rich"} /\ was \in {"text", "empty", "rich"}
  /\ restoreCancelled \in BOOLEAN /\ restoreText \in BOOLEAN /\ copying \in BOOLEAN
  /\ lost \in BOOLEAN /\ wanted \in BOOLEAN /\ late \in BOOLEAN
  /\ HelperTypes(helper) /\ CollectorTypes(collector)

(***************************************************************************)
(* The capture.                                                            *)
(***************************************************************************)

(* A collector is open in its own stage only, that of a poll only between  *)
(* two alarms of the timer.                                                *)
OpenInv ==
  /\ \A p \in Collectors : collector[p].open => captureStage = p /\ Paired(helper, collector, p)
  /\ collector["poll"].open => ~pollTimer /\ pollAttempts > 0
  /\ pollTimer => captureStage = "poll"

(* A restore that runs is not to be started again.                         *)
RestoreInv == RestoreIsExclusive /\ ~helper["restore"].again

(* A capture that was not canceled is wanted.                              *)
WantedInv ==
  /\ captureStage # "idle" /\ (captureStage = "restore" => ~restoreCancelled) => wanted
  /\ ~spurious /\ spurious \in BOOLEAN

(* Nothing is saved before there is something to restore.                  *)
BeforeInv == captureStage \notin Cleared \union {"restore"} => clipboardBefore = "empty"

CoreInv == CaptureTypes /\ OpenInv /\ RestoreInv /\ WantedInv /\ BeforeInv

(* No collector is open, no process is between its signals, no restore runs: *)
(* so it is whenever the stage changes.                                    *)
Ready(h, c) ==
  /\ HelperTypes(h) /\ CollectorTypes(c)
  /\ \A p \in Collectors : ~c[p].open /\ h[p].due \in {{}, Signals(p)}
  /\ h["restore"].due = {} /\ ~h["restore"].again

(***************************************************************************)
(* Lemmas about the processes.                                             *)
(***************************************************************************)

(* A process that starts owes its signals, one that does not run owes none. *)
LEMMA StartedFacts ==
  ASSUME NEW p \in Helpers
  PROVE  /\ Started(p) \in Processes /\ Off \in Processes
         /\ Started(p).due = Signals(p) /\ Signals(p) # {} /\ Off.due = {}
         /\ ~Started(p).again /\ ~Started(p).killed /\ Started(p).outcome = "missing"
         /\ ~Off.again /\ ~Off.killed /\ Off.outcome = "missing"
         /\ Signals(p) \subseteq {"stream", "exit"}
<1>1. Signals(p) \in SUBSET {"stream", "exit"} /\ Signals(p) # {} /\ "missing" \in Outcomes
  BY DEF Signals, Outcomes
<1>2. Off \in Processes
  BY <1>1 DEF Off, Processes
<1>3. Off.due = {} /\ ~Off.again /\ ~Off.killed /\ Off.outcome = "missing"
  BY DEF Off
<1>4. /\ Started(p) \in Processes /\ Started(p).due = Signals(p)
      /\ Started(p).again = Off.again /\ Started(p).killed = Off.killed
      /\ Started(p).outcome = Off.outcome
  <2> DEFINE S == Signals(p)
  <2>1. Started(p) = [Off EXCEPT !.due = S, !.young = TRUE]
    BY DEF Started
  <2> HIDE DEF S
  <2>2. S \in SUBSET {"stream", "exit"}
    BY <1>1 DEF S
  <2> QED
    BY <1>2, <2>1, <2>2 DEF Processes, S
<1> QED
  BY <1>1, <1>2, <1>3, <1>4

(* The names of the helpers are different. *)
LEMMA Names ==
  /\ "restore" \in Helpers /\ Doers \subseteq Helpers /\ Collectors \subseteq Helpers
  /\ Helpers \subseteq Stages
  /\ \A p \in Collectors : p \notin Doers /\ p # "restore" /\ p # "idle"
  /\ \A p \in Helpers : p # "idle"
  /\ "clipboard-text" \in Collectors
BY DEF Helpers, Doers, Collectors, Stages

(* Where one process has changed, all have their types if it has. *)
LEMMA HelperUpdate ==
  ASSUME NEW h, HelperTypes(h), NEW g \in [Helpers -> Processes], NEW p \in Helpers,
         \A q \in Helpers \ {p} : g[q] = h[q],
         g[p].due \subseteq Signals(p),
         p \in Collectors =>
           g[p].outcome # "done" /\ (g[p].due = Signals(p) => g[p].outcome = "missing"),
         p = "clipboard-text" => g[p].outcome # "rich"
  PROVE  HelperTypes(g)
<1>1. ASSUME NEW q \in Helpers PROVE g[q].due \subseteq Signals(q)
  BY DEF HelperTypes
<1>2. ASSUME NEW q \in Collectors
      PROVE  g[q].outcome # "done" /\ (g[q].due = Signals(q) => g[q].outcome = "missing")
  BY Names DEF HelperTypes
<1>3. g["clipboard-text"].outcome # "rich"
  BY Names DEF HelperTypes
<1> QED
  BY <1>1, <1>2, <1>3 DEF HelperTypes

(* A signal is owed no more; with the last of them the process is gone, or *)
(* the next one starts.                                                    *)
LEMMA DeliveredFacts ==
  ASSUME HelperTypes(helper), NEW p \in Helpers, NEW s \in helper[p].due, NEW k \in Outcomes,
         p \in Collectors => k # "done", p = "clipboard-text" => k # "rich"
  PROVE  /\ HelperTypes(Delivered(p, s, k))
         /\ \A q \in Helpers \ {p} : Delivered(p, s, k)[q] = helper[q]
         /\ helper[p].due \ {s} # {} =>
              /\ Delivered(p, s, k)[p].due = helper[p].due \ {s}
              /\ Delivered(p, s, k)[p].outcome = k
         /\ helper[p].due \ {s} = {} =>
              Delivered(p, s, k)[p] = IF helper[p].again THEN Started(p) ELSE Off
<1> DEFINE rest == helper[p].due \ {s}
           r == IF rest # {} THEN [helper[p] EXCEPT !.due = rest, !.outcome = k]
                             ELSE IF helper[p].again THEN Started(p) ELSE Off
<1>1. helper[p] \in Processes /\ helper[p].due \subseteq Signals(p)
  BY DEF HelperTypes
<1>2. CASE rest # {}
  <2>0. rest \in SUBSET {"stream", "exit"} /\ rest # Signals(p)
    BY <1>1 DEF Processes
  <2>1. r \in Processes /\ r.due = rest /\ r.outcome = k
    BY <1>1, <1>2, <2>0 DEF Processes
  <2>2. r.due \subseteq Signals(p) /\ r.due # Signals(p)
    BY <1>1, <2>0, <2>1
  <2>3. Delivered(p, s, k) = [helper EXCEPT ![p] = r]
    BY <1>2 DEF Delivered
  <2> HIDE DEF r
  <2>4. /\ Delivered(p, s, k) \in [Helpers -> Processes] /\ Delivered(p, s, k)[p] = r
        /\ \A q \in Helpers \ {p} : Delivered(p, s, k)[q] = helper[q]
    BY <2>1, <2>3 DEF HelperTypes
  <2>5. HelperTypes(Delivered(p, s, k))
    BY <2>1, <2>2, <2>4, HelperUpdate
  <2> QED
    BY <1>2, <2>1, <2>4, <2>5
<1>3. CASE rest = {}
  <2>1. /\ r \in Processes /\ r.due \subseteq Signals(p) /\ r.outcome = "missing"
        /\ r = IF helper[p].again THEN Started(p) ELSE Off
    BY <1>3, StartedFacts
  <2>2. Delivered(p, s, k) = [helper EXCEPT ![p] = r]
    BY <1>3 DEF Delivered
  <2> HIDE DEF r
  <2>3. r.outcome # "done" /\ r.outcome # "rich"
    BY <2>1
  <2>4. /\ Delivered(p, s, k) \in [Helpers -> Processes] /\ Delivered(p, s, k)[p] = r
        /\ \A q \in Helpers \ {p} : Delivered(p, s, k)[q] = helper[q]
    BY <2>1, <2>2 DEF HelperTypes
  <2>5. HelperTypes(Delivered(p, s, k))
    BY <2>1, <2>3, <2>4, HelperUpdate
  <2> QED
    BY <1>3, <2>1, <2>4, <2>5
<1> QED
  BY <1>2, <1>3

(* What is launched starts, at once or when its predecessor has gone. *)
LEMMA LaunchFacts ==
  ASSUME NEW h, HelperTypes(h), NEW p \in Helpers, Launch(p, h)
  PROVE  /\ HelperTypes(helper')
         /\ \A q \in Helpers \ {p} : helper'[q] = h[q]
         /\ h[p].due = {} => helper'[p] = Started(p)
         /\ h[p].due # {} => helper'[p].due = h[p].due /\ helper'[p].outcome = h[p].outcome
<1> DEFINE r == IF h[p].due = {} THEN Started(p)
                                 ELSE [h[p] EXCEPT !.again = TRUE, !.killed = TRUE]
<1>1. h[p] \in Processes /\ h[p].due \subseteq Signals(p)
  BY DEF HelperTypes
<1>2. helper' = [h EXCEPT ![p] = r]
  BY DEF Launch
<1>3. r \in Processes /\ r.due \subseteq Signals(p)
      /\ (p \in Collectors => r.outcome # "done" /\ (r.due = Signals(p) => r.outcome = "missing"))
      /\ (p = "clipboard-text" => r.outcome # "rich")
      /\ (h[p].due = {} => r = Started(p))
      /\ (h[p].due # {} => r.due = h[p].due /\ r.outcome = h[p].outcome)
  <2>1. CASE h[p].due = {}
    BY <2>1, StartedFacts
  <2>2. CASE h[p].due # {}
    <3>1. r = [h[p] EXCEPT !.again = TRUE, !.killed = TRUE]
      BY <2>2
    <3>2. r \in Processes /\ r.due = h[p].due /\ r.outcome = h[p].outcome
      BY <1>1, <3>1 DEF Processes
    <3> QED
      BY <1>1, <2>2, <3>2 DEF HelperTypes
  <2> QED
    BY <2>1, <2>2
<1> HIDE DEF r
<1>4. /\ helper' \in [Helpers -> Processes] /\ helper'[p] = r
      /\ \A q \in Helpers \ {p} : helper'[q] = h[q]
  BY <1>2, <1>3 DEF HelperTypes
<1>5. HelperTypes(helper')
  BY <1>3, <1>4, HelperUpdate
<1> QED
  BY <1>3, <1>4, <1>5

(* What is terminated goes on to owe its signals; a restore is not. *)
LEMMA TerminatedFacts ==
  ASSUME HelperTypes(helper)
  PROVE  /\ HelperTypes(Terminated)
         /\ Terminated["restore"] = helper["restore"]
         /\ \A p \in Helpers :
              /\ Terminated[p].due = helper[p].due /\ Terminated[p].outcome = helper[p].outcome
              /\ ~Running(p) => Terminated[p] = helper[p]
              /\ Running(p) /\ p # "restore" => Terminated[p].killed /\ ~Terminated[p].again
<1>1. ASSUME NEW p \in Helpers
      PROVE  /\ Terminated[p] \in Processes
             /\ Terminated[p].due = helper[p].due /\ Terminated[p].outcome = helper[p].outcome
             /\ ~Running(p) \/ p = "restore" => Terminated[p] = helper[p]
             /\ Running(p) /\ p # "restore" => Terminated[p].killed /\ ~Terminated[p].again
  <2>1. helper[p] \in Processes
    BY DEF HelperTypes
  <2>2. CASE p = "restore" \/ ~Running(p)
    BY <2>1, <2>2 DEF Terminated
  <2>3. CASE ~(p = "restore" \/ ~Running(p))
    <3>1. Terminated[p] = [helper[p] EXCEPT !.killed = TRUE, !.again = FALSE, !.young = FALSE]
      BY <2>3 DEF Terminated
    <3> QED
      BY <2>1, <2>3, <3>1 DEF Processes
  <2> QED
    BY <2>2, <2>3
<1>2. Terminated \in [Helpers -> Processes]
  <2>1. Terminated = [p \in Helpers |-> Terminated[p]]
    BY DEF Terminated
  <2> QED
    BY <1>1, <2>1
<1>3. HelperTypes(Terminated)
  BY <1>1, <1>2, Names DEF HelperTypes
<1> QED
  BY <1>1, <1>3, Names

(* What is open after a stage has begun is its collector. *)
LEMMA AwaitKeeps ==
  ASSUME NEW h, NEW c, Ready(h, c), NEW p \in Helpers, Await(p, h, c)
  PROVE  /\ HelperTypes(helper') /\ CollectorTypes(collector') /\ RestoreInv'
         /\ captureStage' = p /\ captureStage' \in Stages
         /\ \A q \in Collectors : collector'[q].open => q = p /\ Paired(helper', collector', q)
         /\ \A q \in Helpers \ {p} : helper'[q] = h[q]
         /\ h[p].due = {} => helper'[p] = Started(p)
         /\ p \in Collectors => helper'[p].outcome = "missing"
<1>1. HelperTypes(h) /\ Launch(p, h) /\ captureStage' = p /\ captureStage' \in Stages
  BY Names DEF Ready, Await
<1>2. /\ HelperTypes(helper') /\ \A q \in Helpers \ {p} : helper'[q] = h[q]
      /\ h[p].due = {} => helper'[p] = Started(p)
      /\ h[p].due # {} => helper'[p].due = h[p].due /\ helper'[p].outcome = h[p].outcome
  BY <1>1, LaunchFacts
<1>3. RestoreInv'
  <2>1. CASE p = "restore"
    BY <1>1, <1>2, <2>1, StartedFacts DEF Ready, RestoreInv, RestoreIsExclusive, Running
  <2>2. CASE p # "restore"
    BY <1>1, <1>2, <2>2, Names DEF Ready, RestoreInv, RestoreIsExclusive, Running
  <2> QED
    BY <2>1, <2>2
<1>4. CASE p \in Collectors
  <2>1. collector' = [c EXCEPT ![p] = Fresh] /\ c \in [Collectors -> Slots]
    BY <1>4 DEF Await, Ready, CollectorTypes
  <2>2. Fresh \in Slots /\ Fresh.stream = Missing /\ Fresh.exit = Missing
    BY DEF Fresh, Closed, Slots, Results
  <2>3. CollectorTypes(collector') /\ collector'[p] = Fresh
        /\ \A q \in Collectors \ {p} : collector'[q] = c[q]
    BY <1>4, <2>1, <2>2 DEF CollectorTypes
  <2>4. helper'[p].due = Signals(p) /\ Signals(p) = {"stream", "exit"}
    BY <1>2, <1>4, StartedFacts DEF Ready, Signals
  <2>5. Paired(helper', collector', p)
    BY <2>2, <2>3, <2>4 DEF Paired
  <2>6. helper'[p].outcome = "missing"
    BY <1>2, <1>4, <2>4 DEF HelperTypes
  <2> QED
    BY <1>1, <1>2, <1>3, <2>3, <2>5, <2>6 DEF Ready
<1>5. CASE p \notin Collectors
  BY <1>1, <1>2, <1>3, <1>5 DEF Await, Ready
<1> QED
  BY <1>4, <1>5

(* The same where the capture is over. *)
LEMMA StayKeeps ==
  ASSUME NEW h, NEW c, Ready(h, c), Stay(h, c), captureStage' # "restore"
  PROVE  /\ HelperTypes(helper') /\ CollectorTypes(collector') /\ RestoreInv'
         /\ \A q \in Collectors : ~collector'[q].open
         /\ \A q \in Helpers : helper'[q] = h[q]
BY DEF Stay, Ready, RestoreInv, RestoreIsExclusive, Running

(***************************************************************************)
(* What a signal of a collected helper leads to: k is what its process     *)
(* came to, h and c are as they are when the handler begins.               *)
(***************************************************************************)
Onward == {<<"primary-types", "primary-text">>, <<"primary-types", "clipboard-types">>,
           <<"primary-text", "clipboard-types">>, <<"clipboard-types", "clipboard-text">>,
           <<"active-window", "copy">>}

GoesOn(p, k, h, c) ==
  \E q \in Helpers :
    /\ <<p, q>> \in Onward /\ Await(q, h, c)
    /\ q = "clipboard-text" => k \notin {"rich", "fail", "over"}
    /\ UNCHANGED <<saved, verdict, pollTimer>>

Ends(p, h, c) ==
  /\ p \in {"primary-text", "clipboard-types", "clipboard-text"}
  /\ Finish(h, c)
  /\ UNCHANGED pollTimer

Saves(p, k, h, c) ==
  /\ p \in {"clipboard-types", "clipboard-text"}
  /\ k \in {"text", "copied", "empty"} /\ clipboardBefore' = k
  /\ p = "clipboard-types" => k = "empty"
  /\ Await("clear-clipboard", h, c)
  /\ UNCHANGED <<restoreCancelled, restoreText, verdict, pollTimer>>

Finds(p, h, c) ==
  /\ p = "poll"
  /\ \E found \in BOOLEAN : BeginRestore(found, FALSE, h, c)
  /\ UNCHANGED <<clipboardBefore, verdict, pollTimer>>

Retries(p, h, c) ==
  /\ p = "poll" /\ pollTimer' = TRUE
  /\ Stay(h, c)
  /\ UNCHANGED <<captureStage, saved, verdict>>

Handled(p, k, h, c) ==
  \/ GoesOn(p, k, h, c) \/ Ends(p, h, c) \/ Saves(p, k, h, c)
  \/ Finds(p, h, c) \/ Retries(p, h, c)

(* The handlers do one of these. *)
LEMMA HandleCases ==
  ASSUME NEW p \in Collectors, captureStage = p, NEW x, NEW o, NEW h, NEW c, NEW k \in Kinds,
         x.kind = k, o.kind = k, p = "clipboard-text" => k # "rich", Handle(p, x, o, h, c)
  PROVE  Handled(p, k, h, c)
<1> USE DEF Handled
<1>1. CASE p = "primary-types"
  <2>1. HandlePrimaryTypes(x, o, h, c) /\ UNCHANGED pollTimer
    BY <1>1 DEF Handle
  <2>2. \E q \in {"primary-text", "clipboard-types"} :
          Await(q, h, c) /\ UNCHANGED <<saved, verdict>>
    BY <2>1 DEF HandlePrimaryTypes, Fallback
  <2> QED
    BY <1>1, <2>1, <2>2 DEF GoesOn, Onward, Helpers, Collectors
<1>2. CASE p = "primary-text"
  <2>1. HandlePrimaryText(x, o, h, c) /\ UNCHANGED pollTimer
    BY <1>2 DEF Handle
  <2>2. Finish(h, c) \/ (Await("clipboard-types", h, c) /\ UNCHANGED <<saved, verdict>>)
    BY <2>1 DEF HandlePrimaryText, Fallback
  <2> QED
    BY <1>2, <2>1, <2>2 DEF GoesOn, Ends, Onward, Helpers, Collectors
<1>3. CASE p = "clipboard-types"
  <2>1. HandleClipboardTypes(x, o, h, c) /\ UNCHANGED pollTimer
    BY <1>3 DEF Handle
  <2>2. CASE Failed(x) \/ k = "rich"
    <3>1. Finish(h, c)
      BY <2>1, <2>2 DEF HandleClipboardTypes
    <3> QED
      BY <1>3, <2>1, <3>1 DEF Ends
  <2>3. CASE ~Failed(x) /\ k = "empty"
    <3>1. /\ clipboardBefore' = "empty" /\ Await("clear-clipboard", h, c)
          /\ UNCHANGED <<restoreCancelled, restoreText, verdict>>
      BY <2>1, <2>3 DEF HandleClipboardTypes, Text
    <3> QED
      BY <1>3, <2>1, <2>3, <3>1 DEF Saves
  <2>4. CASE ~Failed(x) /\ k \in {"text", "copied"}
    <3>1. Await("clipboard-text", h, c) /\ UNCHANGED <<saved, verdict>>
      BY <2>1, <2>4 DEF HandleClipboardTypes, Text
    <3> QED
      BY <1>3, <2>1, <2>4, <3>1 DEF GoesOn, Onward, Helpers, Collectors
  <2> QED
    BY <2>2, <2>3, <2>4 DEF Failed, Kinds
<1>4. CASE p = "clipboard-text"
  <2>1. HandleClipboardText(x, o, h, c) /\ UNCHANGED pollTimer
    BY <1>4 DEF Handle
  <2>2. CASE Failed(x)
    BY <1>4, <2>1, <2>2 DEF HandleClipboardText, Ends
  <2>3. CASE ~Failed(x)
    <3>1. k \in {"text", "copied", "empty"}
      BY <1>4, <2>3 DEF Failed, Kinds
    <3> QED
      BY <1>4, <2>1, <2>3, <3>1 DEF HandleClipboardText, Saves
  <2> QED
    BY <2>2, <2>3
<1>5. CASE p = "active-window"
  <2>1. Await("copy", h, c) /\ UNCHANGED <<saved, verdict, pollTimer>>
    BY <1>5 DEF Handle, HandleActiveWindow
  <2> QED
    BY <1>5, <2>1 DEF GoesOn, Onward, Helpers, Doers
<1>6. CASE p = "poll"
  <2>1. HandlePolledText(x, o, h, c)
    BY <1>6 DEF Handle
  <2>2. CASE x.kind = "over" \/ (~Failed(x) /\ Text(o))
    <3>1. /\ BeginRestore(x.kind # "over", FALSE, h, c)
          /\ UNCHANGED <<clipboardBefore, verdict, pollTimer>>
      BY <2>1, <2>2 DEF HandlePolledText
    <3> QED
      BY <1>6, <3>1 DEF Finds
  <2>3. CASE ~(x.kind = "over" \/ (~Failed(x) /\ Text(o)))
    BY <1>6, <2>1, <2>3 DEF HandlePolledText, Retries, saved
  <2> QED
    BY <2>2, <2>3
<1> QED
  BY <1>1, <1>2, <1>3, <1>4, <1>5, <1>6 DEF Collectors

(* A signal that is not the second of an open collector. *)
Collected(h) ==
  /\ helper' = h /\ HelperTypes(helper') /\ CollectorTypes(collector')
  /\ \A q \in Collectors :
       collector'[q].open => collector[q].open /\ Paired(helper', collector', q)
  /\ UNCHANGED <<captureStage, pollTimer, saved, verdict>>

(* A signal is collected, or handled when nothing else is open; its        *)
(* process has then delivered both, and what it came to is one thing.      *)
LEMMA SignalCases ==
  ASSUME CoreInv, NEW p \in Collectors, NEW s \in {"stream", "exit"}, Signal(p, s)
  PROVE  \E k \in Kinds : \E h, c :
           /\ k = helper[p].outcome \/ (helper[p].outcome = "missing" /\ k \in Prints(p))
           /\ p = "clipboard-text" => k # "rich"
           /\ h[p].outcome \in {k, "missing"}
           /\ \A q \in Helpers \ {p} : h[q] = helper[q]
           /\ \/ /\ Ready(h, c) /\ captureStage = p /\ collector[p].open /\ Handled(p, k, h, c)
              \/ Collected(h)
           /\ UNCHANGED <<pollAttempts, world, lost>> /\ late' \in BOOLEAN
<1> DEFINE r(k) == [kind |-> k, young |-> helper[p].young]
           got(k) == IF s = "exit" THEN [collector[p] EXCEPT !.exit = r(k)]
                                   ELSE [collector[p] EXCEPT !.stream = r(k)]
           complete(k) == got(k).exit # Missing /\ got(k).stream # Missing
           c(k) == [collector EXCEPT ![p] = Closed]
<1>1. PICK k \in IF helper[p].outcome = "missing" THEN Prints(p) ELSE {helper[p].outcome} :
        CASE collector[p].open /\ complete(k) /\ captureStage = p ->
               /\ Handle(p, got(k).exit, got(k).stream, Delivered(p, s, k), c(k))
               /\ late' = (late \/ ~got(k).exit.young \/ ~got(k).stream.young)
          [] collector[p].open /\ ~(complete(k) /\ captureStage = p) ->
               /\ Stay(Delivered(p, s, k),
                       [collector EXCEPT ![p] = IF complete(k) THEN Closed ELSE got(k)])
               /\ UNCHANGED <<captureStage, pollTimer, saved, verdict, late>>
          [] OTHER ->
               /\ Stay(Delivered(p, s, k), collector)
               /\ UNCHANGED <<captureStage, pollTimer, saved, verdict, late>>
  BY DEF Signal
<1>2. s \in helper[p].due /\ Free(p) /\ UNCHANGED <<pollAttempts, world, lost>>
  BY DEF Signal
<1>3. HelperTypes(helper) /\ CollectorTypes(collector) /\ OpenInv /\ RestoreInv
      /\ clipboard \in {"text", "copied", "empty", "rich"} /\ late \in BOOLEAN
  BY DEF CoreInv, CaptureTypes
<1>4. k \in Kinds /\ (p = "clipboard-text" => k # "rich")
      /\ (k = helper[p].outcome \/ (helper[p].outcome = "missing" /\ k \in Prints(p)))
  <2>1. CASE helper[p].outcome = "missing"
    BY <1>1, <1>3, <2>1 DEF Prints, Kinds, Collectors
  <2>2. CASE helper[p].outcome # "missing"
    <3>1. helper[p] \in Processes /\ helper[p].outcome # "done"
      BY <1>3, Names DEF HelperTypes
    <3> QED
      BY <1>1, <1>3, <2>2, <3>1 DEF HelperTypes, Processes, Outcomes
  <2> QED
    BY <2>1, <2>2
<1> DEFINE h == Delivered(p, s, k)
<1>5. p \in Helpers /\ k \in Outcomes /\ k # "done" /\ k # "missing"
  BY <1>4, Names DEF Outcomes, Kinds
<1>6. /\ HelperTypes(h) /\ \A q \in Helpers \ {p} : h[q] = helper[q]
      /\ helper[p].due \ {s} # {} => h[p].due = helper[p].due \ {s} /\ h[p].outcome = k
      /\ helper[p].due \ {s} = {} => h[p] = IF helper[p].again THEN Started(p) ELSE Off
  BY <1>2, <1>3, <1>4, <1>5, DeliveredFacts
<1>7. h[p].outcome \in {k, "missing"}
  BY <1>5, <1>6, StartedFacts
<1>8. r(k) \in Results /\ r(k) # Missing /\ r(k).kind = k
  <2>1. helper[p] \in Processes
    BY <1>3, <1>5 DEF HelperTypes
  <2> QED
    BY <1>4, <1>5, <2>1 DEF Results, Missing, Processes
<1>9. collector[p] \in Slots
  BY <1>3 DEF CollectorTypes
<1>10. /\ got(k) \in Slots
       /\ s = "exit" => got(k).exit = r(k) /\ got(k).stream = collector[p].stream
       /\ s = "stream" => got(k).stream = r(k) /\ got(k).exit = collector[p].exit
  BY <1>8, <1>9 DEF Slots
<1>11. Closed \in Slots /\ ~Closed.open
  BY DEF Closed, Slots, Results
<1>12. helper[p].due \subseteq {"stream", "exit"}
  BY <1>3, <1>5 DEF HelperTypes, Processes
<1>13. collector[p].open => captureStage = p /\ Paired(helper, collector, p)
  BY <1>3 DEF OpenInv
<1> HIDE DEF r, got
<1>14. CASE collector[p].open /\ complete(k)
  <2>1. captureStage = p /\ Paired(helper, collector, p)
    BY <1>13, <1>14
  <2>2. /\ Handle(p, got(k).exit, got(k).stream, h, c(k))
        /\ late' = (late \/ ~got(k).exit.young \/ ~got(k).stream.young)
    BY <1>1, <1>14, <2>1
  <2>3. got(k).exit.kind = k /\ got(k).stream.kind = k /\ helper[p].due = {s}
    <3>1. CASE s = "exit"
      <4>1. collector[p].stream # Missing
        BY <1>10, <1>14, <3>1
      <4>2. collector[p].stream.kind = helper[p].outcome /\ "stream" \notin helper[p].due
        BY <2>1, <4>1 DEF Paired
      <4>3. collector[p].stream.kind \in Kinds
        BY <1>9, <4>1 DEF Slots, Results
      <4>4. helper[p].outcome = k
        BY <1>4, <4>2, <4>3 DEF Kinds
      <4> QED
        BY <1>2, <1>8, <1>10, <1>12, <3>1, <4>2, <4>4
    <3>2. CASE s = "stream"
      <4>1. collector[p].exit # Missing
        BY <1>10, <1>14, <3>2
      <4>2. collector[p].exit.kind = helper[p].outcome /\ "exit" \notin helper[p].due
        BY <2>1, <4>1 DEF Paired
      <4>3. collector[p].exit.kind \in Kinds
        BY <1>9, <4>1 DEF Slots, Results
      <4>4. helper[p].outcome = k
        BY <1>4, <4>2, <4>3 DEF Kinds
      <4> QED
        BY <1>2, <1>8, <1>10, <1>12, <3>2, <4>2, <4>4
    <3> QED
      BY <3>1, <3>2
  <2>4. Handled(p, k, h, c(k))
    BY <1>4, <2>1, <2>2, <2>3, HandleCases
  <2>5. Ready(h, c(k))
    <3>1. /\ CollectorTypes(c(k)) /\ ~c(k)[p].open
          /\ \A q \in Collectors \ {p} : c(k)[q] = collector[q]
      BY <1>3, <1>11 DEF CollectorTypes
    <3>2. \A q \in Collectors : ~c(k)[q].open
      BY <1>3, <2>1, <3>1 DEF OpenInv
    <3>3. h[p].due \in {{}, Signals(p)}
      BY <1>6, <1>5, <2>3, StartedFacts
    <3>4. \A q \in Collectors : h[q].due \in {{}, Signals(q)}
      BY <1>2, <1>6, <3>3, Names DEF Free
    <3>5. h["restore"].due = {} /\ ~h["restore"].again
      BY <1>3, <1>6, <2>1, Names DEF RestoreInv, RestoreIsExclusive, Running
    <3> QED
      BY <1>6, <3>1, <3>2, <3>4, <3>5 DEF Ready
  <2>6. late' \in BOOLEAN
    BY <2>2
  <2> HIDE DEF h, c
  <2> QED
    BY <1>2, <1>4, <1>6, <1>7, <1>14, <2>1, <2>4, <2>5, <2>6
<1>15. CASE ~(collector[p].open /\ complete(k))
  <2>1. PICK d \in Slots :
          /\ helper' = h /\ collector' = [collector EXCEPT ![p] = d]
          /\ d.open => d = got(k) /\ collector[p].open /\ ~complete(k)
          /\ UNCHANGED <<captureStage, pollTimer, saved, verdict, late>>
    <3>1. CASE collector[p].open
      <4>1. /\ helper' = h /\ collector' = [collector EXCEPT ![p] = got(k)]
            /\ UNCHANGED <<captureStage, pollTimer, saved, verdict, late>>
        BY <1>1, <1>15, <3>1 DEF Stay
      <4> QED
        BY <1>10, <1>15, <3>1, <4>1
    <3>2. CASE ~collector[p].open
      <4>1. /\ helper' = h /\ collector' = collector
            /\ UNCHANGED <<captureStage, pollTimer, saved, verdict, late>>
        BY <1>1, <3>2 DEF Stay
      <4>2. collector' = [collector EXCEPT ![p] = collector[p]]
        BY <1>3, <4>1 DEF CollectorTypes
      <4> QED
        BY <1>9, <3>2, <4>1, <4>2
    <3> QED
      BY <3>1, <3>2
  <2>2. /\ CollectorTypes(collector') /\ collector'[p] = d
        /\ \A q \in Collectors \ {p} : collector'[q] = collector[q]
    BY <1>3, <2>1 DEF CollectorTypes
  <2>3. ASSUME d.open PROVE Paired(helper', collector', p)
    <3>1. d = got(k) /\ collector[p].open /\ (got(k).exit = Missing \/ got(k).stream = Missing)
      BY <2>1, <2>3
    <3>2. Paired(helper, collector, p)
      BY <1>13, <3>1
    <3>3. CASE s = "exit"
      <4>1. d.exit = r(k) /\ d.stream = Missing /\ collector[p].stream = Missing
        BY <1>8, <1>10, <3>1, <3>3
      <4>2. helper[p].due \ {s} = {"stream"}
        BY <1>12, <3>2, <3>3, <4>1 DEF Paired
      <4>3. helper'[p].due = {"stream"} /\ helper'[p].outcome = k
        BY <1>6, <2>1, <4>2
      <4> QED
        BY <1>8, <2>2, <4>1, <4>3 DEF Paired
    <3>4. CASE s = "stream"
      <4>1. d.stream = r(k) /\ d.exit = Missing /\ collector[p].exit = Missing
        BY <1>8, <1>10, <3>1, <3>4
      <4>2. helper[p].due \ {s} = {"exit"}
        BY <1>12, <3>2, <3>4, <4>1 DEF Paired
      <4>3. helper'[p].due = {"exit"} /\ helper'[p].outcome = k
        BY <1>6, <2>1, <4>2
      <4> QED
        BY <1>8, <2>2, <4>1, <4>3 DEF Paired
    <3> QED
      BY <3>3, <3>4
  <2>4. ASSUME NEW q \in Collectors, collector'[q].open
        PROVE  collector[q].open /\ Paired(helper', collector', q)
    <3>1. CASE q = p
      BY <2>1, <2>2, <2>3, <2>4, <3>1
    <3>2. CASE q # p
      <4>1. /\ collector'[q] = collector[q] /\ helper'[q] = helper[q] /\ collector[q].open
            /\ Paired(helper, collector, q)
        BY <1>3, <1>6, <2>1, <2>2, <2>4, <3>2, Names DEF OpenInv
      <4> QED
        BY <4>1 DEF Paired
    <3> QED
      BY <3>1, <3>2
  <2>5. Collected(h)
    BY <1>6, <2>1, <2>2, <2>4 DEF Collected
  <2> HIDE DEF h
  <2> QED
    BY <1>2, <1>3, <1>4, <1>6, <1>7, <2>1, <2>5
<1> QED
  BY <1>14, <1>15

(***************************************************************************)
(* The steps.  Each keeps the invariant, and is a step of the policy or    *)
(* none, a failure to clear the clipboard, or one of the user's.           *)
(***************************************************************************)
PolicyStep == [Policy!Next \/ ClearFails \/ ReadSelection \/ Stop]_(Policy!policy)

(* The invariant holds at the start, and the policy is at its own. *)
LEMMA CoreInit == Init => CoreInv /\ Policy!Init
<1> SUFFICES ASSUME Init PROVE CoreInv /\ Policy!Init
  OBVIOUS
<1>1. HelperTypes(helper) /\ helper["restore"] = Off /\ Off.due = {} /\ ~Off.again
  <2>1. \A p \in Helpers : helper[p] = Off
    BY DEF Init
  <2>2. Off \in Processes /\ Off.due = {} /\ ~Off.again /\ Off.outcome = "missing"
    BY Names, StartedFacts
  <2>3. helper \in [Helpers -> Processes]
    BY <2>2 DEF Init
  <2> QED
    BY <2>1, <2>2, <2>3, Names DEF HelperTypes, Signals
<1>2. CollectorTypes(collector) /\ \A p \in Collectors : ~collector[p].open
  <2>1. Closed \in Slots /\ ~Closed.open
    BY DEF Closed, Slots, Results
  <2> QED
    BY <2>1 DEF Init, CollectorTypes
<1>3. CaptureTypes
  <2>1. clipboard \in {"text", "empty", "rich"} /\ was = clipboard
    BY ClipboardsAssumption DEF Init
  <2>2. 0 \in 0..MaxPolls
    BY PollsAssumption
  <2> QED
    BY <1>1, <1>2, <2>1, <2>2 DEF Init, CaptureTypes, Stages
<1>4. OpenInv /\ RestoreInv /\ WantedInv /\ BeforeInv
  <2>1. "poll" \in Collectors
    BY DEF Collectors
  <2> QED
    BY <1>1, <1>2, <2>1 DEF Init, OpenInv, RestoreInv, RestoreIsExclusive, Running, WantedInv,
       BeforeInv
<1>5. Policy!Init
  BY DEF Init, Policy!Init, StepOf
<1> QED
  BY <1>3, <1>4, <1>5 DEF CoreInv

(* A signal of a collected helper. *)
LEMMA SignalStep ==
  ASSUME CoreInv, NEW p \in Collectors, NEW s \in {"stream", "exit"}, Signal(p, s)
  PROVE  CoreInv' /\ PolicyStep
<1>1. PICK k \in Kinds : \E h, c :
        /\ \A q \in Helpers \ {p} : h[q] = helper[q]
        /\ \/ /\ Ready(h, c) /\ captureStage = p /\ collector[p].open /\ Handled(p, k, h, c)
           \/ Collected(h)
        /\ UNCHANGED <<pollAttempts, world, lost>> /\ late' \in BOOLEAN
  BY SignalCases
<1>2. PICK h, c :
        /\ \A q \in Helpers \ {p} : h[q] = helper[q]
        /\ \/ /\ Ready(h, c) /\ captureStage = p /\ collector[p].open /\ Handled(p, k, h, c)
           \/ Collected(h)
        /\ UNCHANGED <<pollAttempts, world, lost>> /\ late' \in BOOLEAN
  BY <1>1
<1>3. CaptureTypes /\ OpenInv /\ RestoreInv /\ WantedInv /\ BeforeInv
  BY DEF CoreInv
<1>4. UNCHANGED <<pollAttempts, clipboard, copying, was, lost>> /\ late' \in BOOLEAN
  BY <1>2 DEF world
<1>5. p # "idle" /\ p # "restore" /\ "poll" \in Collectors
  BY Names DEF Collectors
<1>6. CASE Collected(h)
  <2>1. UNCHANGED <<captureStage, pollTimer, clipboardBefore, restoreCancelled, restoreText, wanted,
                    spurious>>
    BY <1>6 DEF Collected, saved, verdict
  <2>2. CaptureTypes'
    BY <1>3, <1>4, <1>6, <2>1 DEF CaptureTypes, Collected
  <2>3. OpenInv'
    BY <1>3, <1>4, <1>5, <1>6, <2>1 DEF OpenInv, Collected
  <2>4. RestoreInv'
    BY <1>2, <1>3, <1>5, <1>6, <2>1, Names DEF RestoreInv, RestoreIsExclusive, Running,
       Collected
  <2>5. WantedInv' /\ BeforeInv'
    BY <1>3, <2>1 DEF WantedInv, BeforeInv
  <2>6. UNCHANGED Policy!policy
    BY <1>4, <2>1 DEF Policy!policy, StepOf
  <2> QED
    BY <2>2, <2>3, <2>4, <2>5, <2>6 DEF CoreInv, PolicyStep
<1>7. CASE /\ Ready(h, c) /\ captureStage = p /\ collector[p].open /\ Handled(p, k, h, c)
  <2>1. CASE GoesOn(p, k, h, c)
    <3>1. PICK q \in Helpers :
            /\ <<p, q>> \in Onward /\ Await(q, h, c)
            /\ UNCHANGED <<saved, verdict, pollTimer>>
      BY <2>1 DEF GoesOn
    <3>2. UNCHANGED <<pollTimer, clipboardBefore, restoreCancelled, restoreText, wanted, spurious>>
      BY <3>1 DEF saved, verdict
    <3>3. /\ HelperTypes(helper') /\ CollectorTypes(collector') /\ RestoreInv'
          /\ captureStage' = q /\ captureStage' \in Stages
          /\ \A g \in Collectors : collector'[g].open => g = q /\ Paired(helper', collector', g)
      BY <1>7, <3>1, AwaitKeeps
    <3>4. \/ p = "primary-types" /\ q = "primary-text"
          \/ p \in {"primary-types", "primary-text"} /\ q = "clipboard-types"
          \/ p = "clipboard-types" /\ q = "clipboard-text"
          \/ p = "active-window" /\ q = "copy"
      BY <3>1 DEF Onward
    <3>5. CaptureTypes'
      BY <1>3, <1>4, <3>2, <3>3 DEF CaptureTypes
    <3>6. OpenInv'
      BY <1>3, <1>5, <1>7, <3>2, <3>3, <3>4 DEF OpenInv
    <3>7. WantedInv' /\ BeforeInv'
      BY <1>3, <1>5, <1>7, <3>2, <3>3, <3>4 DEF WantedInv, BeforeInv, Cleared, Polling
    <3>8. PolicyStep
      <4>1. CASE \/ p = "primary-types" /\ q = "primary-text"
                 \/ p = "active-window" /\ q = "copy"
        <5>1. UNCHANGED Policy!policy
          BY <1>4, <1>7, <3>2, <3>3, <4>1 DEF Policy!policy, StepOf
        <5> QED
          BY <5>1 DEF PolicyStep
      <4>2. CASE p \in {"primary-types", "primary-text"} /\ q = "clipboard-types"
        <5>1. Policy!Primary
          BY <1>4, <1>7, <3>2, <3>3, <4>2 DEF Policy!Primary, StepOf
        <5> QED
          BY <5>1 DEF PolicyStep, Policy!Next
      <4>3. CASE p = "clipboard-types" /\ q = "clipboard-text"
        <5>1. clipboardBefore = "empty"
          BY <1>3, <1>7, <4>3 DEF BeforeInv, Cleared, Polling
        <5>2. Policy!Types
          BY <1>4, <1>7, <3>2, <3>3, <4>3, <5>1 DEF Policy!Types, StepOf
        <5> QED
          BY <5>2 DEF PolicyStep, Policy!Next
      <4> QED
        BY <3>4, <4>1, <4>2, <4>3
    <3> QED
      BY <3>3, <3>5, <3>6, <3>7, <3>8 DEF CoreInv
  <2>2. CASE Ends(p, h, c)
    <3>1. /\ p \in {"primary-text", "clipboard-types", "clipboard-text"} /\ Stay(h, c)
          /\ captureStage' = "idle" /\ spurious' = (spurious \/ ~wanted) /\ wanted' = FALSE
          /\ UNCHANGED <<pollTimer, clipboardBefore, restoreCancelled, restoreText>>
      BY <2>2 DEF Ends, Finish, Answer, saved
    <3>2. /\ HelperTypes(helper') /\ CollectorTypes(collector') /\ RestoreInv'
          /\ \A g \in Collectors : ~collector'[g].open
      BY <1>7, <3>1, StayKeeps
    <3>3. CaptureTypes'
      BY <1>3, <1>4, <3>1, <3>2 DEF CaptureTypes, Stages
    <3>4. OpenInv'
      BY <1>3, <1>5, <1>7, <3>1, <3>2 DEF OpenInv
    <3>5. WantedInv' /\ BeforeInv'
      BY <1>3, <1>5, <1>7, <3>1 DEF WantedInv, BeforeInv, Cleared, Polling
    <3>6. PolicyStep
      <4>1. clipboardBefore = "empty"
        BY <1>3, <1>7, <3>1 DEF BeforeInv, Cleared, Polling
      <4>2. Policy!Primary \/ Policy!Types \/ Policy!Snapshot
        BY <1>4, <1>7, <3>1, <4>1 DEF Policy!Primary, Policy!Types, Policy!Snapshot, StepOf
      <4> QED
        BY <4>2 DEF PolicyStep, Policy!Next
    <3> QED
      BY <3>2, <3>3, <3>4, <3>5, <3>6 DEF CoreInv
  <2>3. CASE Saves(p, k, h, c)
    <3>1. /\ p \in {"clipboard-types", "clipboard-text"} /\ k \in {"text", "copied", "empty"}
          /\ clipboardBefore' = k /\ Await("clear-clipboard", h, c)
          /\ p = "clipboard-types" => k = "empty"
          /\ UNCHANGED <<pollTimer, restoreCancelled, restoreText, wanted, spurious>>
      BY <2>3 DEF Saves, verdict
    <3>2. "clear-clipboard" \in Helpers \ Collectors
      BY DEF Helpers, Doers, Collectors
    <3>3. /\ HelperTypes(helper') /\ CollectorTypes(collector') /\ RestoreInv'
          /\ captureStage' = "clear-clipboard" /\ captureStage' \in Stages
          /\ \A g \in Collectors : ~collector'[g].open
      BY <1>7, <3>1, <3>2, AwaitKeeps
    <3>4. CaptureTypes'
      BY <1>3, <1>4, <3>1, <3>3 DEF CaptureTypes
    <3>5. OpenInv'
      BY <1>3, <1>5, <1>7, <3>1, <3>3 DEF OpenInv
    <3>6. WantedInv' /\ BeforeInv'
      BY <1>3, <1>5, <1>7, <3>1, <3>3 DEF WantedInv, BeforeInv, Cleared, Polling
    <3>7. PolicyStep
      <4>1. CASE p = "clipboard-types"
        <5>1. Policy!Types
          BY <1>4, <1>7, <3>1, <3>3, <4>1 DEF Policy!Types, StepOf
        <5> QED
          BY <5>1 DEF PolicyStep, Policy!Next
      <4>2. CASE p = "clipboard-text"
        <5>1. Policy!Snapshot
          BY <1>4, <1>7, <3>1, <3>3, <4>2 DEF Policy!Snapshot, Policy!Contents, StepOf
        <5> QED
          BY <5>1 DEF PolicyStep, Policy!Next
      <4> QED
        BY <3>1, <4>1, <4>2
    <3> QED
      BY <3>3, <3>4, <3>5, <3>6, <3>7 DEF CoreInv
  <2>4. CASE Finds(p, h, c)
    <3>1. /\ p = "poll" /\ Await("restore", h, c)
          /\ restoreText' \in BOOLEAN /\ restoreCancelled' = FALSE
          /\ UNCHANGED <<pollTimer, clipboardBefore, wanted, spurious>>
      BY <2>4 DEF Finds, BeginRestore, verdict
    <3>2. "restore" \in Helpers \ Collectors
      BY Names
    <3>3. /\ HelperTypes(helper') /\ CollectorTypes(collector') /\ RestoreInv'
          /\ captureStage' = "restore" /\ captureStage' \in Stages
          /\ \A g \in Collectors : ~collector'[g].open
      BY <1>7, <3>1, <3>2, AwaitKeeps
    <3>4. ~pollTimer /\ pollAttempts > 0
      BY <1>3, <1>7, <3>1 DEF OpenInv
    <3>5. CaptureTypes'
      BY <1>3, <1>4, <3>1, <3>3 DEF CaptureTypes
    <3>6. OpenInv'
      BY <1>5, <3>1, <3>3, <3>4 DEF OpenInv
    <3>7. WantedInv' /\ BeforeInv'
      BY <1>3, <1>5, <1>7, <3>1, <3>3 DEF WantedInv, BeforeInv
    <3>8. Policy!PollEnds
      BY <1>4, <1>7, <3>1, <3>3, <3>4 DEF Policy!PollEnds, Policy!Restore, StepOf
    <3> QED
      BY <3>3, <3>5, <3>6, <3>7, <3>8 DEF CoreInv, PolicyStep, Policy!Next
  <2>5. CASE Retries(p, h, c)
    <3>1. /\ p = "poll" /\ pollTimer' = TRUE /\ Stay(h, c)
          /\ UNCHANGED <<captureStage, clipboardBefore, restoreCancelled, restoreText, wanted,
                         spurious>>
      BY <2>5 DEF Retries, saved, verdict
    <3>2. /\ HelperTypes(helper') /\ CollectorTypes(collector') /\ RestoreInv'
          /\ \A g \in Collectors : ~collector'[g].open
      BY <1>5, <1>7, <3>1, StayKeeps
    <3>3. CaptureTypes'
      BY <1>3, <1>4, <3>1, <3>2 DEF CaptureTypes
    <3>4. OpenInv'
      BY <1>5, <1>7, <3>1, <3>2 DEF OpenInv
    <3>5. WantedInv' /\ BeforeInv'
      BY <1>3, <3>1 DEF WantedInv, BeforeInv
    <3>6. UNCHANGED Policy!policy
      BY <1>4, <3>1 DEF Policy!policy, StepOf
    <3> QED
      BY <3>2, <3>3, <3>4, <3>5, <3>6 DEF CoreInv, PolicyStep
  <2> QED
    BY <1>7, <2>1, <2>2, <2>3, <2>4, <2>5 DEF Handled
<1> QED
  BY <1>2, <1>6, <1>7

(* The end of a doer: what its handler finds is ready. *)
LEMMA ExitedFacts ==
  ASSUME CoreInv, NEW p \in Doers, "exit" \in helper[p].due, Free(p)
  PROVE  /\ HelperTypes(Delivered(p, "exit", "missing"))
         /\ \A q \in Helpers \ {p} : Delivered(p, "exit", "missing")[q] = helper[q]
         /\ ~helper[p].again => Delivered(p, "exit", "missing")[p] = Off
         /\ captureStage = p => Ready(Delivered(p, "exit", "missing"), collector)
         /\ captureStage # p => p # "restore"
<1> DEFINE h == Delivered(p, "exit", "missing")
<1>1. HelperTypes(helper) /\ CollectorTypes(collector) /\ OpenInv /\ RestoreInv
  BY DEF CoreInv, CaptureTypes
<1>2. p \in Helpers /\ p \notin Collectors /\ Signals(p) = {"exit"}
  BY DEF Helpers, Doers, Collectors, Signals
<1>3. helper[p].due \ {"exit"} = {} /\ "missing" \in Outcomes /\ "exit" \in helper[p].due
  BY <1>1, <1>2 DEF HelperTypes, Outcomes
<1>4. /\ HelperTypes(h) /\ \A q \in Helpers \ {p} : h[q] = helper[q]
      /\ h[p] = IF helper[p].again THEN Started(p) ELSE Off
  BY <1>1, <1>2, <1>3, DeliveredFacts
<1>5. captureStage # p => p # "restore"
  BY <1>1, <1>3 DEF RestoreInv, RestoreIsExclusive, Running
<1>6. ASSUME captureStage = p PROVE Ready(h, collector)
  <2>1. \A q \in Collectors : ~collector[q].open
    BY <1>1, <1>2, <1>6 DEF OpenInv
  <2>2. \A q \in Collectors : h[q].due \in {{}, Signals(q)}
    BY <1>2, <1>4, Names DEF Free
  <2>3. h["restore"].due = {} /\ ~h["restore"].again
    <3>1. CASE p = "restore"
      BY <1>1, <1>2, <1>4, <3>1, StartedFacts DEF RestoreInv
    <3>2. CASE p # "restore"
      BY <1>1, <1>4, <1>6, <3>2, Names DEF RestoreInv, RestoreIsExclusive, Running
    <3> QED
      BY <3>1, <3>2
  <2> QED
    BY <1>1, <1>4, <2>1, <2>2, <2>3 DEF Ready
<1> QED
  BY <1>4, <1>5, <1>6

(* The end of a doer. *)
LEMMA ExitedStep ==
  ASSUME CoreInv, NEW p \in Doers, Exited(p)
  PROVE  CoreInv' /\ PolicyStep
<1> DEFINE h == Delivered(p, "exit", "missing")
<1>1. /\ HelperTypes(h) /\ \A q \in Helpers \ {p} : h[q] = helper[q]
      /\ captureStage = p => Ready(h, collector)
      /\ captureStage # p => p # "restore"
  BY ExitedFacts DEF Exited
<1>2. PICK ok \in BOOLEAN :
        IF captureStage = p
          THEN /\ CASE p = "clear-clipboard" -> ClearExited(ok, h)
                    [] p = "copy" -> CopyExited(ok, h)
                    [] p = "restore" -> RestoreExited(ok, h)
               /\ late' = (late \/ ~helper[p].young)
          ELSE Stay(h, collector) /\ UNCHANGED <<stage, saved, lost, verdict, late>>
  BY DEF Exited
<1>3. CaptureTypes /\ OpenInv /\ RestoreInv /\ WantedInv /\ BeforeInv
  BY DEF CoreInv
<1>4. UNCHANGED <<clipboard, copying, was>>
  BY DEF Exited, world
<1>5. /\ "poll" \in Collectors /\ p \notin Collectors
      /\ "restore" \in Helpers \ Collectors /\ "active-window" \in Helpers
  BY DEF Helpers, Doers, Collectors
<1>6. helper[p].young \in BOOLEAN
  BY <1>3, Names DEF CaptureTypes, HelperTypes, Processes
<1> HIDE DEF h
<1>7. CASE captureStage # p
  <2>1. helper' = h /\ collector' = collector
        /\ UNCHANGED <<captureStage, pollAttempts, pollTimer, clipboardBefore, restoreCancelled,
                       restoreText, lost, wanted, spurious, late>>
    BY <1>2, <1>7 DEF Stay, stage, saved, verdict
  <2>2. CaptureTypes'
    BY <1>1, <1>3, <1>4, <2>1 DEF CaptureTypes
  <2>3. OpenInv'
    <3>1. \A q \in Collectors : helper'[q] = helper[q]
      BY <1>1, <1>5, <2>1, Names
    <3> QED
      BY <1>3, <2>1, <3>1 DEF OpenInv, Paired
  <2>4. RestoreInv'
    BY <1>1, <1>3, <1>7, <2>1, Names DEF RestoreInv, RestoreIsExclusive, Running
  <2>5. WantedInv' /\ BeforeInv'
    BY <1>3, <2>1 DEF WantedInv, BeforeInv
  <2>6. UNCHANGED Policy!policy
    BY <2>1 DEF Policy!policy, StepOf
  <2> QED
    BY <2>2, <2>3, <2>4, <2>5, <2>6 DEF CoreInv, PolicyStep
<1>8. CASE captureStage = p
  <2>1. Ready(h, collector) /\ late' \in BOOLEAN
    BY <1>1, <1>2, <1>3, <1>6, <1>8 DEF CaptureTypes
  <2>2. CASE p = "clear-clipboard" /\ ok = TRUE
    <3>1. Await("active-window", h, collector)
          /\ UNCHANGED <<clipboardBefore, restoreCancelled, restoreText, pollAttempts, pollTimer,
                         lost, wanted, spurious>>
      BY <1>2, <1>8, <2>2 DEF ClearExited, saved, verdict
    <3>2. /\ HelperTypes(helper') /\ CollectorTypes(collector') /\ RestoreInv'
          /\ captureStage' = "active-window" /\ captureStage' \in Stages
          /\ \A q \in Collectors :
               collector'[q].open => q = "active-window" /\ Paired(helper', collector', q)
      BY <1>5, <2>1, <3>1, AwaitKeeps
    <3>3. CaptureTypes'
      BY <1>3, <1>4, <2>1, <3>1, <3>2 DEF CaptureTypes
    <3>4. OpenInv'
      BY <1>3, <1>5, <1>8, <2>2, <3>1, <3>2 DEF OpenInv
    <3>5. WantedInv' /\ BeforeInv'
      BY <1>3, <1>8, <2>2, <3>1, <3>2 DEF WantedInv, BeforeInv, Cleared, Polling
    <3>6. Policy!Clear
      BY <1>8, <2>2, <3>1, <3>2 DEF Policy!Clear, StepOf
    <3> QED
      BY <3>2, <3>3, <3>4, <3>5, <3>6 DEF CoreInv, PolicyStep, Policy!Next
  <2>3. CASE p = "copy" /\ ok = TRUE
    <3>1. /\ captureStage' = "poll" /\ pollAttempts' = 0 /\ pollTimer' = TRUE
          /\ Stay(h, collector)
          /\ UNCHANGED <<clipboardBefore, restoreCancelled, restoreText, lost, wanted, spurious>>
      BY <1>2, <1>8, <2>3 DEF CopyExited, saved, verdict
    <3>2. /\ HelperTypes(helper') /\ CollectorTypes(collector') /\ RestoreInv'
          /\ \A q \in Collectors : ~collector'[q].open
      BY <2>1, <3>1, StayKeeps
    <3>3. CaptureTypes'
      <4>1. 0 \in 0..MaxPolls
        BY PollsAssumption
      <4> QED
        BY <1>3, <1>4, <2>1, <3>1, <3>2, <4>1 DEF CaptureTypes, Stages, Helpers, Collectors
    <3>4. OpenInv'
      BY <1>5, <3>1, <3>2 DEF OpenInv
    <3>5. WantedInv' /\ BeforeInv'
      BY <1>3, <1>8, <2>3, <3>1 DEF WantedInv, BeforeInv, Cleared, Polling
    <3>6. Policy!Shortcut
      BY <1>8, <2>3, <3>1 DEF Policy!Shortcut, StepOf
    <3> QED
      BY <3>2, <3>3, <3>4, <3>5, <3>6 DEF CoreInv, PolicyStep, Policy!Next
  <2>4. CASE p \in {"clear-clipboard", "copy"} /\ ok = FALSE
    <3>1. /\ Await("restore", h, collector) /\ restoreText' = FALSE /\ restoreCancelled' = FALSE
          /\ UNCHANGED <<clipboardBefore, pollAttempts, pollTimer, lost, wanted, spurious>>
      BY <1>2, <1>8, <2>4 DEF ClearExited, CopyExited, BeginRestore, verdict
    <3>2. /\ HelperTypes(helper') /\ CollectorTypes(collector') /\ RestoreInv'
          /\ captureStage' = "restore" /\ captureStage' \in Stages
          /\ \A q \in Collectors : ~collector'[q].open
      BY <1>5, <2>1, <3>1, AwaitKeeps
    <3>3. CaptureTypes'
      BY <1>3, <1>4, <2>1, <3>1, <3>2 DEF CaptureTypes
    <3>4. OpenInv'
      BY <1>3, <1>5, <1>8, <2>4, <3>1, <3>2 DEF OpenInv
    <3>5. WantedInv' /\ BeforeInv'
      BY <1>3, <1>8, <2>4, <3>1, <3>2 DEF WantedInv, BeforeInv
    <3>6. CASE p = "clear-clipboard"
      BY <1>8, <3>1, <3>2, <3>3, <3>4, <3>5, <3>6 DEF CoreInv, PolicyStep, ClearFails
    <3>7. CASE p = "copy"
      <4>1. Policy!Shortcut
        BY <1>8, <3>1, <3>2, <3>7 DEF Policy!Shortcut, Policy!Restore, StepOf
      <4> QED
        BY <3>2, <3>3, <3>4, <3>5, <4>1 DEF CoreInv, PolicyStep, Policy!Next
    <3> QED
      BY <2>4, <3>6, <3>7
  <2>5. CASE p = "restore"
    <3>1. /\ Stay(h, collector) /\ captureStage' = "idle" /\ clipboardBefore' = "empty"
          /\ restoreCancelled' = FALSE /\ restoreText' = FALSE /\ lost' = (lost \/ ~ok)
          /\ \/ restoreCancelled /\ UNCHANGED <<wanted, spurious>>
             \/ /\ ~restoreCancelled
                /\ spurious' = (spurious \/ ~wanted) /\ wanted' = FALSE
          /\ UNCHANGED <<pollAttempts, pollTimer>>
      BY <1>2, <1>8, <2>5 DEF RestoreExited, FinishRestore, Answer, verdict
    <3>2. /\ HelperTypes(helper') /\ CollectorTypes(collector') /\ RestoreInv'
          /\ \A q \in Collectors : ~collector'[q].open
      BY <2>1, <3>1, StayKeeps
    <3>3. WantedInv' /\ BeforeInv'
      BY <1>3, <1>8, <2>5, <3>1 DEF WantedInv, BeforeInv
    <3>4. CaptureTypes'
      BY <1>3, <1>4, <2>1, <3>1, <3>2 DEF CaptureTypes, Stages
    <3>5. OpenInv'
      BY <1>3, <1>5, <1>8, <2>5, <3>1, <3>2 DEF OpenInv
    <3>6. Policy!Restored
      BY <1>8, <2>5, <3>1 DEF Policy!Restored, StepOf
    <3> QED
      BY <3>2, <3>3, <3>4, <3>5, <3>6 DEF CoreInv, PolicyStep, Policy!Next
  <2> QED
    BY <2>2, <2>3, <2>4, <2>5 DEF Doers
<1> QED
  BY <1>7, <1>8

(* The alarm of the poll timer. *)
LEMMA PollStep ==
  ASSUME CoreInv, PollTimerFires
  PROVE  CoreInv' /\ PolicyStep /\ Ready(helper, collector) /\ captureStage = "poll"
<1>1. CaptureTypes /\ OpenInv /\ RestoreInv /\ WantedInv /\ BeforeInv
  BY DEF CoreInv
<1>2. /\ pollTimer /\ pollTimer' = FALSE /\ captureStage = "poll" /\ Free("restore")
      /\ UNCHANGED <<clipboard, copying, was, lost, wanted, spurious, late>>
  BY <1>1 DEF PollTimerFires, OpenInv, world, verdict
<1>3. /\ "poll" \in Collectors /\ "poll" \in Helpers
      /\ "restore" \in Helpers /\ "restore" \notin Collectors
  BY DEF Helpers, Doers, Collectors
<1>4. Ready(helper, collector)
  <2>1. \A q \in Collectors : ~collector[q].open
    BY <1>1, <1>2 DEF OpenInv
  <2>2. \A q \in Collectors : helper[q].due \in {{}, Signals(q)}
    BY <1>2, <1>3 DEF Free
  <2> QED
    BY <1>1, <1>2, <2>1, <2>2 DEF Ready, CaptureTypes, RestoreInv, RestoreIsExclusive, Running
<1>5. CASE pollAttempts >= MaxPolls
  <2>1. /\ Await("restore", helper, collector) /\ restoreText' = FALSE /\ restoreCancelled' = FALSE
        /\ UNCHANGED <<pollAttempts, clipboardBefore>>
    BY <1>2, <1>5 DEF PollTimerFires, BeginRestore
  <2>2. /\ HelperTypes(helper') /\ CollectorTypes(collector') /\ RestoreInv'
        /\ captureStage' = "restore" /\ captureStage' \in Stages
        /\ \A q \in Collectors : ~collector'[q].open
    BY <1>3, <1>4, <2>1, AwaitKeeps
  <2>3. CaptureTypes'
    BY <1>1, <1>2, <2>1, <2>2 DEF CaptureTypes
  <2>4. OpenInv'
    BY <1>2, <1>3, <2>2 DEF OpenInv
  <2>5. WantedInv' /\ BeforeInv'
    BY <1>1, <1>2, <2>1, <2>2 DEF WantedInv, BeforeInv
  <2>6. pollAttempts = MaxPolls
    BY <1>1, <1>5, PollsAssumption DEF CaptureTypes
  <2>7. Policy!PollEnds
    BY <1>2, <2>1, <2>2, <2>6 DEF Policy!PollEnds, Policy!Restore, StepOf
  <2> QED
    BY <1>2, <1>4, <2>2, <2>3, <2>4, <2>5, <2>7 DEF CoreInv, PolicyStep, Policy!Next
<1>6. CASE ~(pollAttempts >= MaxPolls)
  <2>1. /\ Await("poll", helper, collector) /\ pollAttempts' = pollAttempts + 1
        /\ UNCHANGED <<clipboardBefore, restoreCancelled, restoreText>>
    BY <1>2, <1>6 DEF PollTimerFires, saved
  <2>2. /\ HelperTypes(helper') /\ CollectorTypes(collector') /\ RestoreInv'
        /\ captureStage' = "poll" /\ captureStage' \in Stages
        /\ \A q \in Collectors :
             collector'[q].open => q = "poll" /\ Paired(helper', collector', q)
    BY <1>3, <1>4, <2>1, AwaitKeeps
  <2>3. pollAttempts \in Nat /\ pollAttempts' \in 0..MaxPolls /\ pollAttempts < MaxPolls
        /\ pollAttempts' > 0
    BY <1>1, <1>6, <2>1, PollsAssumption DEF CaptureTypes
  <2>4. CaptureTypes'
    BY <1>1, <1>2, <2>1, <2>2, <2>3 DEF CaptureTypes
  <2>5. OpenInv'
    BY <1>2, <1>3, <2>2, <2>3 DEF OpenInv
  <2>6. WantedInv' /\ BeforeInv'
    BY <1>1, <1>2, <2>1, <2>2 DEF WantedInv, BeforeInv
  <2>7. Policy!Poll
    BY <1>2, <2>1, <2>2, <2>3 DEF Policy!Poll, StepOf
  <2> QED
    BY <1>2, <1>4, <2>2, <2>4, <2>5, <2>6, <2>7 DEF CoreInv, PolicyStep, Policy!Next
<1> QED
  BY <1>5, <1>6

(* Whoever cancels outside a restore leaves the helpers ready for what is next. *)
LEMMA CancelFacts ==
  ASSUME CoreInv, captureStage # "restore", Calm
  PROVE  Ready(Terminated, Outdated)
<1>1. HelperTypes(helper) /\ RestoreInv
  BY DEF CoreInv, CaptureTypes
<1>2. /\ HelperTypes(Terminated) /\ Terminated["restore"] = helper["restore"]
      /\ \A p \in Helpers : Terminated[p].due = helper[p].due
  BY <1>1, TerminatedFacts
<1>3. CollectorTypes(Outdated) /\ \A p \in Collectors : ~Outdated[p].open
  <2>1. Closed \in Slots /\ ~Closed.open
    BY DEF Closed, Slots, Results
  <2> QED
    BY <2>1 DEF Outdated, CollectorTypes
<1>4. \A p \in Collectors : Terminated[p].due \in {{}, Signals(p)}
  BY <1>2, Names DEF Calm, Free
<1>5. Terminated["restore"].due = {} /\ ~Terminated["restore"].again
  BY <1>1, <1>2 DEF RestoreInv, RestoreIsExclusive, Running
<1> QED
  BY <1>2, <1>3, <1>4, <1>5 DEF Ready

(* Canceling a capture that has cleared the clipboard. *)
LEMMA CancelStep ==
  ASSUME CoreInv, captureStage \in Cleared, Calm, CancelCleared, wanted' \in BOOLEAN,
         pollTimer' = FALSE, UNCHANGED <<pollAttempts, world, lost, spurious, late>>
  PROVE  CoreInv'
<1>1. CaptureTypes /\ OpenInv /\ RestoreInv /\ WantedInv /\ BeforeInv
  BY DEF CoreInv
<1>2. UNCHANGED <<clipboard, copying, was>>
  BY DEF world
<1>3. Ready(Terminated, Outdated)
  BY CancelFacts DEF Cleared, Polling
<1>4. /\ Await("restore", Terminated, Outdated) /\ restoreText' = FALSE /\ restoreCancelled' = TRUE
      /\ UNCHANGED clipboardBefore
  BY DEF CancelCleared, BeginRestore
<1>5. "poll" \in Collectors /\ "restore" \in Helpers /\ "restore" \notin Collectors
  BY DEF Helpers, Doers, Collectors
<1>6. /\ HelperTypes(helper') /\ CollectorTypes(collector') /\ RestoreInv'
      /\ captureStage' = "restore" /\ captureStage' \in Stages
      /\ \A q \in Collectors : ~collector'[q].open
  BY <1>3, <1>4, <1>5, AwaitKeeps
<1>7. CaptureTypes'
  BY <1>1, <1>2, <1>4, <1>6 DEF CaptureTypes
<1>8. OpenInv'
  BY <1>5, <1>6 DEF OpenInv
<1>9. WantedInv' /\ BeforeInv'
  BY <1>1, <1>4, <1>6 DEF WantedInv, BeforeInv
<1> QED
  BY <1>6, <1>7, <1>8, <1>9 DEF CoreInv

(* The user asks for a read. *)
LEMMA ReadStep ==
  ASSUME CoreInv, ReadSelection
  PROVE  CoreInv'
<1>1. CaptureTypes /\ OpenInv /\ RestoreInv /\ WantedInv /\ BeforeInv
  BY DEF CoreInv
<1>2. /\ captureStage # "restore" /\ Calm /\ pollTimer' = FALSE
      /\ wanted' = (captureStage \notin Cleared)
      /\ UNCHANGED <<pollAttempts, world, lost, spurious, late>>
  BY DEF ReadSelection
<1>3. CASE captureStage \in Cleared
  BY <1>2, <1>3, CancelStep DEF ReadSelection
<1>4. CASE captureStage \notin Cleared
  <2>1. Ready(Terminated, Outdated) /\ UNCHANGED <<clipboard, copying, was>>
    BY <1>2, CancelFacts DEF world
  <2>2. Await("primary-types", Terminated, Outdated) /\ Forgotten
    BY <1>4 DEF ReadSelection
  <2>3. /\ "poll" \in Collectors /\ "primary-types" \in Helpers
    BY DEF Helpers, Collectors
  <2>4. /\ HelperTypes(helper') /\ CollectorTypes(collector') /\ RestoreInv'
        /\ captureStage' = "primary-types" /\ captureStage' \in Stages
        /\ \A q \in Collectors :
             collector'[q].open => q = "primary-types" /\ Paired(helper', collector', q)
    BY <2>1, <2>2, <2>3, AwaitKeeps
  <2>5. CaptureTypes'
    BY <1>1, <1>2, <2>1, <2>2, <2>4 DEF CaptureTypes, Forgotten
  <2>6. OpenInv'
    BY <1>2, <2>3, <2>4 DEF OpenInv
  <2>7. WantedInv' /\ BeforeInv'
    BY <1>1, <1>2, <1>4, <2>2, <2>4 DEF WantedInv, BeforeInv, Forgotten
  <2> QED
    BY <2>4, <2>5, <2>6, <2>7 DEF CoreInv
<1> QED
  BY <1>3, <1>4

(* The user stops. *)
LEMMA StopStep ==
  ASSUME CoreInv, Stop
  PROVE  CoreInv'
<1>1. CaptureTypes /\ OpenInv /\ RestoreInv /\ WantedInv /\ BeforeInv
  BY DEF CoreInv
<1>2. /\ Calm /\ wanted' = FALSE
      /\ UNCHANGED <<pollAttempts, world, lost, spurious, late>>
  BY DEF Stop
<1>3. CASE captureStage = "restore"
  <2>1. /\ restoreCancelled' = TRUE /\ restoreText' = FALSE
        /\ UNCHANGED <<captureStage, pollTimer, clipboardBefore, collector, helper>>
    BY <1>3 DEF Stop, Cleared, Polling
  <2>2. CaptureTypes'
    BY <1>1, <1>2, <2>1 DEF CaptureTypes, world
  <2>3. OpenInv' /\ RestoreInv'
    BY <1>1, <1>2, <2>1 DEF OpenInv, Paired, RestoreInv, RestoreIsExclusive, Running
  <2>4. WantedInv' /\ BeforeInv'
    BY <1>1, <1>2, <1>3, <2>1 DEF WantedInv, BeforeInv
  <2> QED
    BY <2>2, <2>3, <2>4 DEF CoreInv
<1>4. CASE captureStage \in Cleared
  <2>1. CancelCleared /\ pollTimer' = FALSE
    BY <1>4 DEF Stop, Cleared, Polling
  <2> QED
    BY <1>2, <1>4, <2>1, CancelStep
<1>5. CASE captureStage \notin Cleared \union {"restore"}
  <2>1. captureStage' = "idle" /\ pollTimer' = FALSE /\ Stay(Terminated, Outdated) /\ Forgotten
    BY <1>5 DEF Stop
  <2>2. Ready(Terminated, Outdated) /\ UNCHANGED <<clipboard, copying, was>>
    BY <1>2, <1>5, CancelFacts DEF world
  <2>3. /\ HelperTypes(helper') /\ CollectorTypes(collector') /\ RestoreInv'
        /\ \A q \in Collectors : ~collector'[q].open
    BY <2>1, <2>2, StayKeeps
  <2>4. CaptureTypes'
    BY <1>1, <1>2, <2>1, <2>2, <2>3 DEF CaptureTypes, Forgotten, Stages
  <2>5. OpenInv'
    BY <2>1, <2>3 DEF OpenInv, Collectors
  <2>6. WantedInv' /\ BeforeInv'
    BY <1>1, <1>2, <2>1 DEF WantedInv, BeforeInv, Forgotten
  <2> QED
    BY <2>3, <2>4, <2>5, <2>6 DEF CoreInv
<1> QED
  BY <1>3, <1>4, <1>5

(* What a doer does changes that it has done it, and nothing else of the processes. *)
LEMMA ActsFacts ==
  ASSUME CoreInv, NEW p \in Doers, Acts(p)
  PROVE  /\ HelperTypes(helper')
         /\ helper'[p].due = helper[p].due /\ helper'[p].again = helper[p].again
         /\ helper'[p].killed = helper[p].killed
         /\ \A q \in Helpers \ {p} : helper'[q] = helper[q]
         /\ Running(p) /\ ~helper[p].killed
         /\ UNCHANGED <<stage, saved, collector, was, lost, verdict, late>>
<1>1. HelperTypes(helper) /\ p \in Helpers /\ p \notin Collectors
  BY Names DEF CoreInv, CaptureTypes
<1>2. helper[p] \in Processes /\ helper[p].due \subseteq Signals(p)
  BY <1>1 DEF HelperTypes
<1> DEFINE r == [helper[p] EXCEPT !.outcome = "done"]
<1>3. helper' = [helper EXCEPT ![p] = r]
  BY DEF Acts
<1>4. /\ r \in Processes /\ r.due = helper[p].due /\ r.again = helper[p].again
      /\ r.killed = helper[p].killed
  BY <1>2 DEF Processes, Outcomes
<1> HIDE DEF r
<1>5. helper' \in [Helpers -> Processes] /\ helper'[p] = r
      /\ \A q \in Helpers \ {p} : helper'[q] = helper[q]
  BY <1>1, <1>3, <1>4 DEF HelperTypes
<1>6. HelperTypes(helper')
  BY <1>1, <1>2, <1>4, <1>5, HelperUpdate, Names
<1> QED
  BY <1>4, <1>5, <1>6 DEF Acts, Running

(* The world. *)
LEMMA WorldStep ==
  ASSUME CoreInv, Clears \/ Sends \/ Restores \/ AppCopies
  PROVE  CoreInv' /\ PolicyStep
<1>1. CaptureTypes /\ OpenInv /\ RestoreInv /\ WantedInv /\ BeforeInv
  BY DEF CoreInv
<1>2. /\ HelperTypes(helper')
      /\ \A q \in Helpers : helper'[q].due = helper[q].due /\ helper'[q].again = helper[q].again
      /\ \A q \in Collectors : helper'[q] = helper[q]
      /\ UNCHANGED <<stage, saved, collector, was, lost, verdict, late>>
  <2>1. CASE AppCopies
    BY <1>1, <2>1 DEF AppCopies, CaptureTypes
  <2>2. ASSUME NEW p \in Doers, Acts(p)
        PROVE  /\ HelperTypes(helper')
               /\ \A q \in Helpers :
                    helper'[q].due = helper[q].due /\ helper'[q].again = helper[q].again
               /\ \A q \in Collectors : helper'[q] = helper[q]
               /\ UNCHANGED <<stage, saved, collector, was, lost, verdict, late>>
    BY <2>2, ActsFacts, Names
  <2> QED
    BY <2>1, <2>2 DEF Clears, Sends, Restores, Doers
<1>3. UNCHANGED <<captureStage, pollAttempts, pollTimer, clipboardBefore, restoreCancelled,
                  restoreText, collector, was, lost, wanted, spurious, late>>
  BY <1>2 DEF stage, saved, verdict
<1>4. clipboard' \in {"text", "copied", "empty", "rich"} /\ copying' \in BOOLEAN
  BY <1>1 DEF Clears, Sends, Restores, AppCopies, CaptureTypes
<1>5. CaptureTypes'
  BY <1>1, <1>2, <1>3, <1>4 DEF CaptureTypes
<1>6. OpenInv'
  BY <1>1, <1>2, <1>3 DEF OpenInv, Paired
<1>7. RestoreInv'
  BY <1>1, <1>2, <1>3, Names DEF RestoreInv, RestoreIsExclusive, Running
<1>8. WantedInv' /\ BeforeInv'
  BY <1>1, <1>3 DEF WantedInv, BeforeInv
<1>9. UNCHANGED Policy!policy
  BY <1>3 DEF Policy!policy, StepOf
<1> QED
  BY <1>5, <1>6, <1>7, <1>8, <1>9 DEF CoreInv, PolicyStep

(* Every step keeps the invariant and follows the policy. *)
LEMMA CoreStep == CoreInv /\ [Next]_vars => CoreInv' /\ PolicyStep
<1> SUFFICES ASSUME CoreInv, [Next]_vars PROVE CoreInv' /\ PolicyStep
  OBVIOUS
<1>1. CASE ReadSelection
  BY <1>1, ReadStep DEF PolicyStep
<1>2. CASE Stop
  BY <1>2, StopStep DEF PolicyStep
<1>3. CASE PollTimerFires
  BY <1>3, PollStep
<1>4. CASE \E p \in Collectors, s \in {"stream", "exit"} : Signal(p, s)
  BY <1>4, SignalStep
<1>5. CASE \E p \in Doers : Exited(p)
  BY <1>5, ExitedStep
<1>6. CASE Clears \/ Sends \/ Restores \/ AppCopies
  BY <1>6, WorldStep
<1>7. CASE UNCHANGED vars
  <2>1. UNCHANGED <<captureStage, pollAttempts, pollTimer, clipboardBefore, restoreCancelled,
                    restoreText, helper, collector, clipboard, copying, was, lost, wanted,
                    spurious,
                    late>>
    BY <1>7 DEF vars, stage, saved, world, verdict
  <2>2. CaptureTypes' /\ OpenInv' /\ RestoreInv' /\ WantedInv' /\ BeforeInv'
    BY <2>1 DEF CoreInv, CaptureTypes, OpenInv, Paired, RestoreInv, RestoreIsExclusive, Running,
       WantedInv, BeforeInv
  <2>3. UNCHANGED Policy!policy
    BY <2>1 DEF Policy!policy, StepOf
  <2> QED
    BY <2>2, <2>3 DEF CoreInv, PolicyStep
<1> QED
  BY <1>1, <1>2, <1>3, <1>4, <1>5, <1>6, <1>7 DEF Next

(* The invariant of a capture holds always. *)
THEOREM CoreSafe == Spec => []CoreInv
<1>1. CoreInv /\ [Next]_vars => CoreInv'
  BY CoreStep
<1> QED
  BY <1>1, CoreInit, PTL DEF Spec

(* Service.qml's capture: a canceled read submits no text and shows no     *)
(* notice, and a restore runs exactly while the capture waits for it,      *)
(* however many helpers linger and whatever they come to.                  *)
THEOREM CaptureSafe == Spec => []CaptureInv
<1>1. CoreInv => CaptureInv
  <2> SUFFICES ASSUME CoreInv PROVE CaptureInv
    OBVIOUS
  <2>1. TypeOK
    <3>1. \A p \in Helpers :
            helper[p] \in [due : SUBSET Signals(p), again : BOOLEAN, killed : BOOLEAN,
                           outcome : Outcomes, young : BOOLEAN]
      BY DEF CoreInv, CaptureTypes, HelperTypes, Processes
    <3> QED
      BY <3>1 DEF CoreInv, CaptureTypes, WantedInv, CollectorTypes, Slots, TypeOK
  <2> QED
    BY <2>1 DEF CoreInv, WantedInv, RestoreInv, StopIsFinal, CaptureInv
<1> QED
  BY <1>1, CoreSafe, PTL

(* "The live QML service implements this same sequence": a capture takes   *)
(* the steps of capture_selection in share/capture.py, in their order and  *)
(* with what they saved, except that it may be canceled and that it        *)
(* restores a clipboard that it could not clear.                           *)
THEOREM PolicyFollowed == Spec => FollowsPolicy
<1>1. CoreInv /\ [Next]_vars => PolicyStep
  BY CoreStep
<1> QED
  BY <1>1, CoreInit, CoreSafe, PTL DEF Spec, FollowsPolicy, PolicyStep

(***************************************************************************)
(* The clipboard, where no writer and no application is late.              *)
(***************************************************************************)

(* wl-copy --clear and wtype run in their own stages, unless they were     *)
(* asked to terminate, for which the restore waits.                        *)
DoerInv ==
  \A p \in {"clear-clipboard", "copy"} :
    /\ ~helper[p].again
    /\ Running(p) => \/ captureStage = p /\ ~helper[p].killed
                     \/ captureStage = "restore" /\ helper[p].killed

(* The clipboard is as it was until it is saved, what is saved is what it  *)
(* was, and once that is put back it is so again.                          *)
ContentInv ==
  ~lost =>
    /\ captureStage \notin Cleared \union {"restore"} => clipboard = was
    /\ captureStage \in Cleared \union {"restore"} => clipboardBefore = was
    /\ captureStage = "restore" /\ helper["restore"].outcome = "done" => clipboard = was
    /\ captureStage = "clipboard-text" => was # "rich"
    /\ \A p \in {"clipboard-types", "clipboard-text"} :
         collector[p].open => helper[p].outcome \in {"missing", "fail", "over", was}

FullInv == CoreInv /\ DoerInv /\ ContentInv

(* Neither a clear nor a copy runs among the processes. *)
Quiet(h) == \A p \in {"clear-clipboard", "copy"} : h[p].due = {} /\ ~h[p].again

(* A stage that begins when neither runs. *)
LEMMA QuietAwait ==
  ASSUME NEW h, NEW c, Ready(h, c), Quiet(h), NEW p \in Helpers, Await(p, h, c)
  PROVE  DoerInv'
<1> SUFFICES ASSUME NEW q \in {"clear-clipboard", "copy"}
             PROVE  /\ ~helper'[q].again
                    /\ Running(q)' => captureStage' = q /\ ~helper'[q].killed
  BY DEF DoerInv
<1>1. /\ captureStage' = p /\ \A g \in Helpers \ {p} : helper'[g] = h[g]
      /\ h[p].due = {} => helper'[p] = Started(p)
  BY AwaitKeeps
<1>2. q \in Helpers /\ h[q].due = {} /\ ~h[q].again
  BY DEF Quiet, Helpers, Doers
<1>3. CASE q = p
  BY <1>1, <1>2, <1>3, StartedFacts
<1>4. CASE q # p
  BY <1>1, <1>2, <1>4 DEF Running
<1> QED
  BY <1>3, <1>4

(* In a stage of neither none of them runs. *)
LEMMA QuietStage ==
  ASSUME DoerInv, captureStage \notin {"clear-clipboard", "copy", "restore"}
  PROVE  Quiet(helper)
BY DEF DoerInv, Quiet, Running

(* What a collected helper says of the clipboard is what that was. *)
LEMMA PrintsFacts ==
  ASSUME CoreInv, ContentInv, ~lost, NEW p \in {"clipboard-types", "clipboard-text"},
         collector[p].open, NEW k \in Kinds,
         k = helper[p].outcome \/ (helper[p].outcome = "missing" /\ k \in Prints(p))
  PROVE  k \in {"fail", "over", was}
<1>1. p \in Collectors
  BY DEF Collectors
<1>2. captureStage = p
  BY <1>1 DEF CoreInv, OpenInv
<1>3. clipboard = was /\ (p = "clipboard-text" => was # "rich")
      /\ helper[p].outcome \in {"missing", "fail", "over", was}
  BY <1>2 DEF ContentInv, Cleared, Polling
<1>4. Prints(p) \subseteq {"fail", "over", was}
  BY <1>3 DEF Prints
<1> QED
  BY <1>3, <1>4 DEF Kinds

(* A signal of a collected helper. *)
LEMMA SignalContent ==
  ASSUME CoreInv, DoerInv, ContentInv,
         NEW p \in Collectors, NEW s \in {"stream", "exit"}, Signal(p, s)
  PROVE  DoerInv' /\ ContentInv'
<1>1. PICK k \in Kinds : \E h, c :
        /\ k = helper[p].outcome \/ (helper[p].outcome = "missing" /\ k \in Prints(p))
        /\ h[p].outcome \in {k, "missing"}
        /\ \A q \in Helpers \ {p} : h[q] = helper[q]
        /\ \/ /\ Ready(h, c) /\ captureStage = p /\ collector[p].open /\ Handled(p, k, h, c)
           \/ Collected(h)
        /\ UNCHANGED <<pollAttempts, world, lost>>
  BY SignalCases
<1>2. PICK h, c :
        /\ k = helper[p].outcome \/ (helper[p].outcome = "missing" /\ k \in Prints(p))
        /\ h[p].outcome \in {k, "missing"}
        /\ \A q \in Helpers \ {p} : h[q] = helper[q]
        /\ \/ /\ Ready(h, c) /\ captureStage = p /\ collector[p].open /\ Handled(p, k, h, c)
           \/ Collected(h)
        /\ UNCHANGED <<pollAttempts, world, lost>>
  BY <1>1
<1>3. UNCHANGED <<clipboard, was, lost>>
  BY <1>2 DEF world
<1>4. /\ "clear-clipboard" \in Helpers \ {p} /\ "copy" \in Helpers \ {p}
      /\ "restore" \in Helpers \ {p}
      /\ p \notin {"clear-clipboard", "copy", "restore", "idle"}
      /\ "clipboard-types" \in Collectors /\ "clipboard-text" \in Collectors
  BY DEF Helpers, Doers, Collectors
<1>5. ASSUME ~lost, p \in {"clipboard-types", "clipboard-text"}, collector[p].open
      PROVE  k \in {"fail", "over", was}
  BY <1>2, <1>5, PrintsFacts
<1>6. CASE Collected(h)
  <2>1. helper' = h /\ UNCHANGED <<captureStage, clipboardBefore>>
        /\ \A q \in Collectors : collector'[q].open => collector[q].open
    BY <1>6 DEF Collected, saved
  <2>2. DoerInv'
    BY <1>2, <1>4, <2>1 DEF DoerInv, Running
  <2>3. ASSUME ~lost, NEW q \in {"clipboard-types", "clipboard-text"}, collector'[q].open
        PROVE  helper'[q].outcome \in {"missing", "fail", "over", was}
    <3>1. collector[q].open
      BY <1>4, <2>1, <2>3
    <3>2. CASE q = p
      BY <1>2, <1>5, <2>1, <2>3, <3>1, <3>2
    <3>3. CASE q # p
      <4>1. helper'[q] = helper[q]
        BY <1>2, <1>4, <2>1, <3>3, Names
      <4> QED
        BY <2>3, <3>1, <4>1 DEF ContentInv
    <3> QED
      BY <3>2, <3>3
  <2>4. helper'["restore"] = helper["restore"]
    BY <1>2, <1>4, <2>1
  <2>5. ContentInv'
    BY <1>3, <2>1, <2>3, <2>4 DEF ContentInv
  <2> QED
    BY <2>2, <2>5
<1>7. CASE Ready(h, c) /\ captureStage = p /\ collector[p].open /\ Handled(p, k, h, c)
  <2>1. Quiet(helper)
    BY <1>4, <1>7, QuietStage
  <2>2. Quiet(h)
    BY <1>2, <1>4, <2>1 DEF Quiet
  <2>3. ~lost =>
          /\ captureStage \notin Cleared => clipboard = was
          /\ captureStage \in Cleared => clipboardBefore = was
    BY <1>4, <1>7 DEF ContentInv
  <2>4. CASE GoesOn(p, k, h, c)
    <3>1. PICK q \in Helpers :
            /\ <<p, q>> \in Onward /\ Await(q, h, c) /\ UNCHANGED clipboardBefore
            /\ q = "clipboard-text" => k \notin {"rich", "fail", "over"}
      BY <2>4 DEF GoesOn, saved
    <3>2. /\ captureStage' = q
          /\ \A g \in Collectors : collector'[g].open => g = q
          /\ q \in Collectors => helper'[q].outcome = "missing"
      BY <1>7, <3>1, AwaitKeeps
    <3>3. \/ p \in {"primary-types", "primary-text"} /\ q \in {"primary-text", "clipboard-types"}
          \/ p = "clipboard-types" /\ q = "clipboard-text"
          \/ p = "active-window" /\ q = "copy"
      BY <3>1 DEF Onward
    <3>4. DoerInv'
      BY <1>7, <2>2, <3>1, QuietAwait
    <3>5. ~lost /\ q = "clipboard-text" => was # "rich"
      BY <1>5, <1>7, <3>1, <3>3
    <3>6. ContentInv'
      BY <1>3, <1>4, <1>7, <2>3, <3>1, <3>2, <3>3, <3>5 DEF ContentInv, Cleared, Polling
    <3> QED
      BY <3>4, <3>6
  <2>5. CASE Ends(p, h, c)
    <3>1. captureStage' = "idle" /\ Stay(h, c) /\ UNCHANGED clipboardBefore
          /\ p \in {"primary-text", "clipboard-types", "clipboard-text"}
      BY <2>5 DEF Ends, Finish, Answer, saved
    <3>2. helper' = h /\ \A q \in Collectors : ~collector'[q].open
      BY <1>7, <3>1, StayKeeps DEF Stay
    <3>3. DoerInv'
      BY <2>2, <3>2 DEF DoerInv, Quiet, Running
    <3>4. ContentInv'
      BY <1>3, <1>4, <1>7, <2>3, <3>1, <3>2 DEF ContentInv, Cleared, Polling
    <3> QED
      BY <3>3, <3>4
  <2>6. CASE Saves(p, k, h, c)
    <3>1. /\ p \in {"clipboard-types", "clipboard-text"} /\ k \in {"text", "copied", "empty"}
          /\ clipboardBefore' = k /\ Await("clear-clipboard", h, c)
      BY <2>6 DEF Saves
    <3>2. /\ captureStage' = "clear-clipboard" /\ \A g \in Collectors : ~collector'[g].open
      BY <1>4, <1>7, <3>1, AwaitKeeps DEF Collectors
    <3>3. DoerInv'
      BY <1>4, <1>7, <2>2, <3>1, QuietAwait
    <3>4. ~lost => k = was
      BY <1>5, <1>7, <3>1
    <3>5. ContentInv'
      BY <1>3, <1>4, <3>1, <3>2, <3>4 DEF ContentInv, Cleared, Polling
    <3> QED
      BY <3>3, <3>5
  <2>7. CASE Finds(p, h, c)
    <3>1. p = "poll" /\ Await("restore", h, c) /\ UNCHANGED clipboardBefore
      BY <2>7 DEF Finds, BeginRestore
    <3>2. /\ captureStage' = "restore" /\ \A g \in Collectors : ~collector'[g].open
          /\ h["restore"].due = {} => helper'["restore"] = Started("restore")
      BY <1>4, <1>7, <3>1, AwaitKeeps, Names
    <3>3. helper'["restore"].outcome = "missing"
      BY <1>4, <1>7, <3>2, StartedFacts DEF Ready
    <3>4. DoerInv'
      BY <1>4, <1>7, <2>2, <3>1, QuietAwait
    <3>5. ContentInv'
      BY <1>3, <1>4, <1>7, <2>3, <3>1, <3>2, <3>3 DEF ContentInv, Cleared, Polling
    <3> QED
      BY <3>4, <3>5
  <2>8. CASE Retries(p, h, c)
    <3>1. p = "poll" /\ Stay(h, c) /\ UNCHANGED <<captureStage, clipboardBefore>>
      BY <2>8 DEF Retries, saved
    <3>2. helper' = h /\ \A q \in Collectors : ~collector'[q].open
      BY <1>4, <1>7, <3>1, StayKeeps DEF Stay
    <3>3. DoerInv'
      BY <2>2, <3>2 DEF DoerInv, Quiet, Running
    <3>4. ContentInv'
      BY <1>3, <1>4, <1>7, <2>3, <3>1, <3>2 DEF ContentInv
    <3> QED
      BY <3>3, <3>4
  <2> QED
    BY <1>7, <2>4, <2>5, <2>6, <2>7, <2>8 DEF Handled
<1> QED
  BY <1>2, <1>6, <1>7

(* A restore that begins, of what was saved. *)
LEMMA RestoreContent ==
  ASSUME ContentInv, captureStage \in Cleared, NEW h, NEW c, Ready(h, c), Await("restore", h, c),
         UNCHANGED <<clipboardBefore, was, lost>>
  PROVE  ContentInv'
<1>1. /\ captureStage' = "restore" /\ \A g \in Collectors : ~collector'[g].open
      /\ h["restore"].due = {} => helper'["restore"] = Started("restore")
  BY Names, AwaitKeeps
<1>2. helper'["restore"].outcome = "missing"
  BY <1>1, StartedFacts, Names DEF Ready
<1>3. "clipboard-types" \in Collectors /\ "clipboard-text" \in Collectors
  BY DEF Collectors
<1> QED
  BY <1>1, <1>2, <1>3 DEF ContentInv

(* The end of a doer; the restore ends when those that were terminated have. *)
LEMMA ExitedContent ==
  ASSUME LateKills = FALSE, CoreInv, DoerInv, ContentInv, NEW p \in Doers, Exited(p)
  PROVE  DoerInv' /\ ContentInv'
<1> DEFINE h == Delivered(p, "exit", "missing")
<1>1. /\ \A q \in Helpers \ {p} : h[q] = helper[q]
      /\ ~helper[p].again => h[p] = Off
      /\ captureStage = p => Ready(h, collector)
      /\ captureStage # p => p # "restore"
  BY ExitedFacts DEF Exited
<1>2. PICK ok \in BOOLEAN :
        /\ ok => helper[p].outcome = "done"
        /\ p = "restore" => \A q \in Doers : ~helper[q].killed
        /\ IF captureStage = p
             THEN /\ CASE p = "clear-clipboard" -> ClearExited(ok, h)
                       [] p = "copy" -> CopyExited(ok, h)
                       [] p = "restore" -> RestoreExited(ok, h)
                  /\ late' = (late \/ ~helper[p].young)
             ELSE Stay(h, collector) /\ UNCHANGED <<stage, saved, lost, verdict, late>>
  BY DEF Exited
<1>3. UNCHANGED <<clipboard, was>>
  BY DEF Exited, world
<1>4. /\ Off.due = {} /\ ~Off.again /\ p \in Helpers
      /\ {"clear-clipboard", "copy", "restore"} = Doers /\ Doers \subseteq Helpers
      /\ "clipboard-types" \in Helpers /\ "clipboard-text" \in Helpers
      /\ "clipboard-types" \in Collectors /\ "clipboard-text" \in Collectors
      /\ "clipboard-types" # p /\ "clipboard-text" # p
      /\ "active-window" \in Helpers
      /\ "active-window" \notin {"clipboard-types", "clipboard-text"}
  BY Names, StartedFacts DEF Helpers, Doers, Collectors
<1> HIDE DEF h
<1>5. CASE captureStage # p
  <2>1. /\ helper' = h /\ collector' = collector /\ p \in {"clear-clipboard", "copy"}
        /\ UNCHANGED <<captureStage, clipboardBefore, lost>>
    BY <1>1, <1>2, <1>4, <1>5 DEF Stay, stage, saved
  <2>2. h[p] = Off
    BY <1>1, <2>1 DEF DoerInv
  <2>3. DoerInv'
    BY <1>1, <1>4, <2>1, <2>2 DEF DoerInv, Running
  <2>4. ContentInv'
    BY <1>1, <1>3, <1>4, <2>1 DEF ContentInv
  <2> QED
    BY <2>3, <2>4
<1>6. CASE captureStage = p /\ p = "restore"
  <2>1. /\ Stay(h, collector) /\ captureStage' = "idle" /\ lost' = (lost \/ ~ok)
    BY <1>2, <1>6 DEF RestoreExited, FinishRestore, Answer
  <2>2. helper' = h /\ \A q \in Collectors : ~collector'[q].open
    BY <1>1, <1>6, <2>1, StayKeeps DEF Stay
  <2>3. Quiet(h)
    BY <1>1, <1>2, <1>4, <1>6 DEF DoerInv, Quiet, Running
  <2>4. DoerInv'
    BY <2>2, <2>3 DEF DoerInv, Quiet, Running
  <2>5. ~lost' => clipboard = was
    BY <1>2, <1>6, <2>1 DEF ContentInv
  <2>6. ContentInv'
    BY <1>3, <1>4, <2>1, <2>2, <2>5 DEF ContentInv, Cleared, Polling
  <2> QED
    BY <2>4, <2>6
<1>7. CASE captureStage = p /\ p \in {"clear-clipboard", "copy"}
  <2>1. h[p] = Off /\ Ready(h, collector) /\ captureStage \in Cleared
    BY <1>1, <1>7 DEF DoerInv, Cleared, Polling
  <2>2. Quiet(h)
    BY <1>1, <1>4, <1>7, <2>1 DEF DoerInv, Quiet, Running
  <2>3. CASE p = "clear-clipboard" /\ ok = TRUE
    <3>1. Await("active-window", h, collector) /\ UNCHANGED <<clipboardBefore, lost>>
      BY <1>2, <1>7, <2>3 DEF ClearExited, saved
    <3>2. /\ captureStage' = "active-window"
          /\ \A g \in Collectors : collector'[g].open => g = "active-window"
      BY <1>4, <2>1, <3>1, AwaitKeeps
    <3>3. DoerInv'
      BY <1>4, <2>1, <2>2, <3>1, QuietAwait
    <3>4. ContentInv'
      BY <1>3, <1>4, <2>1, <3>1, <3>2 DEF ContentInv, Cleared, Polling
    <3> QED
      BY <3>3, <3>4
  <2>4. CASE p = "copy" /\ ok = TRUE
    <3>1. captureStage' = "poll" /\ Stay(h, collector) /\ UNCHANGED <<clipboardBefore, lost>>
      BY <1>2, <1>7, <2>4 DEF CopyExited, saved
    <3>2. helper' = h /\ \A q \in Collectors : ~collector'[q].open
      BY <2>1, <3>1, StayKeeps DEF Stay
    <3>3. DoerInv'
      BY <2>2, <3>2 DEF DoerInv, Quiet, Running
    <3>4. ContentInv'
      BY <1>3, <1>4, <2>1, <3>1, <3>2 DEF ContentInv, Cleared, Polling
    <3> QED
      BY <3>3, <3>4
  <2>5. CASE ok = FALSE
    <3>1. Await("restore", h, collector) /\ UNCHANGED <<clipboardBefore, lost>>
      BY <1>2, <1>7, <2>5 DEF ClearExited, CopyExited, BeginRestore
    <3>2. DoerInv'
      BY <1>4, <2>1, <2>2, <3>1, QuietAwait
    <3>3. ContentInv'
      BY <1>3, <2>1, <3>1, RestoreContent
    <3> QED
      BY <3>2, <3>3
  <2> QED
    BY <1>7, <2>3, <2>4, <2>5
<1> QED
  BY <1>4, <1>5, <1>6, <1>7

(* The alarm of the poll timer. *)
LEMMA PollContent ==
  ASSUME CoreInv, DoerInv, ContentInv, PollTimerFires
  PROVE  DoerInv' /\ ContentInv'
<1>1. /\ Ready(helper, collector) /\ captureStage = "poll" /\ captureStage \in Cleared
      /\ UNCHANGED <<clipboard, was, lost>>
  BY PollStep DEF PollTimerFires, world, Cleared, Polling
<1>2. Quiet(helper)
  BY <1>1, QuietStage
<1>3. /\ "poll" \in Helpers /\ "restore" \in Helpers
      /\ "clipboard-types" \in Collectors /\ "clipboard-text" \in Collectors
  BY DEF Helpers, Doers, Collectors
<1>4. CASE pollAttempts >= MaxPolls
  <2>1. Await("restore", helper, collector) /\ UNCHANGED clipboardBefore
    BY <1>1, <1>4 DEF PollTimerFires, BeginRestore
  <2> QED
    BY <1>1, <1>2, <1>3, <2>1, QuietAwait, RestoreContent
<1>5. CASE ~(pollAttempts >= MaxPolls)
  <2>1. Await("poll", helper, collector) /\ UNCHANGED clipboardBefore
    BY <1>1, <1>5 DEF PollTimerFires, saved
  <2>2. captureStage' = "poll" /\ \A g \in Collectors : collector'[g].open => g = "poll"
    BY <1>1, <1>3, <2>1, AwaitKeeps
  <2>3. ContentInv'
    BY <1>1, <1>3, <2>1, <2>2 DEF ContentInv, Cleared, Polling
  <2> QED
    BY <1>1, <1>2, <1>3, <2>1, <2>3, QuietAwait
<1> QED
  BY <1>4, <1>5

(* The user: what was cleared is restored, what was terminated is waited for. *)
LEMMA UserContent ==
  ASSUME CoreInv, DoerInv, ContentInv, ReadSelection \/ Stop
  PROVE  DoerInv' /\ ContentInv'
<1>1. Calm /\ UNCHANGED <<clipboard, was, lost>>
  BY DEF ReadSelection, Stop, world
<1>2. /\ "restore" \in Helpers /\ "primary-types" \in Helpers
      /\ "clear-clipboard" \in Helpers \ {"restore"} /\ "copy" \in Helpers \ {"restore"}
      /\ "clipboard-types" \in Collectors /\ "clipboard-text" \in Collectors
  BY DEF Helpers, Doers, Collectors
<1>3. /\ HelperTypes(Terminated)
      /\ \A p \in Helpers :
           /\ Terminated[p].due = helper[p].due
           /\ ~Running(p) => Terminated[p] = helper[p]
           /\ Running(p) /\ p # "restore" => Terminated[p].killed /\ ~Terminated[p].again
  BY TerminatedFacts DEF CoreInv, CaptureTypes
<1>4. CASE captureStage = "restore"
  <2>1. UNCHANGED <<captureStage, clipboardBefore, collector, helper>>
    BY <1>4 DEF ReadSelection, Stop, Cleared, Polling
  <2> QED
    BY <1>1, <2>1 DEF DoerInv, ContentInv, Running
<1>5. CASE captureStage \in Cleared
  <2>1. /\ Await("restore", Terminated, Outdated) /\ UNCHANGED clipboardBefore
        /\ captureStage # "restore"
    BY <1>5 DEF ReadSelection, Stop, CancelCleared, BeginRestore, Cleared, Polling
  <2>2. Ready(Terminated, Outdated)
    BY <1>1, <2>1, CancelFacts
  <2>3. captureStage' = "restore" /\ \A q \in Helpers \ {"restore"} : helper'[q] = Terminated[q]
    BY <1>2, <2>1, <2>2, AwaitKeeps
  <2>4. DoerInv'
    BY <1>2, <1>3, <2>3 DEF DoerInv, Running
  <2>5. ContentInv'
    BY <1>1, <1>5, <2>1, <2>2, RestoreContent
  <2> QED
    BY <2>4, <2>5
<1>6. CASE captureStage \notin Cleared \union {"restore"}
  <2>1. Ready(Terminated, Outdated)
    BY <1>1, <1>6, CancelFacts
  <2>2. Quiet(helper)
    BY <1>6, QuietStage DEF Cleared, Polling
  <2>3. Quiet(Terminated)
    BY <1>2, <1>3, <2>2 DEF Quiet, Running
  <2>4. CASE ReadSelection
    <3>1. Await("primary-types", Terminated, Outdated)
      BY <1>6, <2>4 DEF ReadSelection
    <3>2. /\ captureStage' = "primary-types"
          /\ \A g \in Collectors : collector'[g].open => g = "primary-types"
      BY <1>2, <2>1, <3>1, AwaitKeeps
    <3>3. DoerInv'
      BY <1>2, <2>1, <2>3, <3>1, QuietAwait
    <3>4. ContentInv'
      BY <1>1, <1>2, <1>6, <3>2 DEF ContentInv, Cleared, Polling
    <3> QED
      BY <3>3, <3>4
  <2>5. CASE Stop
    <3>1. captureStage' = "idle" /\ Stay(Terminated, Outdated)
      BY <1>6, <2>5 DEF Stop
    <3>2. helper' = Terminated /\ \A q \in Collectors : ~collector'[q].open
      BY <2>1, <3>1, StayKeeps DEF Stay
    <3>3. DoerInv'
      BY <2>3, <3>2 DEF DoerInv, Quiet, Running
    <3>4. ContentInv'
      BY <1>1, <1>2, <1>6, <3>1, <3>2 DEF ContentInv, Cleared, Polling
    <3> QED
      BY <3>3, <3>4
  <2> QED
    BY <2>4, <2>5
<1> QED
  BY <1>4, <1>5, <1>6

(* The world: only a doer that is not terminated does anything. *)
LEMMA WorldContent ==
  ASSUME LateCopies = FALSE, CoreInv, DoerInv, ContentInv,
         Clears \/ Sends \/ Restores \/ AppCopies
  PROVE  DoerInv' /\ ContentInv'
<1>1. /\ Doers = {"clear-clipboard", "copy", "restore"} /\ Doers \subseteq Helpers
      /\ \A q \in {"clipboard-types", "clipboard-text"} : q \in Helpers /\ q \notin Doers
  BY DEF Helpers, Doers, Collectors
<1>2. ASSUME NEW p \in Doers, Acts(p)
      PROVE  /\ DoerInv' /\ Running(p) /\ ~helper[p].killed
             /\ \A q \in Helpers \ {p} : helper'[q] = helper[q]
             /\ UNCHANGED <<captureStage, clipboardBefore, collector, was, lost>>
  <2>1. /\ helper'[p].due = helper[p].due /\ helper'[p].again = helper[p].again
        /\ helper'[p].killed = helper[p].killed
        /\ \A q \in Helpers \ {p} : helper'[q] = helper[q]
        /\ Running(p) /\ ~helper[p].killed
        /\ UNCHANGED <<captureStage, clipboardBefore, collector, was, lost>>
    BY <1>2, ActsFacts DEF stage, saved
  <2>2. DoerInv'
    BY <1>1, <2>1 DEF DoerInv, Running
  <2> QED
    BY <2>1, <2>2
<1>3. CASE Clears
  <2>1. /\ DoerInv' /\ captureStage = "clear-clipboard"
        /\ UNCHANGED <<captureStage, clipboardBefore, collector, was, lost>>
        /\ \A q \in Helpers \ {"clear-clipboard"} : helper'[q] = helper[q]
    BY <1>1, <1>2, <1>3 DEF Clears, DoerInv
  <2>2. ContentInv'
    BY <1>1, <2>1 DEF ContentInv, Cleared, Polling
  <2> QED
    BY <2>1, <2>2
<1>4. CASE Sends
  <2>1. /\ DoerInv' /\ UNCHANGED <<captureStage, clipboardBefore, collector, was, lost, clipboard>>
        /\ \A q \in Helpers \ {"copy"} : helper'[q] = helper[q]
    BY <1>1, <1>2, <1>4 DEF Sends
  <2>2. ContentInv'
    BY <1>1, <2>1 DEF ContentInv
  <2> QED
    BY <2>1, <2>2
<1>5. CASE Restores
  <2>1. /\ DoerInv' /\ captureStage = "restore" /\ clipboard' = clipboardBefore
        /\ UNCHANGED <<captureStage, clipboardBefore, collector, was, lost>>
        /\ \A q \in Helpers \ {"restore"} : helper'[q] = helper[q]
    BY <1>1, <1>2, <1>5 DEF Restores, CoreInv, RestoreInv, RestoreIsExclusive
  <2>2. ContentInv'
    BY <1>1, <2>1 DEF ContentInv
  <2> QED
    BY <2>1, <2>2
<1>6. CASE AppCopies
  <2>1. /\ UNCHANGED <<captureStage, clipboardBefore, collector, helper, was, lost>>
        /\ UNCHANGED clipboard \/ captureStage \in Polling
    BY <1>6 DEF AppCopies, stage, saved
  <2>2. DoerInv'
    BY <2>1 DEF DoerInv, Running
  <2>3. ContentInv'
    BY <2>1 DEF ContentInv, Cleared, Polling
  <2> QED
    BY <2>2, <2>3
<1> QED
  BY <1>3, <1>4, <1>5, <1>6

(* Service.qml gives the clipboard back: whenever no capture is under way  *)
(* it is what it was before the first one, unless wl-copy has failed,      *)
(* wherever a read or a stop cut a capture short.  This is where neither   *)
(* an application answers when polling is over nor a writer that is asked  *)
(* to terminate outlives the restore.                                      *)
THEOREM ClipboardSafe ==
  ASSUME LateCopies = FALSE, LateKills = FALSE
  PROVE  Spec => []ClipboardRestored
<1>1. Init => FullInv
  <2> SUFFICES ASSUME Init PROVE FullInv
    OBVIOUS
  <2>1. Off.due = {} /\ ~Off.again
    BY Names, StartedFacts
  <2>2. \A p \in {"clear-clipboard", "copy"} : helper[p] = Off
    BY DEF Init, Helpers, Doers
  <2>3. \A p \in {"clipboard-types", "clipboard-text"} : ~collector[p].open
    BY DEF Init, Collectors, Closed
  <2>4. DoerInv
    BY <2>1, <2>2 DEF DoerInv, Running
  <2>5. ContentInv
    BY <2>3 DEF Init, ContentInv, Cleared, Polling
  <2> QED
    BY <2>4, <2>5, CoreInit DEF FullInv
<1>2. FullInv /\ [Next]_vars => FullInv'
  <2> SUFFICES ASSUME CoreInv, DoerInv, ContentInv, [Next]_vars PROVE DoerInv' /\ ContentInv'
    BY CoreStep DEF FullInv
  <2>1. CASE ReadSelection \/ Stop
    BY <2>1, UserContent
  <2>2. CASE PollTimerFires
    BY <2>2, PollContent
  <2>3. CASE \E p \in Collectors, s \in {"stream", "exit"} : Signal(p, s)
    BY <2>3, SignalContent
  <2>4. CASE \E p \in Doers : Exited(p)
    BY <2>4, ExitedContent
  <2>5. CASE Clears \/ Sends \/ Restores \/ AppCopies
    BY <2>5, WorldContent
  <2>6. CASE UNCHANGED vars
    <3>1. UNCHANGED <<captureStage, clipboardBefore, collector, helper, clipboard, was, lost>>
      BY <2>6 DEF vars, stage, saved, world
    <3> QED
      BY <3>1 DEF DoerInv, ContentInv, Running
  <2> QED
    BY <2>1, <2>2, <2>3, <2>4, <2>5, <2>6 DEF Next
<1>3. FullInv => ClipboardRestored
  BY DEF FullInv, ContentInv, ClipboardRestored, Cleared, Polling
<1> QED
  BY <1>1, <1>2, <1>3, PTL DEF Spec
=============================================================================
