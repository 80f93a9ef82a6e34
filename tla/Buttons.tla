------------------------------- MODULE Buttons -------------------------------
(***************************************************************************)
(* A button from its pin to the screen that reacts to it                   *)
(* (src/src/board/buttons.cpp, the loop of src/src/main.cpp): a sampling   *)
(* task of high priority debounces the pin and puts events into a bounded  *)
(* single-producer single-consumer queue; the Arduino loop, which a        *)
(* callback may hold up for seconds, polls it, handles its overflow and    *)
(* suppresses gestures it does not want to hear the end of.                *)
(*                                                                         *)
(* Time is counted in samples; a late sample (a "gap") starts the debounce *)
(* again.  Gestures are numbered by the press that began them; the number  *)
(* is not part of the code's events and only the properties look at it.    *)
(***************************************************************************)
EXTENDS Naturals

CONSTANTS
  Capacity,   \* kCapacity
  Wrap,       \* head_ and tail_ count modulo Wrap (2^32)
  Debounce,   \* kDebounceMs in samples
  Long,       \* kLongMs in samples
  MaxPresses, \* bound: times the pin goes low, bounces included
  MaxCommands \* bound: calls of suppressUntilRelease()

ASSUME CapacityAssumption == Capacity \in Nat \ {0}
ASSUME WrapAssumption ==
  Wrap \in Nat /\ Wrap > Capacity /\ \E k \in 1..Wrap : Wrap = k * Capacity
ASSUME TimesAssumption == Debounce \in Nat /\ Long \in Nat /\ Debounce < Long

VARIABLES
  raw,      \* the pin is low
  presses,
  s,        \* State: what the sampling task knows of the button
  look,     \* the sampling task: what it has read of pin and command
  observed, \* observedActive_
  command,  \* commands_: generation and the request to suppress
  slots, head, tail, lost, \* the queue
  ui,       \* the Arduino loop: where it is and its locals
  talk,     \* a push-to-talk session of the assistant is running
  seen      \* the last event that reached a callback

queue == <<slots, head, tail, lost>>
pin == <<raw, presses>>
vars == <<pin, s, look, observed, command, queue, ui, talk, seen>>

Actions == {"PressDown", "ShortClick", "LongPress", "LongPressRelease"}
Command == [gen : Nat, suppress : BOOLEAN]
First == [gen |-> 0, suppress |-> FALSE]
Event(action, cmd, gesture) == [action |-> action, cmd |-> cmd, gesture |-> gesture]
Nothing == Event("None", First, 0)

Init ==
  /\ raw = FALSE /\ presses = 0
  /\ s = [candidate |-> FALSE, down |-> FALSE, long |-> FALSE,
          suppressed |-> FALSE, since |-> 0, held |-> 0, cmd |-> First,
          gesture |-> 0]
  /\ look = [pc |-> "idle", raw |-> FALSE, cmd |-> First]
  /\ observed = FALSE /\ command = First
  /\ slots = [i \in 0..(Capacity - 1) |-> Nothing]
  /\ head = 0 /\ tail = 0 /\ lost = FALSE
  /\ ui = [pc |-> "loop", n |-> 0, event |-> Nothing, active |-> FALSE]
  /\ talk = FALSE /\ seen = Nothing

-----------------------------------------------------------------------------
(* The finger.                                                               *)

Press ==
  /\ ~raw /\ presses < MaxPresses
  /\ raw' = TRUE /\ presses' = presses + 1
  /\ UNCHANGED <<s, look, observed, command, queue, ui, talk, seen>>

Release ==
  /\ raw /\ raw' = FALSE
  /\ UNCHANGED <<presses, s, look, observed, command, queue, ui, talk, seen>>

-----------------------------------------------------------------------------
(* sample(), the producer.                                                   *)

Used == (head - tail + Wrap) % Wrap

\* enqueue(): a full queue keeps its prefix and says so.
Enqueue(event) ==
  IF Used = Capacity
  THEN lost' = TRUE /\ UNCHANGED <<slots, head>>
  ELSE /\ slots' = [slots EXCEPT ![head % Capacity] = event]
       /\ head' = (head + 1) % Wrap
       /\ UNCHANGED lost

SampleRead ==
  /\ look.pc = "idle"
  /\ look' = [pc |-> "step", raw |-> raw, cmd |-> command]
  /\ UNCHANGED <<pin, s, observed, command, queue, ui, talk, seen>>

\* A new command suppresses the gesture it meets, also one whose press was
\* published while the command was on its way.
Heeded ==
  IF look.cmd = s.cmd THEN s
  ELSE [s EXCEPT !.suppressed = look.cmd.suppress \/ s.down, !.cmd = look.cmd]

More(count, bound) == IF count < bound THEN count + 1 ELSE count

\* The candidate level and the time since it was first seen.
Timed(q, gap) ==
  IF gap \/ look.raw # q.candidate
  THEN [q EXCEPT !.candidate = look.raw, !.since = 0,
                 !.held = IF look.raw THEN 0 ELSE More(@, Long)]
  ELSE [q EXCEPT !.since = More(@, Debounce), !.held = More(@, Long)]

Stable(q) == q.since >= Debounce

\* The debounced level follows.
Settled(q) ==
  IF look.raw = q.down \/ ~Stable(q) THEN q
  ELSE [q EXCEPT !.down = look.raw, !.long = FALSE,
                 !.gesture = IF look.raw THEN presses ELSE @]

\* Suppression ends with a stable release.
Cleared(q) ==
  IF ~q.down /\ ~look.raw /\ Stable(q) THEN [q EXCEPT !.suppressed = FALSE] ELSE q

\* At most one event per sample, for Debounce < Long.
SampleStep(gap) ==
  /\ look.pc = "step"
  /\ LET before  == Timed(Heeded, gap)
         after   == Settled(before)
         changed == after.down # before.down
         isLong  == after.down /\ look.raw /\ ~after.long /\ ~after.suppressed
                    /\ after.held >= Long
         action  == IF changed /\ after.down THEN "PressDown"
                    ELSE IF changed
                    THEN IF before.long THEN "LongPressRelease" ELSE "ShortClick"
                    ELSE "LongPress"
     IN /\ IF (changed /\ ~after.suppressed) \/ isLong
           THEN Enqueue(Event(action, look.cmd, after.gesture))
           ELSE UNCHANGED <<slots, head, lost>>
        /\ s' = Cleared([after EXCEPT !.long = @ \/ isLong])
  /\ look' = [look EXCEPT !.pc = "publish"]
  /\ UNCHANGED <<pin, observed, command, tail, ui, talk, seen>>

SamplePublish ==
  /\ look.pc = "publish"
  /\ observed' = (s.down \/ look.raw)
  /\ look' = [look EXCEPT !.pc = "idle"]
  /\ UNCHANGED <<pin, s, command, queue, ui, talk, seen>>

-----------------------------------------------------------------------------
(* The Arduino loop, the consumer.                                           *)

Goto(place) == ui' = [ui EXCEPT !.pc = place]
Poll == ui' = [ui EXCEPT !.pc = "pop", !.n = 0, !.active = FALSE]

\* loop(): an overflow is looked for before the queue is polled.
LoopLook ==
  /\ ui.pc = "loop"
  /\ IF lost THEN Goto("overflow") ELSE Poll
  /\ UNCHANGED <<pin, s, look, observed, command, queue, talk, seen>>

\* Mutant: the queue is cleaned, the session goes on.
HandleOverflowOnly ==
  /\ ui.pc = "overflow"
  /\ seen' = Nothing
  /\ Goto("forget")
  /\ UNCHANGED <<pin, s, look, observed, command, queue, talk>>

\* App::handleButtonOverflow(): whatever a button began is cancelled.
HandleOverflow ==
  /\ ui.pc = "overflow"
  /\ talk' = FALSE /\ seen' = Nothing
  /\ Goto("forget")
  /\ UNCHANGED <<pin, s, look, observed, command, queue>>

\* discardEvents(): the flag before the snapshot of the queue.
DiscardFlag ==
  /\ ui.pc = "forget"
  /\ lost' = FALSE
  /\ Goto("discard")
  /\ UNCHANGED <<pin, s, look, observed, command, slots, head, tail, talk, seen>>

DiscardQueue ==
  /\ ui.pc = "discard"
  /\ tail' = head
  /\ Goto("suppress")
  /\ UNCHANGED <<pin, s, look, observed, command, slots, head, lost, talk, seen>>

\* suppressUntilRelease(): two atomics, read and written one after the other.
SuppressLook ==
  /\ ui.pc = "suppress"
  /\ ui' = [ui EXCEPT !.pc = "store", !.active = observed]
  /\ UNCHANGED <<pin, s, look, observed, command, queue, talk, seen>>

SuppressStore ==
  /\ ui.pc = "store"
  /\ command' = [gen |-> command.gen + 1, suppress |-> ui.active]
  /\ seen' = Nothing
  /\ Poll
  /\ UNCHANGED <<pin, s, look, observed, queue, talk>>

\* Mutant: poll() drains whatever there is.
PollEndWhenEmpty == head = tail

\* poll() handles at most as many events as the queue holds.
PollEnd == head = tail \/ ui.n = Capacity

PollPop ==
  /\ ui.pc = "pop"
  /\ IF PollEnd
     THEN ui' = [ui EXCEPT !.pc = "app", !.n = 0] /\ UNCHANGED tail
     ELSE /\ ui' = [ui EXCEPT !.pc = "deliver", !.n = @ + 1,
                              !.event = slots[tail % Capacity]]
          /\ tail' = (tail + 1) % Wrap
  /\ UNCHANGED <<pin, s, look, observed, command, slots, head, lost, talk, seen>>

\* An event of an earlier command is dropped; the callback of another starts
\* or ends a push-to-talk session (App::onButton()).
PollDeliver ==
  /\ ui.pc = "deliver"
  /\ IF ui.event.cmd = command
     THEN /\ seen' = ui.event
          /\ talk' = CASE ui.event.action = "LongPress" -> TRUE
                       [] ui.event.action = "LongPressRelease" -> FALSE
                       [] OTHER -> talk
     ELSE UNCHANGED <<talk, seen>>
  /\ ui' = [ui EXCEPT !.pc = "pop", !.event = Nothing]
  /\ UNCHANGED <<pin, s, look, observed, command, queue>>

\* App::loop(), which may go to sleep and back while nothing is recorded:
\* enterScreensaver() suppresses the gesture in progress.
AppLoop ==
  /\ ui.pc = "app"
  /\ \/ Goto("loop")
     \/ ~talk /\ command.gen < MaxCommands /\ Goto("suppress")
  /\ UNCHANGED <<pin, s, look, observed, command, queue, talk, seen>>

-----------------------------------------------------------------------------

Sampler == SampleRead \/ SamplePublish \/ \E gap \in BOOLEAN : SampleStep(gap)
Loop ==
  \/ LoopLook \/ HandleOverflow \/ DiscardFlag \/ DiscardQueue
  \/ SuppressLook \/ SuppressStore \/ PollPop \/ PollDeliver
  \/ AppLoop

Next == Press \/ Release \/ Sampler \/ Loop

Spec == Init /\ [][Next]_vars

\* Both tasks run, the sampler is not late for ever, and a button that is held
\* is released some day.
FairSpec ==
  /\ Spec
  /\ WF_vars(Release) /\ WF_vars(SampleRead) /\ WF_vars(SamplePublish)
  /\ WF_vars(\E gap \in BOOLEAN : SampleStep(gap)) /\ SF_vars(SampleStep(FALSE))
  /\ WF_vars(Loop)

-----------------------------------------------------------------------------
(* Properties.                                                               *)

Follows(e, f) ==
  \/ f.action = "PressDown" /\ e.action \in {"None", "ShortClick", "LongPressRelease"}
  \/ /\ f.gesture = e.gesture
     /\ <<e.action, f.action>> \in
          {<<"PressDown", "ShortClick">>, <<"PressDown", "LongPress">>,
           <<"LongPress", "LongPressRelease">>}

\* The callbacks see whole gestures: a press, then its short click, or its long
\* press and the release of that; a gesture that a suppression or an overflow
\* cut is never heard of again.  In particular nothing that follows a lost event
\* is delivered before the loss is handled, however long a callback takes.
WholeGestures == [][seen' # seen /\ seen' # Nothing => Follows(seen, seen')]_vars

\* "Losing a release must not leave an unbounded PTT session" (main.cpp:456).
TalkEnds == talk ~> ~talk

\* A suppression ends with the release it waits for: the button is not deaf
\* for ever.
SuppressionEnds == s.suppressed ~> ~s.suppressed

\* Both: whatever is lost or cut, the button comes back.
GesturesEnd == TalkEnds /\ SuppressionEnds
=============================================================================
