-------------------------------- MODULE Panel --------------------------------
(***************************************************************************)
(* The link to the front panel's controller (Lcm, protocol.rs) and the     *)
(* part of the main loop that uses it (event_loop, apply_effect,           *)
(* drain_pending_keys and note_mcu_boot, main.rs). The controller (MCU) is *)
(* modelled from the comments that record how it was seen to behave: it    *)
(* acknowledges a frame, now and then drops one or keeps a part of it,     *)
(* which the next frame then completes; it sends a report (a key, or its   *)
(* version after a reset) until that is acknowledged.                      *)
(*                                                                         *)
(* Data. A line's text is a member of Texts. What AppState wants shown is  *)
(* chosen anew by every tick and key (AppState says which choices it has). *)
(* The calls the loop has still to make are a list, `todo`. Time. A frame  *)
(* that comes back sooner than the wire allows is "early"; the redraw      *)
(* timer may expire before any pass.                                       *)
(***************************************************************************)
EXTENDS Integers, Sequences, FiniteSets

CONSTANTS
  Texts,      \* what a line may be asked to say
  MaxPresses, \* how often a key is pressed
  MaxFaults   \* how often the link or the controller fails

ASSUME BoundsAssumption == {MaxPresses, MaxFaults} \subseteq Nat

Lines == {0, 1}
None == "none"
Boot == "boot" \* the controller's own text after a reset
Junk == "junk" \* what a merged frame leaves on a line
ASSUME TextsAssumption == {None, Boot, Junk} \cap Texts = {}

\* AppState's display_wanted(), whether it renders, and what.
Wants == {w \in [awake : BOOLEAN, lit : BOOLEAN, text : [Lines -> Texts]] :
            w.awake => w.lit}

VARIABLES
  \* The daemon.
  want,      \* what AppState would show
  rendered,  \* the lines of the last Effect::Render
  sent,      \* last_sent: the text confirmed on each line, or None
  displayOn, \* display_on: the display state confirmed, or None
  pending,   \* reports that arrived during a send
  todo,      \* the calls the loop has still to make in this pass
  flight,    \* the frame send_and_ack waits for, or NoFlight
  \* The wire and the controller.
  up,        \* what the controller sent and the daemon has not read
  shows,     \* the text on each line
  lit,       \* the display is on
  part,      \* the line a partial frame is for, if one is held
  report,    \* the report not yet acknowledged, or None
  presses, faults,
  \* What the properties look back on.
  excused,   \* since the last redraw something went wrong: see ExcusedBy
  owed,      \* keys acknowledged and not handled
  waited     \* the polls the oldest pending report has waited

host == <<want, rendered, sent, displayOn, pending, todo, flight>>
mcu == <<shows, lit, part, report>>
history == <<excused, owed, waited>>
vars == <<host, up, mcu, presses, faults, history>>

NoFlight == [sub |-> None, attempt |-> 0, touched |-> FALSE]
Fault == faults < MaxFaults /\ faults' = faults + 1

-----------------------------------------------------------------------------
(* The calls in `todo`. *)

OnOff(on) == IF on THEN "on" ELSE "off"
Show(on) == [call |-> "show", state |-> OnOff(on)]          \* Lcm::set_display
Text(l, t) == [call |-> "text", line |-> l, text |-> t] \* Lcm::set_text
Init1 == [call |-> "init1"]                       \* the two steps of Lcm::init
Init2 == [call |-> "init2"]
Drain == [call |-> "drain"]                       \* drain_pending_keys
Poll == [call |-> "poll"]                         \* poll and read_frame
Handle(r) == [call |-> "handle", report |-> r]    \* one frame, acknowledged

Doing(call) == todo # <<>> /\ Head(todo).call = call
Job == Head(todo)
Sends == {"show", "text", "init1", "init2"}
Subcommand(call) == IF call = "init1" THEN "show" ELSE call

\* apply_effect: the display first, then the lines if there is a Render.
ApplyEffect(w, render) ==
  <<Show(w.lit)>> \o
  (IF render THEN <<Text(0, w.text[0]), Text(1, w.text[1])>> ELSE <<>>)

Forgotten == [l \in Lines |-> None] \* forget_text

-----------------------------------------------------------------------------
(* The controller. *)

Ack(sub) == [sub |-> sub, ours |-> TRUE]
Stray(sub) == [sub |-> sub, ours |-> FALSE] \* of an earlier or a merged frame
ReportSubs == {"key", "version"}
Report(r) == [sub |-> r, ours |-> TRUE]

\* Whose text a partial frame will spoil, once it is completed.
Partials == {{}, {0}, {1}}
Garbled == [l \in Lines |-> IF l \in part THEN Junk ELSE shows[l]]

\* What the frame does.
Executes(job) ==
  /\ shows' = IF job.call = "text" THEN [shows EXCEPT ![job.line] = job.text]
              ELSE shows
  /\ lit' = IF job.call = "show" THEN job.state = "on" ELSE (lit \/ job.call = "init1")

\* One frame reaches the controller, or not all of it, or not at all.  A frame
\* that completes a partial one is lost in it, and answered as that one.
\* Unread is what the daemon has not read yet.
Takes(job, unread) ==
  \/ /\ part = {} /\ Executes(job)
     /\ \/ up' = Append(unread, Ack(Subcommand(job.call))) /\ UNCHANGED faults
        \/ Fault /\ up' = unread \* the answer is lost
     /\ UNCHANGED part
  \/ /\ part = {} /\ Fault
     /\ part' \in IF job.call = "text" THEN Partials ELSE {{}}
     /\ up' = unread /\ UNCHANGED <<shows, lit>>
  \/ /\ part # {} /\ shows' = Garbled /\ part' = {}
     /\ up' = Append(unread, Stray("text")) /\ UNCHANGED <<lit, faults>>

\* The same for Lcm::ack; a report whose answer is lost comes again.
TakesAck(r) ==
  \/ /\ part = {} /\ report' = (IF report = r THEN None ELSE report)
     /\ up' = Tail(up) /\ UNCHANGED <<shows, part, faults>>
  \/ part = {} /\ Fault /\ up' = Tail(up) /\ UNCHANGED <<shows, part, report>>
  \/ /\ part # {} /\ shows' = Garbled /\ part' = {}
     /\ up' = Append(Tail(up), Stray("text")) /\ UNCHANGED <<report, faults>>

\* A key switches the display on by itself.
Pressed ==
  /\ presses < MaxPresses /\ presses' = presses + 1
  /\ report = None /\ report' = "key" /\ lit' = TRUE
  /\ UNCHANGED <<host, up, shows, part, faults, history>>

Reports ==
  /\ report # None /\ \A i \in DOMAIN up : up[i] # Report(report)
  /\ up' = Append(up, Report(report))
  /\ UNCHANGED <<host, mcu, presses, faults, history>>

Resets ==
  /\ Fault
  /\ shows' = [l \in Lines |-> Boot] /\ lit' = TRUE /\ part' = {}
  /\ report' = "version" /\ excused' = TRUE
  /\ UNCHANGED <<host, up, presses, owed, waited>>

\* An answer will come after the time for it is up.
Delays ==
  /\ flight # NoFlight /\ Fault
  /\ \E i \in DOMAIN up : up[i] = Ack(flight.sub)
                        /\ up' = [up EXCEPT ![i] = Stray(flight.sub)]
  /\ UNCHANGED <<host, mcu, presses, history>>

-----------------------------------------------------------------------------
(* send_and_ack, and what its callers make of the answer. *)

Cached(job) ==
  CASE job.call = "show" -> displayOn = job.state
    [] job.call = "text" -> sent[job.line] = job.text
    [] OTHER -> FALSE

Skips ==
  /\ todo # <<>> /\ Job.call \in Sends /\ flight = NoFlight /\ Cached(Job)
  /\ todo' = Tail(todo)
  /\ UNCHANGED <<want, rendered, sent, displayOn, pending, flight, up, mcu>>
  /\ UNCHANGED <<presses, faults, history>>

Flies(attempt, unread) ==
  /\ Takes(Job, unread)
  /\ flight' = [sub |-> Subcommand(Job.call), attempt |-> attempt, touched |-> FALSE]
  /\ UNCHANGED <<want, rendered, displayOn, pending, todo, report, presses, history>>

Starts ==
  /\ todo # <<>> /\ Job.call \in Sends /\ flight = NoFlight /\ ~Cached(Job)
  /\ Flies(0, up) /\ UNCHANGED sent

\* An answer is taken for this frame's however soon it comes: PanelIsRight.
Accepts_Slip(f, early) == f.sub = flight.sub

\* What comes back sooner than this frame and its answer take on the wire is
\* ignored.
Accepts(f, early) == f.sub = flight.sub /\ ~early

Confirmed ==
  /\ sent' = IF Job.call = "text" THEN [sent EXCEPT ![Job.line] = Job.text] ELSE sent
  /\ displayOn' = CASE Job.call = "show" -> Job.state
                    [] Job.call = "init1" -> "on"
                    [] OTHER -> displayOn
  /\ todo' = Tail(todo) /\ flight' = NoFlight

\* No frame in q answers the next frame.
Outdated(q) == [i \in DOMAIN q |->
                  IF q[i].sub \in ReportSubs THEN q[i] ELSE Stray(q[i].sub)]

\* Only the last report is kept: KeysAreHandled.
Queued_Slip(r) == <<r>>
Queued(r) == Append(pending, r)

\* One frame is read while waiting.  A stray answer may seem to come in time;
\* the right one may seem early once Lcm::ack has restarted the clock it is
\* measured by (tx_started).
Hears ==
  /\ flight # NoFlight /\ up # <<>>
  /\ LET f == Head(up) IN
     \/ /\ f.sub \in ReportSubs /\ TakesAck(f.sub)
        /\ pending' = Queued(f.sub)
        /\ owed' = IF f.sub = "key" THEN owed + 1 ELSE owed
        /\ flight' = [flight EXCEPT !.touched = TRUE]
        /\ UNCHANGED <<sent, displayOn, todo, lit, excused>>
     \/ /\ f.sub \notin ReportSubs
        /\ \E early \in IF f.ours /\ ~flight.touched THEN {FALSE} ELSE BOOLEAN :
             /\ IF Accepts(f, early)
                THEN Confirmed /\ up' = Outdated(Tail(up))
                ELSE up' = Tail(up) /\ UNCHANGED <<sent, displayOn, todo, flight>>
             /\ excused' = (excused \/ (f.sub = flight.sub /\ ~f.ours /\ ~early))
        /\ UNCHANGED <<pending, owed, mcu, faults>>
  /\ UNCHANGED <<want, rendered, presses, waited>>

\* The other line may hold what is left of the lost frame: PanelIsRight.
AfterLoss_Slip(line) == sent
AfterLoss(line) == [sent EXCEPT ![1 - line] = None]

Retryable == Job.call = "text" /\ flight.attempt < 2
\* The time for the answer is up: none is on its way, or a late one.
Overdue == flight # NoFlight /\ \A i \in DOMAIN up : up[i] # Ack(flight.sub)

\* set_text tries three times; the others do not try again.
Retries ==
  /\ Overdue /\ Retryable /\ sent' = AfterLoss(Job.line)
  /\ Flies(flight.attempt + 1, up)

Fails ==
  /\ Overdue /\ ~Retryable
  /\ displayOn' = IF Job.call = "init1" THEN None ELSE displayOn
  /\ todo' = Tail(todo) /\ flight' = NoFlight
  /\ excused' = (excused \/ Job.call = "text")
  /\ UNCHANGED <<want, rendered, sent, pending, up, mcu, presses, faults>>
  /\ UNCHANGED <<owed, waited>>

\* send gives up on a port that takes no more bytes: an io::Error, at once
\* passed on, also by init, whose second step is then not tried.
Jams ==
  /\ todo # <<>> /\ Job.call \in Sends /\ flight = NoFlight /\ ~Cached(Job)
  /\ Fault
  /\ todo' = IF Job.call = "init1" THEN Tail(Tail(todo)) ELSE Tail(todo)
  /\ part' \in {part} \cup (IF Job.call = "text" THEN Partials ELSE {})
  /\ excused' = (excused \/ Job.call = "text")
  /\ UNCHANGED <<want, rendered, sent, displayOn, pending, flight, up, shows>>
  /\ UNCHANGED <<lit, report, presses, owed, waited>>

-----------------------------------------------------------------------------
(* The pass of event_loop. *)

\* AppState renders what it wants while awake, and empty lines as it falls
\* asleep; its texts for that are as good as any.
Effects(w, render) ==
  /\ want' = w
  /\ rendered' = IF render THEN w.text ELSE rendered

\* The redraw timer, the tick and its effect.
Tick ==
  /\ todo = <<>>
  /\ \E w \in Wants, redraw \in BOOLEAN :
       /\ IF redraw THEN sent' = Forgotten /\ excused' = FALSE
          ELSE UNCHANGED <<sent, excused>>
       /\ Effects(w, w.awake \/ want.awake)
       /\ todo' = ApplyEffect(w, w.awake \/ want.awake) \o <<Drain, Poll>>
  /\ UNCHANGED <<displayOn, pending, flight, up, mcu, presses, faults, owed, waited>>

\* take_pending, and one call for each.
Drains ==
  /\ Doing("drain")
  /\ todo' = [i \in DOMAIN pending |-> Handle(pending[i])] \o Tail(todo)
  /\ pending' = <<>> /\ waited' = 0
  /\ UNCHANGED <<want, rendered, sent, displayOn, flight, up, mcu>>
  /\ UNCHANGED <<presses, faults, excused, owed>>

\* The version means that the controller has just started.
NotesBoot ==
  /\ Doing("handle") /\ Job.report = "version"
  /\ sent' = Forgotten /\ todo' = <<Init1, Init2>> \o Tail(todo)
  /\ UNCHANGED <<want, rendered, displayOn, pending, flight, up, mcu>>
  /\ UNCHANGED <<presses, faults, history>>

\* handle_key: any key wakes the panel; otherwise it may change what is wanted.
HandlesKey ==
  /\ Doing("handle") /\ Job.report = "key"
  /\ \E w \in Wants, render \in BOOLEAN :
       /\ w.awake /\ (~want.awake => render)
       /\ Effects(w, render)
       /\ todo' = ApplyEffect(w, render) \o Tail(todo)
  /\ owed' = owed - 1
  /\ UNCHANGED <<sent, displayOn, pending, flight, up, mcu, presses, faults>>
  /\ UNCHANGED <<excused, waited>>

\* poll times out, or there is a frame to read.
Polls ==
  /\ Doing("poll")
  /\ waited' = IF pending = <<>> THEN 0 ELSE waited + 1
  /\ \/ up = <<>> /\ todo' = <<>> /\ UNCHANGED <<up, mcu, faults, owed>>
     \/ /\ up # <<>> /\ Head(up).sub \notin ReportSubs
        /\ up' = Tail(up) /\ todo' = <<>> /\ UNCHANGED <<mcu, faults, owed>>
     \/ /\ up # <<>> /\ Head(up).sub \in ReportSubs
        /\ TakesAck(Head(up).sub) /\ UNCHANGED lit
        /\ IF Head(up).sub = "key"
           THEN todo' = <<Handle("key"), Drain>> /\ owed' = owed + 1
           ELSE todo' = <<Handle("version")>> /\ UNCHANGED owed
  /\ UNCHANGED <<want, rendered, sent, displayOn, pending, flight, presses, excused>>

-----------------------------------------------------------------------------
Init ==
  /\ want \in {w \in Wants : w.awake} /\ rendered = want.text
  /\ sent = Forgotten /\ displayOn = None /\ pending = <<>>
  /\ todo = <<Init1, Init2>> /\ flight = NoFlight
  /\ up = <<>> /\ shows = [l \in Lines |-> Boot] /\ lit \in BOOLEAN
  /\ part = {} /\ report = None
  /\ presses = 0 /\ faults = 0
  /\ excused = FALSE /\ owed = 0 /\ waited = 0

Next ==
  \/ Pressed \/ Reports \/ Resets \/ Delays
  \/ Skips \/ Starts \/ Hears \/ Retries \/ Fails \/ Jams
  \/ Tick \/ Drains \/ NotesBoot \/ HandlesKey \/ Polls

Spec == Init /\ [][Next]_vars

-----------------------------------------------------------------------------
(* Properties. *)

\* How many elements of s are x.
Count(s, x) == Cardinality({i \in DOMAIN s : s[i] = x})

\* Every variable has its type.
TypeOK ==
  /\ want \in Wants /\ rendered \in [Lines -> Texts]
  /\ sent \in [Lines -> Texts \cup {None}] /\ displayOn \in {"on", "off", None}
  /\ pending \in Seq(ReportSubs) /\ \A i \in DOMAIN todo : todo[i].call \in
       Sends \cup {"drain", "poll", "handle"}
  /\ flight = NoFlight \/ (flight.sub \in Sends /\ flight.attempt \in 0..2)
  /\ shows \in [Lines -> Texts \cup {Boot, Junk}] /\ lit \in BOOLEAN
  /\ part \in Partials /\ report \in ReportSubs \cup {None}
  /\ presses \in 0..MaxPresses /\ faults \in 0..MaxFaults
  /\ excused \in BOOLEAN /\ {owed, waited} \subseteq Nat

\* When the loop comes to wait, the awake panel shows on each line what was
\* last rendered, or will be sent it again with the next pass: whatever was
\* dropped, merged or answered for another frame, unless since the last redraw
\* a stray answer took as long as a real one, a line's three attempts failed, or
\* the controller was reset (set_text, send_and_ack, forget_text).
PanelIsRight ==
  Doing("poll") /\ want.awake /\ ~excused =>
    \A l \in Lines : sent[l] = None \/ shows[l] = rendered[l]

\* Every key whose report the daemon acknowledged is handled, once for each
\* acknowledgement, and waits for one poll at most (take_pending,
\* drain_pending_keys): the controller will not send it again.
KeysAreHandled ==
  owed = Count(pending, "key") + Count(todo, Handle("key")) /\ waited <= 1

\* The display is never dark while the daemon takes it for lit and wants it so
\* (display_on: "last confirmed by an ACK").
NeverDarkUnnoticed ==
  Doing("poll") /\ want.lit /\ displayOn = "on" => lit
=============================================================================
