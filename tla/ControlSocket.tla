---------------------------- MODULE ControlSocket ----------------------------
(***************************************************************************)
(* The control socket (socket.rs): the thread that accepts connections,    *)
(* one thread for each, the bounded queue to the main loop, and the main   *)
(* loop's side of it (main.rs).                                            *)
(*                                                                         *)
(* A client connects again and again, each time with a request of its      *)
(* choice, of which the daemon gets as much as arrives: some of its words, *)
(* the last perhaps cut short, with or without the end of the line. Time   *)
(* is left to the actions that a deadline causes. A reply is what kind of  *)
(* answer it is.                                                           *)
(***************************************************************************)
EXTENDS Requests

CONSTANTS
  Clients,
  Headers,        \* the requests that each of them makes
  MaxConnections, \* MAX_CONNECTIONS
  QueueDepth      \* COMMAND_QUEUE_DEPTH

ASSUME LimitsAssumption == {MaxConnections, QueueDepth} \subseteq Nat \ {0}
ASSUME HeadersAssumption == \A c \in Clients : Headers[c] \subseteq Seq(Words)

VARIABLES
  conn,    \* where each client's connection is: see Places
  asked,   \* the request it set out to make
  raw,     \* what read_request returned of its header
  how,     \* how reading ended: see Endings
  reply,   \* what the daemon answered
  active,  \* the connections counted, of MaxConnections
  queue,   \* commands for the main loop
  main     \* "running", or "gone": the receiver is dropped

vars == <<conn, asked, raw, how, reply, active, queue, main>>

\* "backlog": connected, not accepted; the last four have a thread.
Places == {"closed", "backlog", "reading", "acting", "awaiting", "replying"}
Serving == {"reading", "acting", "awaiting", "replying"}
Endings == {"eof", "expired"}
Replies == {"none", "report", "error"}
\* A STATUS request's channel; its receiver may be gone by the time it is
\* answered.
Entry(c, cmd) ==
  [from |-> c, cmd |-> cmd, raw |-> raw[c], asked |-> asked[c], how |-> how[c]]

Hangup(c) == [i \in DOMAIN queue |->
                IF queue[i].from = c THEN [queue[i] EXCEPT !.from = "none"] ELSE queue[i]]

-----------------------------------------------------------------------------
(* A client. *)

Connects(c) ==
  /\ conn[c] = "closed" /\ conn' = [conn EXCEPT ![c] = "backlog"]
  /\ \E header \in Headers[c] : asked' = [asked EXCEPT ![c] = header]
  /\ UNCHANGED <<raw, how, reply, active, queue, main>>

\* The connection is closed; with its thread it gives up its place.
Forgets(c) ==
  /\ conn' = [conn EXCEPT ![c] = "closed"]
  /\ asked' = [asked EXCEPT ![c] = <<>>] /\ raw' = [raw EXCEPT ![c] = <<>>]
  /\ how' = [how EXCEPT ![c] = "eof"] /\ reply' = [reply EXCEPT ![c] = "none"]
Ends(c) == Forgets(c) /\ active' = active - 1

-----------------------------------------------------------------------------
(* The accepting thread. *)

\* Slot::acquire and the connection's thread.
Accepts(c) ==
  /\ conn[c] = "backlog" /\ active < MaxConnections
  /\ conn' = [conn EXCEPT ![c] = "reading"] /\ active' = active + 1
  /\ UNCHANGED <<asked, raw, how, reply, queue, main>>

\* `ERR busy`, if the client reads it.
TurnsAway(c) ==
  /\ conn[c] = "backlog" /\ active >= MaxConnections
  /\ Forgets(c) /\ UNCHANGED <<active, queue, main>>

\* The place of a thread that could not start is kept: PlacesAreFreed.
NoThread_Slip(c) ==
  /\ conn[c] = "backlog" /\ active < MaxConnections
  /\ Forgets(c) /\ active' = active + 1 /\ UNCHANGED <<queue, main>>

\* The thread does not start: the slot is dropped with its closure.
NoThread(c) ==
  /\ conn[c] = "backlog" /\ active < MaxConnections
  /\ Forgets(c) /\ UNCHANGED <<active, queue, main>>

-----------------------------------------------------------------------------
(* A connection's thread. *)

\* What is left of a word cut short may be another word.
Cut(word) == IF word.kind = "bay" /\ word.value > 1 THEN Word("bay", 1)
             ELSE Plain("text")

\* What may arrive of the header's line without its end.
Unfinished(header) ==
  {SubSeq(header, 1, n) : n \in 0 .. Len(header)}
  \cup {Append(SubSeq(header, 1, n - 1), Cut(header[n])) : n \in DOMAIN header}

\* The last line is acted on however the request ended: NeverWidened.
Kept_Slip(line, whole, ending) == line

\* Unless the client closed its end, a line without its end is dropped.
Kept(line, whole, ending) == IF whole \/ ending = "eof" THEN line ELSE <<>>

\* read_request, by the end of the file, a pause, or the deadline.
Reads(c) ==
  /\ conn[c] = "reading"
  /\ \E ending \in Endings, whole \in BOOLEAN :
     \E line \in IF whole THEN {asked[c]} ELSE Unfinished(asked[c]) :
       LET kept == Kept(line, whole, ending) IN
       IF kept = <<>> \* nothing was asked
       THEN Ends(c)
       ELSE /\ conn' = [conn EXCEPT ![c] = "acting"]
            /\ raw' = [raw EXCEPT ![c] = kept] /\ how' = [how EXCEPT ![c] = ending]
            /\ UNCHANGED <<asked, reply, active>>
  /\ UNCHANGED <<queue, main>>

Room == main = "running" /\ Len(queue) < QueueDepth

Tells(c, answer) ==
  /\ conn' = [conn EXCEPT ![c] = "replying"]
  /\ reply' = [reply EXCEPT ![c] = answer]

\* process and enqueue.
Acts(c) ==
  /\ conn[c] = "acting"
  /\ LET cmd == ParseRequest(raw[c]) IN
     IF cmd = Refused \/ ~Room
     THEN Tells(c, "error") /\ UNCHANGED <<asked, raw, how, active, queue>>
     ELSE /\ queue' = IF Len(queue) < QueueDepth THEN Append(queue, Entry(c, cmd))
                      ELSE queue
          /\ IF cmd.do = "status"
             THEN conn' = [conn EXCEPT ![c] = "awaiting"]
                  /\ UNCHANGED <<asked, raw, how, reply, active>>
             ELSE Ends(c)
  /\ UNCHANGED main

\* Only the end of the main loop ends the wait: EveryConnectionEnds.
GivesUp_Slip(c) ==
  /\ conn[c] = "awaiting" /\ main = "gone" /\ Tells(c, "error") /\ queue' = Hangup(c)
  /\ UNCHANGED <<asked, raw, how, active, main>>

\* STATUS_REPLY_TIMEOUT, or the main loop is gone.
GivesUp(c) ==
  /\ conn[c] = "awaiting" /\ Tells(c, "error") /\ queue' = Hangup(c)
  /\ UNCHANGED <<asked, raw, how, active, main>>

\* The reply is written, or its deadline is over.
Closes(c) == conn[c] = "replying" /\ Ends(c) /\ UNCHANGED <<queue, main>>

-----------------------------------------------------------------------------
(* The main loop. *)

\* One command; a report goes to the client that still waits for it.
Handles ==
  /\ main = "running" /\ queue # <<>>
  /\ queue' = Tail(queue)
  /\ LET e == Head(queue) IN
     IF e.cmd.do = "status" /\ e.from # "none"
     THEN Tells(e.from, "report")
     ELSE UNCHANGED <<conn, reply>>
  /\ UNCHANGED <<asked, raw, how, active, main>>

\* The loop ends: no request is answered any more.
Leaves ==
  /\ main = "running" /\ main' = "gone" /\ queue' = <<>>
  /\ UNCHANGED <<conn, asked, raw, how, reply, active>>

-----------------------------------------------------------------------------
Init ==
  /\ conn = [c \in Clients |-> "closed"] /\ asked = [c \in Clients |-> <<>>]
  /\ raw = [c \in Clients |-> <<>>] /\ how = [c \in Clients |-> "eof"]
  /\ reply = [c \in Clients |-> "none"]
  /\ active = 0 /\ queue = <<>> /\ main = "running"

TakenUp(c) == Accepts(c) \/ TurnsAway(c) \/ NoThread(c)

Next ==
  \/ \E c \in Clients : \/ Connects(c) \/ TakenUp(c) \/ Reads(c) \/ Acts(c)
                        \/ GivesUp(c) \/ Closes(c)
  \/ Handles \/ Leaves

Spec == Init /\ [][Next]_vars

\* The threads run and deadlines pass.  Of the main loop nothing is assumed.
FairSpec ==
  /\ Spec
  /\ \A c \in Clients : /\ WF_vars(TakenUp(c)) /\ WF_vars(Reads(c))
                        /\ WF_vars(Acts(c)) /\ WF_vars(GivesUp(c))
                        /\ WF_vars(Closes(c))

-----------------------------------------------------------------------------
(* Properties. *)

\* Every variable has its type.
TypeOK ==
  /\ conn \in [Clients -> Places] /\ how \in [Clients -> Endings]
  /\ \A c \in Clients : /\ asked[c] \in Headers[c] \cup {<<>>}
                        /\ raw[c] \in Unfinished(asked[c])
  /\ reply \in [Clients -> Replies]
  /\ active \in 0 .. MaxConnections /\ main \in {"running", "gone"}
  /\ Len(queue) <= QueueDepth

\* No request is widened: when the daemon ended the reading, what it queues is
\* what the whole request asks; and a command is for every bay only if no bay,
\* good or bad, was named (read_request, parse_message).
NeverWidened ==
  \A i \in DOMAIN queue :
    LET e == queue[i] IN
    /\ e.how = "expired" => e.cmd = ParseRequest(e.asked)
    /\ e.cmd.do # "show" /\ e.cmd.bay = AllBays => "bay" \notin Kinds(e.raw)

\* The place of every connection that has ended, however it did, is free again,
\* and there are never more than MaxConnections (Slot).
PlacesAreFreed == active = Cardinality({c \in Clients : conn[c] \in Serving})

\* Every connection ends, whatever the client sends and the main loop does
\* (the deadlines of a request, a reply and STATUS).
EveryConnectionEnds == \A c \in Clients : conn[c] # "closed" ~> conn[c] = "closed"
=============================================================================
