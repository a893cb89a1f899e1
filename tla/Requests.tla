------------------------------ MODULE Requests ------------------------------
(***************************************************************************)
(* What the control socket makes of a request (parse_request and what it   *)
(* calls, socket.rs). A request's header is a sequence of words; a word is *)
(* its kind and its value, Bad if the daemon knows no such value. Lines of *)
(* text after the header do not matter to what is asked.                   *)
(***************************************************************************)
EXTENDS Integers, Sequences, FiniteSets

Bad == -1

\* A word.  `bay` and the option kinds are key=value; a number is a whole one;
\* "text" is any other word.
Word(kind, value) == [kind |-> kind, value |-> value]
Plain(kind) == Word(kind, 1)
Verbs == {"SHOW", "CLEAR", "LOCATE", "STATUS"}
Options == {"color", "flash", "beep"}

AllBays == 0 \* no bay: the whole chassis, or every message
Refused == [do |-> "refused", bay |-> AllBays]
Command(do, bay) == [do |-> do, bay |-> bay]

\* No bay has the number that stands for no bay (bay_number).
Words == {w \in [kind : Verbs \cup Options \cup {"bay", "number", "off", "level", "text"},
                 value : Int] : w.kind = "bay" => w.value # AllBays}

Kinds(args) == {args[i].kind : i \in DOMAIN args}
Count(args, kind) == Cardinality({i \in DOMAIN args : args[i].kind = kind})
AllGood(args) == \A i \in DOMAIN args : args[i].value # Bad

\* The one bay named, if any.
BayIn(args) ==
  IF "bay" \in Kinds(args)
  THEN (CHOOSE w \in {args[i] : i \in DOMAIN args} : w.kind = "bay").value
  ELSE AllBays

\* A bad bay is passed over: NeverWidened.
ParseBay_Slip(args) ==
  IF Kinds(args) \subseteq {"bay"} /\ Count(args, "bay") <= 1
  THEN Command("clear", IF AllGood(args) THEN BayIn(args) ELSE AllBays)
  ELSE Refused

\* The arguments of CLEAR: at most one bay, and nothing else.
ParseBay(args) ==
  IF Kinds(args) \subseteq {"bay"} /\ Count(args, "bay") <= 1 /\ AllGood(args)
  THEN Command("clear", BayIn(args))
  ELSE Refused

\* LOCATE: `off`, a bay and a time in any order; no time to stop something.
ParseLocate(args) ==
  IF /\ Kinds(args) \subseteq {"off", "bay", "number"} /\ AllGood(args)
     /\ Count(args, "bay") <= 1 /\ Count(args, "number") <= 1
     /\ ~({"off", "number"} \subseteq Kinds(args))
  THEN Command(IF "off" \in Kinds(args) THEN "locate off" ELSE "locate", BayIn(args))
  ELSE Refused

\* The options of SHOW, each at most once.
ParseShowOptions(args) ==
  IF /\ Kinds(args) \subseteq Options \cup {"bay"} /\ AllGood(args)
     /\ \A kind \in Kinds(args) : Count(args, kind) = 1
  THEN Command("show", BayIn(args))
  ELSE Refused

ParseShow(args) ==
  IF /\ Len(args) >= 2 /\ args[1] = Plain("level") /\ args[2] = Plain("number")
  THEN ParseShowOptions(SubSeq(args, 3, Len(args)))
  ELSE Refused

\* A word that is no verb starts a text to show.
ParseMessage(words) ==
  CASE words[1].kind = "CLEAR" -> ParseBay(Tail(words))
    [] words[1].kind = "LOCATE" -> ParseLocate(Tail(words))
    [] words[1].kind = "SHOW" -> ParseShow(Tail(words))
    [] OTHER -> Command("show", AllBays)

ParseRequest(words) ==
  IF words = <<>> THEN Refused
  ELSE IF words[1].kind # "STATUS" THEN ParseMessage(words)
  ELSE IF Len(words) = 1 THEN Command("status", AllBays)
  ELSE Refused
=============================================================================
