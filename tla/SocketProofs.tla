----------------------------- MODULE SocketProofs -----------------------------
(***************************************************************************)
(* Proofs about ControlSocket, for any clients, any number of places and   *)
(* any room in the queue, and for requests of any length.                  *)
(***************************************************************************)
EXTENDS ControlSocket, FiniteSetTheorems, SequenceTheorems, TLAPS

-----------------------------------------------------------------------------
(* What parsing makes of a request. *)

\* The bay of good arguments that name one is not "no bay".
LEMMA NamedBay ==
  ASSUME NEW args \in Seq(Words), "bay" \in Kinds(args)
  PROVE  BayIn(args) # AllBays
<1>1. PICK i \in DOMAIN args : args[i].kind = "bay"
  BY DEF Kinds
<1> DEFINE ws == {args[j] : j \in DOMAIN args}
           w == CHOOSE x \in ws : x.kind = "bay"
<1>2. w \in ws /\ w.kind = "bay"
  BY <1>1
<1>3. ws \subseteq Words
  BY ElementOfSeq, LenProperties
<1> QED
  BY <1>2, <1>3 DEF BayIn, Words

\* The kinds of a request's words are its verb's and its arguments'.
LEMMA KindsOfRequest ==
  ASSUME NEW words \in Seq(Words), words # <<>>
  PROVE  /\ Tail(words) \in Seq(Words)
         /\ Kinds(words) \subseteq {words[1].kind} \cup Kinds(Tail(words))
<1>1. /\ Tail(words) \in Seq(Words) /\ Len(Tail(words)) = Len(words) - 1
      /\ \A i \in 1 .. Len(Tail(words)) : Tail(words)[i] = words[i + 1]
  BY HeadTailProperties
<1>2. DOMAIN words = 1 .. Len(words) /\ Len(words) \in Nat
      /\ DOMAIN Tail(words) = 1 .. Len(Tail(words))
  BY <1>1, LenProperties
<1>3. ASSUME NEW i \in DOMAIN words, i # 1
      PROVE  words[i].kind \in Kinds(Tail(words))
  <2>1. i - 1 \in DOMAIN Tail(words) /\ Tail(words)[i - 1] = words[i]
    BY <1>1, <1>2, <1>3
  <2> QED
    BY <2>1 DEF Kinds
<1> QED
  BY <1>1, <1>3 DEF Kinds

\* A command that is for no bay in particular, and shows nothing, comes from a
\* request that names none.
LEMMA ForAllOnlyIfAsked ==
  ASSUME NEW words \in Seq(Words), ParseRequest(words) # Refused,
         ParseRequest(words).do # "show", ParseRequest(words).bay = AllBays
  PROVE  "bay" \notin Kinds(words)
<1>1. words # <<>>
  BY DEF ParseRequest
<1> DEFINE args == Tail(words)
<1>2. args \in Seq(Words) /\ Kinds(words) \subseteq {words[1].kind} \cup Kinds(args)
  BY <1>1, KindsOfRequest
<1> HIDE DEF args
<1>3. "bay" \in Kinds(args) => BayIn(args) # AllBays
  BY <1>2, NamedBay
<1>4. CASE words[1].kind = "STATUS"
  <2>1. Len(words) = 1
    BY <1>1, <1>4 DEF ParseRequest
  <2>2. Kinds(words) = {words[1].kind}
    BY <2>1, LenProperties DEF Kinds
  <2> QED
    BY <1>4, <2>2
<1>5. CASE words[1].kind = "CLEAR"
  <2>1. ParseRequest(words) = ParseBay(args)
    BY <1>1, <1>5 DEF ParseRequest, ParseMessage, args
  <2> QED
    BY <2>1, <1>2, <1>3, <1>5 DEF ParseBay, Command
<1>6. CASE words[1].kind = "LOCATE"
  <2>1. ParseRequest(words) = ParseLocate(args)
    BY <1>1, <1>6 DEF ParseRequest, ParseMessage, args
  <2>2. ParseLocate(args) # Refused => ParseLocate(args).bay = BayIn(args)
    BY DEF ParseLocate, Command
  <2> QED
    BY <2>1, <2>2, <1>2, <1>3, <1>6
<1>7. CASE words[1].kind \notin {"STATUS", "CLEAR", "LOCATE"}
  <2>1. ParseRequest(words) \in {ParseShow(args), Command("show", AllBays)}
    BY <1>1, <1>7 DEF ParseRequest, ParseMessage, args
  <2>2. ParseShow(args) # Refused => ParseShow(args).do = "show"
    BY DEF ParseShow, ParseShowOptions, Command
  <2> QED
    BY <2>1, <2>2 DEF Command
<1> QED
  BY <1>4, <1>5, <1>6, <1>7

-----------------------------------------------------------------------------
(* The inductive invariant. *)

\* An entry of the queue.
Entries == [from : Clients \cup {"none"}, cmd : {ParseRequest(w) : w \in Seq(Words)},
            raw : Seq(Words), asked : Seq(Words), how : Endings]

\* The types.
Typed ==
  /\ conn \in [Clients -> Places] /\ how \in [Clients -> Endings]
  /\ asked \in [Clients -> Seq(Words)] /\ raw \in [Clients -> Seq(Words)]
  /\ reply \in [Clients -> Replies] /\ main \in {"running", "gone"}
  /\ queue \in Seq(Entries) /\ Len(queue) <= QueueDepth

\* Before its header is read a connection has nothing of it, and afterwards
\* a part, which is all of it if a deadline ended the reading.
ReadAsAsked ==
  \A c \in Clients :
    /\ asked[c] \in Headers[c] \cup {<<>>} /\ raw[c] \in Unfinished(asked[c])
    /\ conn[c] \in {"closed", "backlog", "reading"} => raw[c] = <<>> /\ how[c] = "eof"
    /\ how[c] = "expired" => raw[c] = asked[c]

\* What is queued is what was made of such a header.
QueuedAsRead ==
  \A i \in 1 .. Len(queue) :
    /\ queue[i].cmd = ParseRequest(queue[i].raw) /\ queue[i].cmd # Refused
    /\ queue[i].how = "expired" => queue[i].raw = queue[i].asked

\* A STATUS that can still be answered is its client's only one, and the
\* client's connection waits for it.
Asks(e) == e.cmd.do = "status" /\ e.from # "none"
OneWaiter ==
  /\ \A i \in 1 .. Len(queue) : Asks(queue[i]) => conn[queue[i].from] = "awaiting"
  /\ \A i, j \in 1 .. Len(queue) :
       Asks(queue[i]) /\ Asks(queue[j]) /\ queue[i].from = queue[j].from => i = j

Served == {c \in Clients : conn[c] \in Serving}
PlacesCounted ==
  /\ IsFiniteSet(Served) /\ active = Cardinality(Served)
  /\ active <= MaxConnections

IInv == Typed /\ ReadAsAsked /\ QueuedAsRead /\ OneWaiter /\ PlacesCounted

-----------------------------------------------------------------------------
(* What the handlers have in common. *)

\* Nothing, and everything, may have arrived of a header; whatever did is a
\* sequence of words.
LEMMA UnfinishedFact ==
  ASSUME NEW header \in Seq(Words)
  PROVE  /\ <<>> \in Unfinished(header) /\ header \in Unfinished(header)
         /\ Unfinished(header) \subseteq Seq(Words)
<1>1. Len(header) \in Nat /\ DOMAIN header = 1 .. Len(header)
      /\ \A i \in 1 .. Len(header) : header[i] \in Words
  BY LenProperties, ElementOfSeq
<1>2. <<>> = SubSeq(header, 1, 0) /\ header = SubSeq(header, 1, Len(header))
  BY SubSeqEmpty, SubSeqFull
<1>3. ASSUME NEW n \in Int, n <= Len(header)
      PROVE  SubSeq(header, 1, n) \in Seq(Words)
  BY <1>1, <1>3, SubSeqProperties
<1>4. ASSUME NEW w \in Words
      PROVE  Cut(w) \in Words
  <2>1. Cut(w) = [kind |-> "bay", value |-> 1] \/ Cut(w) = [kind |-> "text", value |-> 1]
    BY DEF Cut, Word, Plain
  <2>2. [kind |-> "bay", value |-> 1] \in Words /\ [kind |-> "text", value |-> 1] \in Words
    BY DEF Words, AllBays, Verbs, Options
  <2> QED
    BY <2>1, <2>2
<1>5. ASSUME NEW n \in DOMAIN header
      PROVE  Append(SubSeq(header, 1, n - 1), Cut(header[n])) \in Seq(Words)
  <2>1. SubSeq(header, 1, n - 1) \in Seq(Words) /\ Cut(header[n]) \in Words
    BY <1>1, <1>3, <1>4
  <2> QED
    BY <2>1, AppendProperties
<1>6. \A n \in 0 .. Len(header) : SubSeq(header, 1, n) \in Seq(Words)
  BY <1>1, <1>3
<1>7. <<>> \in Unfinished(header) /\ header \in Unfinished(header)
  <2>1. 0 \in 0 .. Len(header) /\ Len(header) \in 0 .. Len(header)
    BY <1>1
  <2> QED
    BY <1>2, <2>1, Zenon DEF Unfinished
<1> QED
  BY <1>5, <1>6, <1>7 DEF Unfinished

\* The headers that can be asked for, and none, are sequences of words.
LEMMA HeaderFact ==
  ASSUME NEW c \in Clients, NEW h \in Headers[c] \cup {<<>>}
  PROVE  h \in Seq(Words)
BY HeadersAssumption, EmptySeq

\* A connection that moves takes a place, gives it up, or does neither.
LEMMA ServedAfter ==
  ASSUME NEW c \in Clients, NEW p, conn \in [Clients -> Places],
         IsFiniteSet(Served), conn' = [conn EXCEPT ![c] = p]
  PROVE  /\ IsFiniteSet(Served') /\ Cardinality(Served) \in Nat
         /\ Cardinality(Served') =
              Cardinality(Served)
              + (IF p \in Serving THEN 1 ELSE 0)
              - (IF conn[c] \in Serving THEN 1 ELSE 0)
<1>1. Cardinality(Served) \in Nat
  BY FS_CardinalityType
<1>2. CASE p \in Serving
  <2>1. Served' = Served \cup {c}
    BY <1>2 DEF Served
  <2>2. c \in Served <=> conn[c] \in Serving
    BY DEF Served
  <2> QED
    BY <1>1, <1>2, <2>1, <2>2, FS_AddElement
<1>3. CASE p \notin Serving
  <2>1. Served' = Served \ {c}
    BY <1>3 DEF Served
  <2>2. c \in Served <=> conn[c] \in Serving
    BY DEF Served
  <2> QED
    BY <1>1, <1>3, <2>1, <2>2, FS_RemoveElement
<1> QED
  BY <1>2, <1>3

\* A connection forgotten leaves nothing behind.
LEMMA Forgotten ==
  ASSUME IInv, NEW c \in Clients, Forgets(c), UNCHANGED <<queue, main>>
  PROVE  Typed' /\ ReadAsAsked'
<1>1. <<>> \in Seq(Words) /\ <<>> \in Unfinished(<<>>)
  BY EmptySeq, UnfinishedFact
<1>2. Typed'
  BY <1>1 DEF IInv, Typed, Forgets, Places, Endings, Replies
<1>3. ReadAsAsked'
  BY <1>1 DEF IInv, Typed, ReadAsAsked, Forgets
<1> QED
  BY <1>2, <1>3

\* The queue is as it was, and so is every connection that waits for a report.
LEMMA QueueKept ==
  ASSUME IInv, NEW c \in Clients, conn[c] # "awaiting", UNCHANGED queue,
         NEW p, conn' = [conn EXCEPT ![c] = p]
  PROVE  QueuedAsRead' /\ OneWaiter'
<1>1. QueuedAsRead'
  BY DEF IInv, QueuedAsRead
<1>2. \A i \in 1 .. Len(queue) : queue[i] \in Entries
  BY ElementOfSeq DEF IInv, Typed
<1>3. \A i \in 1 .. Len(queue) : Asks(queue[i]) => conn'[queue[i].from] = "awaiting"
  BY <1>2 DEF IInv, Typed, OneWaiter, Asks, Entries
<1>4. OneWaiter'
  BY <1>3 DEF IInv, OneWaiter, Asks
<1> QED
  BY <1>1, <1>4
-----------------------------------------------------------------------------
(* Every step preserves it. *)

\* A connection begins or moves on, or is forgotten, without a place of its own.
LEMMA PlacesKept ==
  ASSUME IInv, NEW c \in Clients, NEW p, conn' = [conn EXCEPT ![c] = p],
         p \in Serving <=> conn[c] \in Serving, UNCHANGED active
  PROVE  PlacesCounted'
<1>1. conn \in [Clients -> Places] /\ IsFiniteSet(Served)
  BY DEF IInv, Typed, PlacesCounted
<1>2. IsFiniteSet(Served') /\ Cardinality(Served') = Cardinality(Served)
  <2>1. /\ IsFiniteSet(Served') /\ Cardinality(Served) \in Nat
        /\ Cardinality(Served') = Cardinality(Served)
             + (IF p \in Serving THEN 1 ELSE 0) - (IF conn[c] \in Serving THEN 1 ELSE 0)
    BY <1>1, ServedAfter
  <2> QED
    BY <2>1
<1> QED
  BY <1>2 DEF IInv, PlacesCounted

\* A connection that ends gives up its place.
LEMMA PlaceGivenUp ==
  ASSUME IInv, NEW c \in Clients, conn[c] \in Serving, Ends(c)
  PROVE  PlacesCounted'
<1>1. /\ conn \in [Clients -> Places] /\ IsFiniteSet(Served)
      /\ conn' = [conn EXCEPT ![c] = "closed"] /\ active' = active - 1
      /\ active = Cardinality(Served) /\ active <= MaxConnections
      /\ "closed" \notin Serving
  BY DEF IInv, Typed, PlacesCounted, Ends, Forgets, Serving
<1>2. /\ IsFiniteSet(Served') /\ Cardinality(Served) \in Nat
      /\ Cardinality(Served') = Cardinality(Served) + 0 - 1
  BY <1>1, ServedAfter
<1>3. MaxConnections \in Nat
  BY LimitsAssumption
<1> QED
  BY <1>1, <1>2, <1>3 DEF PlacesCounted

LEMMA ConnectsKeeps ==
  ASSUME IInv, NEW c \in Clients, Connects(c)
  PROVE  IInv'
<1>1. PICK header \in Headers[c] : asked' = [asked EXCEPT ![c] = header]
  BY DEF Connects
<1>2. header \in Seq(Words)
  BY HeaderFact
<1>3. Typed'
  BY <1>1, <1>2 DEF IInv, Typed, Connects, Places
<1>4. ReadAsAsked'
  <2>1. <<>> \in Unfinished(header)
    BY <1>2, UnfinishedFact
  <2> QED
    BY <1>1, <2>1 DEF IInv, Typed, ReadAsAsked, Connects
<1>5. QueuedAsRead' /\ OneWaiter'
  BY QueueKept DEF Connects
<1>6. PlacesCounted'
  BY PlacesKept DEF Connects, Serving
<1> QED
  BY <1>3, <1>4, <1>5, <1>6 DEF IInv

LEMMA TakenUpKeeps ==
  ASSUME IInv, NEW c \in Clients, TakenUp(c)
  PROVE  IInv'
<1>1. CASE Accepts(c)
  <2>1. Typed'
    BY <1>1 DEF IInv, Typed, Accepts, Places
  <2>2. ReadAsAsked'
    BY <1>1 DEF IInv, Typed, ReadAsAsked, Accepts
  <2>3. QueuedAsRead' /\ OneWaiter'
    BY <1>1, QueueKept DEF Accepts
  <2>4. PlacesCounted'
    <3>1. /\ conn \in [Clients -> Places] /\ IsFiniteSet(Served)
          /\ conn' = [conn EXCEPT ![c] = "reading"] /\ active' = active + 1
          /\ active = Cardinality(Served) /\ active < MaxConnections
          /\ "reading" \in Serving /\ conn[c] \notin Serving
      BY <1>1 DEF IInv, Typed, PlacesCounted, Accepts, Serving
    <3>2. /\ IsFiniteSet(Served') /\ Cardinality(Served) \in Nat
          /\ Cardinality(Served') = Cardinality(Served) + 1 - 0
      BY <3>1, ServedAfter
    <3>3. MaxConnections \in Nat
      BY LimitsAssumption
    <3> QED
      BY <3>1, <3>2, <3>3 DEF PlacesCounted
  <2> QED
    BY <2>1, <2>2, <2>3, <2>4 DEF IInv
<1>2. CASE TurnsAway(c) \/ NoThread(c)
  <2>1. Forgets(c) /\ UNCHANGED <<active, queue, main>> /\ conn[c] = "backlog"
    BY <1>2 DEF TurnsAway, NoThread
  <2>2. QueuedAsRead' /\ OneWaiter'
    BY <2>1, QueueKept DEF Forgets
  <2>3. PlacesCounted'
    BY <2>1, PlacesKept DEF Forgets, Serving
  <2> QED
    BY <2>1, <2>2, <2>3, Forgotten DEF IInv
<1> QED
  BY <1>1, <1>2 DEF TakenUp

LEMMA ReadsKeeps ==
  ASSUME IInv, NEW c \in Clients, Reads(c)
  PROVE  IInv'
<1>1. PICK ending \in Endings, whole \in BOOLEAN,
          line \in {asked[c]} \cup Unfinished(asked[c]) :
        /\ line \in IF whole THEN {asked[c]} ELSE Unfinished(asked[c])
        /\ IF Kept(line, whole, ending) = <<>> THEN Ends(c)
           ELSE /\ conn' = [conn EXCEPT ![c] = "acting"]
                /\ raw' = [raw EXCEPT ![c] = Kept(line, whole, ending)]
                /\ how' = [how EXCEPT ![c] = ending]
                /\ UNCHANGED <<asked, reply, active>>
  BY Zenon DEF Reads
<1>2. conn[c] = "reading" /\ UNCHANGED <<queue, main>>
  BY DEF Reads
<1>3. CASE Ends(c)
  <2>1. Typed' /\ ReadAsAsked'
    BY <1>2, <1>3, Forgotten DEF Ends
  <2>2. QueuedAsRead' /\ OneWaiter'
    BY <1>2, <1>3, QueueKept DEF Ends, Forgets
  <2>3. PlacesCounted'
    BY <1>2, <1>3, PlaceGivenUp DEF Serving
  <2> QED
    BY <2>1, <2>2, <2>3 DEF IInv
<1>4. CASE ~Ends(c)
  <2> DEFINE kept == Kept(line, whole, ending)
  <2>1. /\ conn' = [conn EXCEPT ![c] = "acting"] /\ raw' = [raw EXCEPT ![c] = kept]
        /\ how' = [how EXCEPT ![c] = ending] /\ UNCHANGED <<asked, reply, active>>
    BY <1>1, <1>4
  <2>2. kept \in Seq(Words) /\ kept \in Unfinished(asked[c])
        /\ (ending = "expired" => kept = asked[c])
    <3>1. asked[c] \in Seq(Words)
      BY DEF IInv, Typed
    <3>2. line \in Unfinished(asked[c]) /\ <<>> \in Unfinished(asked[c])
      BY <1>1, <3>1, UnfinishedFact
    <3>3. ending = "expired" /\ kept # <<>> => line = asked[c]
      BY <1>1 DEF Kept
    <3>4. kept # <<>>
      BY <1>1, <1>4
    <3> QED
      BY <3>1, <3>2, <3>3, <3>4, UnfinishedFact DEF Kept
  <2> HIDE DEF kept
  <2>3. Typed'
    BY <1>2, <2>1, <2>2 DEF IInv, Typed, Places
  <2>4. ReadAsAsked'
    BY <1>2, <2>1, <2>2 DEF IInv, Typed, ReadAsAsked
  <2>5. QueuedAsRead' /\ OneWaiter'
    BY <1>2, <2>1, QueueKept
  <2>6. PlacesCounted'
    BY <1>2, <2>1, PlacesKept DEF Serving
  <2> QED
    BY <2>3, <2>4, <2>5, <2>6 DEF IInv
<1> QED
  BY <1>3, <1>4

LEMMA ActsKeeps ==
  ASSUME IInv, NEW c \in Clients, Acts(c)
  PROVE  IInv'
<1> DEFINE cmd == ParseRequest(raw[c])
<1>1. conn[c] = "acting" /\ main' = main /\ raw[c] \in Seq(Words)
  BY DEF Acts, IInv, Typed
<1>2. CASE cmd = Refused \/ ~Room
  <2>1. Tells(c, "error") /\ UNCHANGED <<asked, raw, how, active, queue>>
    BY <1>2 DEF Acts
  <2>2. Typed'
    BY <1>1, <2>1 DEF IInv, Typed, Tells, Places, Replies
  <2>3. ReadAsAsked'
    BY <1>1, <2>1 DEF IInv, Typed, ReadAsAsked, Tells
  <2>4. QueuedAsRead' /\ OneWaiter'
    BY <1>1, <2>1, QueueKept DEF Tells
  <2>5. PlacesCounted'
    BY <1>1, <2>1, PlacesKept DEF Tells, Serving
  <2> QED
    BY <2>2, <2>3, <2>4, <2>5 DEF IInv
<1>3. CASE cmd # Refused /\ Room
  <2> DEFINE e == Entry(c, cmd)
             n == Len(queue)
             p == IF cmd.do = "status" THEN "awaiting" ELSE "closed"
  <2>1. queue \in Seq(Entries) /\ n \in Nat /\ n < QueueDepth
    BY <1>3, LenProperties DEF IInv, Typed, Room
  <2>2. /\ queue' = Append(queue, e)
        /\ IF cmd.do = "status"
           THEN conn' = [conn EXCEPT ![c] = "awaiting"]
                /\ UNCHANGED <<asked, raw, how, reply, active>>
           ELSE Ends(c)
    BY <1>3, <2>1 DEF Acts
  <2>3. /\ e.from = c /\ e.cmd = cmd /\ e.raw = raw[c] /\ e.asked = asked[c]
        /\ e.how = how[c] /\ e \in Entries
    BY <1>1 DEF Entry, Entries, IInv, Typed
  <2> HIDE DEF e
  <2>4. /\ queue' \in Seq(Entries) /\ Len(queue') = n + 1
        /\ \A i \in 1 .. n : queue'[i] = queue[i]
        /\ queue'[n + 1] = e
    BY <2>1, <2>2, <2>3, AppendProperties
  <2>5. conn' = [conn EXCEPT ![c] = p]
    BY <2>2 DEF Ends, Forgets
  <2>6. Typed' /\ ReadAsAsked'
    <3>1. CASE cmd.do = "status"
      <4>1. conn' = [conn EXCEPT ![c] = "awaiting"] /\ UNCHANGED <<asked, raw, how, reply>>
        BY <2>2, <3>1
      <4>2. QueueDepth \in Int
        BY LimitsAssumption
      <4>3. Typed'
        BY <1>1, <2>1, <2>4, <4>1, <4>2 DEF IInv, Typed, Places
      <4>4. ReadAsAsked'
        BY <1>1, <4>1 DEF IInv, Typed, ReadAsAsked
      <4> QED
        BY <4>3, <4>4
    <3>2. CASE cmd.do # "status"
      <4>1. <<>> \in Seq(Words) /\ <<>> \in Unfinished(<<>>)
        BY EmptySeq, UnfinishedFact
      <4>2. Ends(c)
        BY <2>2, <3>2
      <4>3. Typed'
        BY <1>1, <2>1, <2>4, <4>1, <4>2, LimitsAssumption
           DEF IInv, Typed, Ends, Forgets, Places, Endings, Replies
      <4>4. ReadAsAsked'
        BY <4>1, <4>2 DEF IInv, Typed, ReadAsAsked, Ends, Forgets
      <4> QED
        BY <4>3, <4>4
    <3> QED
      BY <3>1, <3>2
  <2>7. QueuedAsRead'
    <3>1. \A i \in 1 .. n : /\ queue[i].cmd = ParseRequest(queue[i].raw)
                            /\ queue[i].cmd # Refused
                            /\ queue[i].how = "expired" => queue[i].raw = queue[i].asked
      BY DEF IInv, QueuedAsRead
    <3>2. how[c] = "expired" => raw[c] = asked[c]
      BY DEF IInv, ReadAsAsked
    <3>3. \A i \in 1 .. n + 1 : i \in 1 .. n \/ i = n + 1
      BY <2>1
    <3> QED
      BY <1>3, <2>3, <2>4, <3>1, <3>2, <3>3 DEF QueuedAsRead
  <2>8. OneWaiter'
    <3>1. \A i \in 1 .. n : queue[i] \in Entries
      BY <2>1, ElementOfSeq
    <3>2. \A i \in 1 .. n :
            Asks(queue[i]) => queue[i].from # c /\ conn'[queue[i].from] = "awaiting"
      BY <1>1, <2>5, <3>1 DEF IInv, Typed, OneWaiter, Asks, Entries
    <3>3. Asks(e) => conn'[e.from] = "awaiting"
      BY <2>3, <2>5 DEF Asks, IInv, Typed
    <3>4. \A i \in 1 .. n + 1 : i \in 1 .. n \/ i = n + 1
      BY <2>1
    <3>5. \A i \in 1 .. n + 1 : Asks(queue'[i]) => conn'[queue'[i].from] = "awaiting"
      BY <2>4, <3>2, <3>3, <3>4
    <3>6. ASSUME NEW i \in 1 .. n + 1, NEW j \in 1 .. n + 1, Asks(queue'[i]),
                 Asks(queue'[j]), queue'[i].from = queue'[j].from
          PROVE  i = j
      <4>1. CASE i \in 1 .. n /\ j \in 1 .. n
        BY <2>4, <3>6, <4>1 DEF IInv, OneWaiter
      <4>2. CASE i = n + 1 \/ j = n + 1
        BY <2>3, <2>4, <3>2, <3>4, <3>6, <4>2
      <4> QED
        BY <3>4, <4>1, <4>2
    <3> QED
      BY <2>4, <3>5, <3>6 DEF OneWaiter, Asks
  <2>9. PlacesCounted'
    <3>1. CASE cmd.do = "status"
      BY <1>1, <2>2, <3>1, PlacesKept DEF Serving
    <3>2. CASE cmd.do # "status"
      BY <1>1, <2>2, <3>2, PlaceGivenUp DEF Serving
    <3> QED
      BY <3>1, <3>2
  <2> QED
    BY <2>6, <2>7, <2>8, <2>9 DEF IInv
<1> QED
  BY <1>2, <1>3

LEMMA GivesUpKeeps ==
  ASSUME IInv, NEW c \in Clients, GivesUp(c)
  PROVE  IInv'
<1>1. /\ conn[c] = "awaiting" /\ Tells(c, "error") /\ queue' = Hangup(c)
      /\ UNCHANGED <<asked, raw, how, active, main>>
  BY DEF GivesUp
<1> DEFINE n == Len(queue)
<1>2. queue \in Seq(Entries) /\ n \in Nat /\ DOMAIN queue = 1 .. n
      /\ \A i \in 1 .. n : queue[i] \in Entries
  BY LenProperties, ElementOfSeq DEF IInv, Typed
<1>3. \A i \in 1 .. n :
        /\ queue'[i].from = IF queue[i].from = c THEN "none" ELSE queue[i].from
        /\ queue'[i].cmd = queue[i].cmd /\ queue'[i].raw = queue[i].raw
        /\ queue'[i].asked = queue[i].asked /\ queue'[i].how = queue[i].how
        /\ queue'[i] \in Entries
  BY <1>1, <1>2 DEF Hangup, Entries
<1>4. queue' \in Seq(Entries) /\ Len(queue') = n
  BY <1>1, <1>2, <1>3 DEF Hangup
<1>5. Typed'
  BY <1>1, <1>4 DEF IInv, Typed, Tells, Places, Replies
<1>6. ReadAsAsked'
  BY <1>1 DEF IInv, Typed, ReadAsAsked, Tells
<1>7. QueuedAsRead'
  BY <1>3, <1>4 DEF IInv, QueuedAsRead
<1>8. OneWaiter'
  <2>1. \A i \in 1 .. n : Asks(queue'[i]) =>
          Asks(queue[i]) /\ queue[i].from # c /\ queue'[i].from = queue[i].from
    BY <1>3 DEF Asks
  <2>2. \A i \in 1 .. n : Asks(queue'[i]) => conn'[queue'[i].from] = "awaiting"
    BY <1>1, <1>2, <2>1 DEF IInv, Typed, OneWaiter, Tells, Asks, Entries
  <2>3. \A i, j \in 1 .. n :
          Asks(queue'[i]) /\ Asks(queue'[j]) /\ queue'[i].from = queue'[j].from => i = j
    BY <2>1 DEF IInv, OneWaiter
  <2> QED
    BY <1>4, <2>2, <2>3 DEF OneWaiter, Asks
<1>9. PlacesCounted'
  BY <1>1, PlacesKept DEF Tells, Serving
<1> QED
  BY <1>5, <1>6, <1>7, <1>8, <1>9 DEF IInv

LEMMA ClosesKeeps ==
  ASSUME IInv, NEW c \in Clients, Closes(c)
  PROVE  IInv'
<1>1. conn[c] = "replying" /\ Ends(c) /\ UNCHANGED <<queue, main>>
  BY DEF Closes
<1>2. Typed' /\ ReadAsAsked'
  BY <1>1, Forgotten DEF Ends
<1>3. QueuedAsRead' /\ OneWaiter'
  BY <1>1, QueueKept DEF Ends, Forgets
<1>4. PlacesCounted'
  BY <1>1, PlaceGivenUp DEF Serving
<1> QED
  BY <1>2, <1>3, <1>4 DEF IInv

LEMMA HandlesKeeps ==
  ASSUME IInv, Handles
  PROVE  IInv'
<1> DEFINE e == Head(queue)
           n == Len(queue)
<1>1. /\ queue # <<>> /\ queue' = Tail(queue) /\ UNCHANGED <<asked, raw, how, active, main>>
      /\ IF Asks(e) THEN Tells(e.from, "report") ELSE UNCHANGED <<conn, reply>>
  BY DEF Handles, Asks
<1>2. queue \in Seq(Entries) /\ n \in Nat /\ \A i \in 1 .. n : queue[i] \in Entries
  BY LenProperties, ElementOfSeq DEF IInv, Typed
<1>3. /\ n >= 1 /\ e = queue[1] /\ queue' \in Seq(Entries) /\ Len(queue') = n - 1
      /\ \A i \in 1 .. n - 1 : queue'[i] = queue[i + 1]
  BY <1>1, <1>2, HeadTailProperties, EmptySeq
<1> HIDE DEF e, n
<1>4. Asks(e) => e.from \in Clients /\ conn[e.from] = "awaiting"
  BY <1>2, <1>3 DEF IInv, OneWaiter, Asks, Entries, n
<1>5. \A i \in 1 .. n - 1 : i + 1 \in 1 .. n /\ i + 1 # 1
  BY <1>2, <1>3
<1>6. Typed'
  <2>1. QueueDepth \in Int /\ n <= QueueDepth
    BY LimitsAssumption DEF IInv, Typed, n
  <2>2. Len(queue') <= QueueDepth
    BY <1>2, <1>3, <2>1
  <2>3. conn' \in [Clients -> Places] /\ reply' \in [Clients -> Replies]
    BY <1>1, <1>4 DEF IInv, Typed, Tells, Places, Replies
  <2> QED
    BY <1>1, <1>3, <2>2, <2>3 DEF IInv, Typed
<1>7. ReadAsAsked'
  BY <1>1, <1>4 DEF IInv, Typed, ReadAsAsked, Tells
<1>8. QueuedAsRead'
  BY <1>3, <1>5 DEF IInv, QueuedAsRead, n
<1>9. OneWaiter'
  <2>1. \A i \in 1 .. n - 1 : Asks(queue'[i]) =>
          /\ queue'[i].from \in Clients /\ conn[queue'[i].from] = "awaiting"
          /\ Asks(e) => queue'[i].from # e.from
    <3>1. \A i \in 1 .. n : Asks(queue[i]) =>
            queue[i].from \in Clients /\ conn[queue[i].from] = "awaiting"
      BY <1>2 DEF IInv, OneWaiter, Asks, Entries, n
    <3>2. \A i \in 1 .. n : Asks(queue[1]) /\ Asks(queue[i]) /\ i # 1
                             => queue[i].from # queue[1].from
      BY <1>2, <1>3 DEF IInv, OneWaiter, n
    <3> QED
      BY <1>3, <1>5, <3>1, <3>2
  <2>2. \A i \in 1 .. n - 1 : Asks(queue'[i]) => conn'[queue'[i].from] = "awaiting"
    BY <1>1, <1>4, <2>1 DEF Tells, IInv, Typed
  <2>3. \A i, j \in 1 .. n - 1 :
          Asks(queue'[i]) /\ Asks(queue'[j]) /\ queue'[i].from = queue'[j].from => i = j
    <3>1. \A i, j \in 1 .. n :
            Asks(queue[i]) /\ Asks(queue[j]) /\ queue[i].from = queue[j].from => i = j
      BY DEF IInv, OneWaiter, n
    <3>2. \A i, j \in 1 .. n - 1 : i + 1 = j + 1 => i = j
      BY <1>2
    <3> QED
      BY <1>3, <1>5, <3>1, <3>2
  <2> QED
    BY <1>3, <2>2, <2>3 DEF OneWaiter, Asks
<1>10. PlacesCounted'
  <2>1. CASE Asks(e)
    BY <1>1, <1>4, <2>1, PlacesKept DEF Tells, Serving
  <2>2. CASE ~Asks(e)
    BY <1>1, <2>2 DEF IInv, PlacesCounted, Served
  <2> QED
    BY <2>1, <2>2
<1> QED
  BY <1>6, <1>7, <1>8, <1>9, <1>10 DEF IInv

LEMMA LeavesKeeps ==
  ASSUME IInv, Leaves
  PROVE  IInv'
<1>1. /\ main' = "gone" /\ queue' = <<>> /\ UNCHANGED <<conn, asked, raw, how, reply, active>>
      /\ Len(queue') = 0 /\ queue' \in Seq(Entries)
  BY EmptySeq DEF Leaves
<1>2. Typed'
  BY <1>1, LimitsAssumption DEF IInv, Typed
<1>3. ReadAsAsked' /\ QueuedAsRead' /\ OneWaiter' /\ PlacesCounted'
  BY <1>1 DEF IInv, ReadAsAsked, QueuedAsRead, OneWaiter, PlacesCounted, Served
<1> QED
  BY <1>2, <1>3 DEF IInv

-----------------------------------------------------------------------------
(* Theorems. *)

\* The types, the requests read and queued, who waits for a report and the
\* count of places stay as the invariant says (serve, handle_connection).
THEOREM InductiveInvariant == Spec => []IInv
<1>1. Init => IInv
  <2> SUFFICES ASSUME Init PROVE IInv
    OBVIOUS
  <2>1. <<>> \in Seq(Words) /\ <<>> \in Unfinished(<<>>) /\ <<>> \in Seq(Entries)
        /\ Len(<<>>) = 0
    BY EmptySeq, UnfinishedFact
  <2>2. Typed
    BY <2>1, LimitsAssumption DEF Init, Typed, Places, Endings, Replies
  <2>3. ReadAsAsked
    BY <2>1 DEF Init, ReadAsAsked
  <2>4. QueuedAsRead /\ OneWaiter
    BY <2>1 DEF Init, QueuedAsRead, OneWaiter
  <2>5. PlacesCounted
    <3>1. Served = {}
      BY DEF Init, Served, Serving
    <3> QED
      BY <3>1, FS_EmptySet, LimitsAssumption DEF Init, PlacesCounted
  <2> QED
    BY <2>2, <2>3, <2>4, <2>5 DEF IInv
<1>2. IInv /\ [Next]_vars => IInv'
  <2> SUFFICES ASSUME IInv, [Next]_vars PROVE IInv'
    OBVIOUS
  <2>1. CASE UNCHANGED vars
    BY <2>1 DEF vars, IInv, Typed, ReadAsAsked, QueuedAsRead, OneWaiter, Asks,
                PlacesCounted, Served
  <2> QED
    BY <2>1, ConnectsKeeps, TakenUpKeeps, ReadsKeeps, ActsKeeps, GivesUpKeeps,
       ClosesKeeps, HandlesKeeps, LeavesKeeps DEF Next
<1> QED
  BY <1>1, <1>2, PTL DEF Spec

\* No request is widened, however much of it arrives and however its reading
\* ends: what a deadline cut off is what was asked, and a command for every bay
\* comes from a request that names none (read_request, parse_message).
THEOREM RequestsNotWidened == Spec => []NeverWidened
<1>1. IInv => NeverWidened
  <2> SUFFICES ASSUME IInv, NEW i \in DOMAIN queue
               PROVE  /\ queue[i].how = "expired" => queue[i].cmd = ParseRequest(queue[i].asked)
                      /\ queue[i].cmd.do # "show" /\ queue[i].cmd.bay = AllBays
                           => "bay" \notin Kinds(queue[i].raw)
    BY DEF NeverWidened
  <2>1. i \in 1 .. Len(queue) /\ queue[i] \in Entries
    BY LenProperties, ElementOfSeq DEF IInv, Typed
  <2>2. /\ queue[i].cmd = ParseRequest(queue[i].raw) /\ queue[i].cmd # Refused
        /\ queue[i].how = "expired" => queue[i].raw = queue[i].asked
        /\ queue[i].raw \in Seq(Words)
    BY <2>1 DEF IInv, QueuedAsRead, Entries
  <2> QED
    BY <2>2, ForAllOnlyIfAsked
<1> QED
  BY <1>1, InductiveInvariant, PTL

\* The places counted are those of the connections that are served, and a place
\* is free again however its connection ended (Slot).
THEOREM PlacesFreed == Spec => []PlacesAreFreed
<1>1. IInv => PlacesAreFreed
  BY DEF IInv, PlacesCounted, Served, PlacesAreFreed
<1> QED
  BY <1>1, InductiveInvariant, PTL

\* Every variable has its type; in particular there are never more connections
\* than MaxConnections nor commands than the queue takes (Slot, enqueue).
THEOREM TypeCorrect == Spec => []TypeOK
<1>1. IInv => TypeOK
  <2> SUFFICES ASSUME IInv PROVE TypeOK
    OBVIOUS
  <2>1. active \in 0 .. MaxConnections
    <3>1. Cardinality(Served) \in Nat /\ MaxConnections \in Nat
      BY FS_CardinalityType, LimitsAssumption DEF IInv, PlacesCounted
    <3> QED
      BY <3>1 DEF IInv, PlacesCounted
  <2> QED
    BY <2>1 DEF IInv, Typed, ReadAsAsked, TypeOK
<1> QED
  BY <1>1, InductiveInvariant, PTL
=============================================================================
