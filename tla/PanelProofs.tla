------------------------------ MODULE PanelProofs ------------------------------
(***************************************************************************)
(* Proofs about Panel, for any texts, any number of presses and of faults. *)
(***************************************************************************)
EXTENDS Panel, FiniteSetTheorems, FunctionTheorems, SequenceTheorems, TLAPS

-----------------------------------------------------------------------------
(* The inductive invariant. *)

Jobs == [call : {"init1", "init2", "drain", "poll"}]
        \cup [call : {"show"}, state : {"on", "off"}]
        \cup [call : {"text"}, line : Lines, text : Texts]
        \cup [call : {"handle"}, report : ReportSubs]
Answers == {"show", "text", "init2"}
Frames == [sub : Answers \cup ReportSubs, ours : BOOLEAN]

HostTyped ==
  /\ want \in Wants /\ rendered \in [Lines -> Texts]
  /\ sent \in [Lines -> Texts \cup {None}] /\ displayOn \in {"on", "off", None}
  /\ pending \in Seq(ReportSubs)
  /\ flight \in [sub : Answers \cup {None}, attempt : 0 .. 2, touched : BOOLEAN]
PanelTyped ==
  /\ up \in Seq(Frames)
  /\ shows \in [Lines -> Texts \cup {Boot, Junk}] /\ lit \in BOOLEAN
  /\ part \in Partials /\ report \in ReportSubs \cup {None}
  /\ presses \in 0 .. MaxPresses /\ faults \in 0 .. MaxFaults
HistoryTyped == excused \in BOOLEAN /\ owed \in Int /\ waited \in Nat

\* What the loop still has to do, if r was rendered last and w polls have been
\* waited: the calls of the last Render come before all but other sends, the
\* two halves of init together, and the poll at the end, after a drain.
Orderly(t, r, w) ==
  /\ t \in Seq(Jobs)
  /\ \A i \in DOMAIN t :
       /\ t[i].call = "text" => /\ t[i].text = r[t[i].line]
                               /\ \A j \in 1 .. i - 1 : t[j].call \in Sends
       /\ t[i].call = "init1" => i + 1 \in DOMAIN t /\ t[i + 1] = Init2
       /\ t[i].call = "poll" =>
            i = Len(t) /\ (w > 0 => \E j \in 1 .. i - 1 : t[j].call = "drain")
  /\ w <= 1

\* A frame is under way for the call at the head.
FlightIsHead ==
  flight.sub # None =>
    todo # <<>> /\ Job.call \in Sends /\ flight.sub = Subcommand(Job.call)
NoFlightIsNone == flight.sub = None => flight = NoFlight

\* No answer is as late as to be taken for that of a later frame.
AcksAreCurrent ==
  \A f \in Range(up) : f.ours /\ f.sub \in Answers => f.sub = flight.sub

\* The text confirmed on a line is there, and no partial frame will spoil it.
\* While a text is sent, that is known of the lines only once the answer is
\* on its way.
SentIsShown ==
  ~excused =>
    IF flight.sub # "text"
    THEN \A l \in Lines : sent[l] # None => part = {} /\ shows[l] = sent[l]
    ELSE Ack("text") \in Range(up) =>
           /\ part = {} /\ shows[Job.line] = Job.text
           /\ \A l \in Lines : l # Job.line /\ sent[l] # None => shows[l] = sent[l]

\* What was rendered is confirmed, or unknown, or still to be sent.
RenderIsSent ==
  ~excused /\ want.awake =>
    \A l \in Lines : sent[l] \in {None, rendered[l]} \/ Text(l, rendered[l]) \in Range(todo)

IInv ==
  /\ HostTyped /\ PanelTyped /\ HistoryTyped
  /\ Orderly(todo, rendered, waited) /\ FlightIsHead /\ NoFlightIsNone
  /\ AcksAreCurrent /\ SentIsShown /\ RenderIsSent /\ KeysAreHandled

-----------------------------------------------------------------------------
(* Sequences. *)

\* What is at which place of a tail.
LEMMA TailOf ==
  ASSUME NEW S, NEW s \in Seq(S), s # <<>>
  PROVE  /\ Tail(s) \in Seq(S) /\ Len(s) \in Nat \ {0} /\ DOMAIN s = 1 .. Len(s)
         /\ Head(s) = s[1] /\ s[1] \in S
         /\ Len(Tail(s)) = Len(s) - 1 /\ DOMAIN Tail(s) = 1 .. Len(s) - 1
         /\ \A i \in 1 .. Len(s) - 1 : Tail(s)[i] = s[i + 1]
<1>1. Tail(s) \in Seq(S) /\ Len(Tail(s)) = Len(s) - 1
      /\ \A i \in 1 .. Len(Tail(s)) : Tail(s)[i] = s[i + 1]
  BY HeadTailProperties
<1>2. Len(s) \in Nat \ {0}
  BY EmptySeq
<1>3. DOMAIN s = 1 .. Len(s) /\ DOMAIN Tail(s) = 1 .. Len(Tail(s))
  BY <1>1, LenProperties
<1>4. Head(s) = s[1] /\ s[1] \in S
  BY <1>2
<1> QED
  BY <1>1, <1>2, <1>3, <1>4

\* The same for a concatenation.
LEMMA ConcatOf ==
  ASSUME NEW S, NEW s \in Seq(S), NEW t \in Seq(S)
  PROVE  /\ s \o t \in Seq(S) /\ Len(s) \in Nat /\ Len(t) \in Nat
         /\ Len(s \o t) = Len(s) + Len(t) /\ DOMAIN (s \o t) = 1 .. Len(s) + Len(t)
         /\ DOMAIN s = 1 .. Len(s) /\ DOMAIN t = 1 .. Len(t)
         /\ \A i \in 1 .. Len(s) : (s \o t)[i] = s[i]
         /\ \A i \in Len(s) + 1 .. Len(s) + Len(t) : (s \o t)[i] = t[i - Len(s)]
<1>1. /\ s \o t \in Seq(S) /\ Len(s \o t) = Len(s) + Len(t)
      /\ \A i \in 1 .. Len(s) + Len(t) :
            (s \o t)[i] = IF i <= Len(s) THEN s[i] ELSE t[i - Len(s)]
  BY ConcatProperties
<1>2. /\ Len(s) \in Nat /\ Len(t) \in Nat /\ DOMAIN s = 1 .. Len(s)
      /\ DOMAIN t = 1 .. Len(t) /\ DOMAIN (s \o t) = 1 .. Len(s \o t)
  BY <1>1, LenProperties
<1> QED
  BY <1>1, <1>2

\* Adding to all elements of a set of numbers leaves as many.
LEMMA Shifted ==
  ASSUME NEW n \in Nat, NEW A, A \subseteq 1 .. n, NEW m \in Nat
  PROVE  /\ IsFiniteSet(A) /\ IsFiniteSet({i + m : i \in A})
         /\ Cardinality({i + m : i \in A}) = Cardinality(A)
<1> DEFINE B == {i + m : i \in A}
           f == [i \in A |-> i + m]
<1>1. IsFiniteSet(A)
  <2>1. IsFiniteSet(1 .. n)
    BY FS_Interval
  <2> QED
    BY <2>1, FS_Subset
<1>2. f \in [A -> B] /\ \A b \in B : \E a \in A : f[a] = b
  OBVIOUS
<1>3. \A a, b \in A : f[a] = f[b] => a = b
  <2>1. \A a \in A : a \in Int
    OBVIOUS
  <2> QED
    BY <2>1
<1> HIDE DEF f, B
<1>4. f \in Bijection(A, B)
  BY <1>2, <1>3, Fun_IsBij
<1>5. ExistsBijection(A, B)
  BY <1>4 DEF ExistsBijection
<1>6. IsFiniteSet(B) /\ Cardinality(B) = Cardinality(A)
  BY <1>1, <1>5, FS_Bijection
<1> QED
  BY <1>1, <1>6 DEF B

\* One element and then two.
LEMMA OneAndTwo ==
  ASSUME NEW S, NEW a \in S, NEW b \in S, NEW c \in S
  PROVE  <<a>> \o <<b, c>> = <<a, b, c>>
<1> DEFINE x == <<a>>
           y == <<b, c>>
           z == <<a, b, c>>
           s == x \o y
<1>1. x \in Seq(S) /\ Len(x) = 1 /\ x[1] = a
  OBVIOUS
<1>2. y \in Seq(S) /\ Len(y) = 2 /\ y[1] = b /\ y[2] = c
  OBVIOUS
<1>3. z \in Seq(S) /\ Len(z) = 3 /\ z[1] = a /\ z[2] = b /\ z[3] = c
  OBVIOUS
<1> HIDE DEF x, y, z
<1>4. /\ s \in Seq(S) /\ Len(s) = Len(x) + Len(y)
      /\ \A i \in 1 .. Len(x) + Len(y) : s[i] = IF i <= Len(x) THEN x[i] ELSE y[i - Len(x)]
  BY <1>1, <1>2, ConcatProperties
<1> HIDE DEF s
<1>5. Len(s) = 3 /\ \A i \in 1 .. 3 : s[i] = IF i <= 1 THEN x[i] ELSE y[i - 1]
  BY <1>1, <1>2, <1>4
<1>6. s[1] = x[1] /\ s[2] = y[1] /\ s[3] = y[2]
  BY <1>5
<1>7. \A i \in 1 .. 3 : i = 1 \/ i = 2 \/ i = 3
  OBVIOUS
<1>8. \A i \in 1 .. Len(z) : s[i] = z[i]
  BY <1>1, <1>2, <1>3, <1>6, <1>7
<1>9. s = z
  BY <1>3, <1>4, <1>5, <1>8, SeqEqual
<1> QED
  BY <1>9 DEF s, x, y, z

\* A count is a number, and none if there is nothing to count.
LEMMA CountIsNat ==
  ASSUME NEW S, NEW s \in Seq(S), NEW x
  PROVE  /\ Count(s, x) \in Nat
         /\ (\A i \in DOMAIN s : s[i] # x) => Count(s, x) = 0
<1>1. Len(s) \in Nat /\ DOMAIN s = 1 .. Len(s)
  BY LenProperties
<1> DEFINE A == {i \in DOMAIN s : s[i] = x}
<1>2. IsFiniteSet(A)
  BY <1>1, Shifted
<1>3. Cardinality(A) \in Nat /\ (A = {} => Cardinality(A) = 0)
  BY <1>2, FS_CardinalityType, FS_EmptySet
<1> QED
  BY <1>3 DEF Count

\* The count of a concatenation is the sum.
LEMMA CountOfConcat ==
  ASSUME NEW S, NEW s \in Seq(S), NEW t \in Seq(S), NEW x
  PROVE  Count(s \o t, x) = Count(s, x) + Count(t, x)
<1> DEFINE m == Len(s)
           A == {i \in DOMAIN s : s[i] = x}
           B == {i \in DOMAIN t : t[i] = x}
           C == {i \in DOMAIN (s \o t) : (s \o t)[i] = x}
           D == {i + m : i \in B}
<1>1. /\ m \in Nat /\ Len(t) \in Nat /\ DOMAIN (s \o t) = 1 .. m + Len(t)
      /\ DOMAIN s = 1 .. m /\ DOMAIN t = 1 .. Len(t)
      /\ \A i \in 1 .. m : (s \o t)[i] = s[i]
      /\ \A i \in m + 1 .. m + Len(t) : (s \o t)[i] = t[i - m]
  BY ConcatOf
<1> HIDE DEF m
<1>2. A \subseteq 1 .. m /\ B \subseteq 1 .. Len(t)
  BY <1>1
<1>3. C = A \cup D
  <2>1. ASSUME NEW i \in C PROVE i \in A \cup D
    <3>1. CASE i \in 1 .. m
      BY <1>1, <2>1, <3>1
    <3>2. CASE i \in m + 1 .. m + Len(t)
      <4>1. i - m \in B /\ i = (i - m) + m
        BY <1>1, <2>1, <3>2
      <4> QED
        BY <4>1
    <3> QED
      BY <1>1, <2>1, <3>1, <3>2
  <2>2. A \subseteq C
    BY <1>1
  <2>3. ASSUME NEW i \in B PROVE i + m \in C
    <3>1. i \in 1 .. Len(t) /\ t[i] = x
      BY <1>1, <2>3
    <3>2. i + m \in m + 1 .. m + Len(t) /\ (i + m) - m = i
      BY <1>1, <3>1
    <3> QED
      BY <1>1, <3>1, <3>2
  <2> QED
    BY <2>1, <2>2, <2>3
<1>4. A \cap D = {}
  BY <1>1, <1>2
<1> HIDE DEF A, B, C, D
<1>5. IsFiniteSet(A) /\ Cardinality(A) \in Nat
  BY <1>1, <1>2, Shifted, FS_CardinalityType
<1>6. IsFiniteSet(D) /\ Cardinality(D) = Cardinality(B) /\ Cardinality(B) \in Nat
  BY <1>1, <1>2, Shifted, FS_CardinalityType DEF D
<1>7. Cardinality(C) = Cardinality(A) + Cardinality(D) - Cardinality(A \cap D)
  BY <1>3, <1>5, <1>6, FS_Union
<1>8. Cardinality(A \cap D) = 0
  BY <1>4, FS_EmptySet
<1>9. Cardinality(C) = Cardinality(A) + Cardinality(B)
  BY <1>5, <1>6, <1>7, <1>8
<1> QED
  BY <1>9 DEF Count, A, B, C

\* The count of one element.
LEMMA CountOfOne ==
  ASSUME NEW y, NEW x
  PROVE  Count(<<y>>, x) = IF y = x THEN 1 ELSE 0
<1>1. {i \in DOMAIN <<y>> : <<y>>[i] = x} = IF y = x THEN {1} ELSE {}
  OBVIOUS
<1> QED
  BY <1>1, FS_Singleton, FS_EmptySet DEF Count

\* What the head of a sequence adds to the count of its tail.
LEMMA CountOfTail ==
  ASSUME NEW S, NEW s \in Seq(S), s # <<>>, NEW x
  PROVE  Count(s, x) = Count(Tail(s), x) + (IF Head(s) = x THEN 1 ELSE 0)
<1>1. Head(s) \in S /\ Tail(s) \in Seq(S)
  BY TailOf
<1>2. <<Head(s)>> \in Seq(S)
  BY <1>1
<1>3. s = <<Head(s)>> \o Tail(s)
  <2>1. Len(s) \in Nat \ {0} /\ Head(s) = s[1]
    BY TailOf
  <2>2. 1 \in 1 .. Len(s) /\ Len(s) \in 1 .. Len(s) /\ 1 + 1 = 2
    BY <2>1
  <2>3. SubSeq(s, 1, Len(s)) = <<s[1]>> \o SubSeq(s, 1 + 1, Len(s))
    BY <2>2, SubSeqRecursiveFirst
  <2>4. SubSeq(s, 1, Len(s)) = s /\ Tail(s) = SubSeq(s, 2, Len(s))
    BY SubSeqFull, TailIsSubSeq
  <2> QED
    BY <2>1, <2>2, <2>3, <2>4, Zenon
<1>4. Count(<<Head(s)>> \o Tail(s), x) = Count(<<Head(s)>>, x) + Count(Tail(s), x)
  BY <1>1, <1>2, CountOfConcat
<1>5. Count(Tail(s), x) \in Nat
  BY <1>1, CountIsNat
<1>6. Count(<<Head(s)>>, x) = IF Head(s) = x THEN 1 ELSE 0
  BY CountOfOne
<1>7. Count(s, x) = Count(<<Head(s)>>, x) + Count(Tail(s), x)
  BY <1>3, <1>4, Zenon
<1> QED
  BY <1>5, <1>6, <1>7

-----------------------------------------------------------------------------
(* What the loop still has to do. *)

NoText(t) == \A i \in DOMAIN t : t[i].call # "text"
NoPoll(t) == \A i \in DOMAIN t : t[i].call # "poll"

\* One call is done.
LEMMA OrderlyTail ==
  ASSUME NEW r, NEW w \in Nat, NEW t, Orderly(t, r, w), t # <<>>,
         Head(t).call = "drain" => w = 0
  PROVE  /\ Orderly(Tail(t), r, w)
         /\ Head(t).call \notin Sends => NoText(Tail(t))
<1>1. t \in Seq(Jobs)
  BY DEF Orderly
<1>2. /\ Tail(t) \in Seq(Jobs) /\ Len(t) \in Nat \ {0} /\ DOMAIN t = 1 .. Len(t)
      /\ Head(t) = t[1] /\ Len(Tail(t)) = Len(t) - 1 /\ DOMAIN Tail(t) = 1 .. Len(t) - 1
      /\ \A i \in 1 .. Len(t) - 1 : Tail(t)[i] = t[i + 1]
  BY <1>1, TailOf
<1> DEFINE n == Len(t)
           u == Tail(t)
<1>3. /\ n \in Nat \ {0} /\ DOMAIN t = 1 .. n /\ Len(u) = n - 1 /\ DOMAIN u = 1 .. n - 1
      /\ \A i \in 1 .. n - 1 : u[i] = t[i + 1]
      /\ t[1].call = "drain" => w = 0
  BY <1>2
<1> HIDE DEF n, u
<1>4. ASSUME NEW i \in 1 .. n - 1
      PROVE  /\ i + 1 \in 1 .. n /\ u[i] = t[i + 1]
             /\ \A j \in 1 .. i - 1 : j + 1 \in 1 .. (i + 1) - 1 /\ u[j] = t[j + 1]
  BY <1>3
<1>5. ASSUME NEW i \in 1 .. n - 1, u[i].call = "text"
      PROVE  /\ u[i].text = r[u[i].line] /\ t[1].call \in Sends
             /\ \A j \in 1 .. i - 1 : u[j].call \in Sends
  <2>1. t[i + 1].text = r[t[i + 1].line] /\ \A j \in 1 .. (i + 1) - 1 : t[j].call \in Sends
    BY <1>3, <1>4, <1>5 DEF Orderly
  <2>2. 1 \in 1 .. (i + 1) - 1
    BY <1>3
  <2> QED
    BY <1>4, <2>1, <2>2
<1>6. ASSUME NEW i \in 1 .. n - 1, u[i].call = "init1"
      PROVE  i + 1 \in 1 .. n - 1 /\ u[i + 1] = Init2
  <2>1. (i + 1) + 1 \in 1 .. n /\ t[(i + 1) + 1] = Init2
    BY <1>3, <1>4, <1>6 DEF Orderly
  <2> QED
    BY <1>3, <2>1
<1>7. ASSUME NEW i \in 1 .. n - 1, u[i].call = "poll"
      PROVE  i = n - 1 /\ (w > 0 => \E j \in 1 .. i - 1 : u[j].call = "drain")
  <2>1. i + 1 = n /\ (w > 0 => \E j \in 1 .. (i + 1) - 1 : t[j].call = "drain")
    BY <1>3, <1>4, <1>7 DEF Orderly, n
  <2>2. ASSUME w > 0
        PROVE  \E j \in 1 .. i - 1 : u[j].call = "drain"
    <3>1. PICK j \in 1 .. (i + 1) - 1 : t[j].call = "drain"
      BY <2>1, <2>2
    <3>2. j # 1
      BY <1>3, <2>2, <3>1
    <3>3. j - 1 \in 1 .. i - 1 /\ (j - 1) + 1 = j
      BY <3>2
    <3>4. u[j - 1] = t[(j - 1) + 1]
      BY <1>4, <3>3
    <3> QED
      BY <3>1, <3>3, <3>4
  <2>3. i = n - 1
    BY <1>3, <2>1
  <2> QED
    BY <2>2, <2>3
<1>8. Orderly(u, r, w)
  <2>1. u \in Seq(Jobs) /\ w <= 1
    BY <1>2 DEF Orderly, u
  <2> QED
    BY <1>3, <1>5, <1>6, <1>7, <2>1 DEF Orderly
<1>9. Head(t).call \notin Sends => NoText(u)
  BY <1>2, <1>3, <1>5 DEF NoText
<1> QED
  BY <1>8, <1>9 DEF u

\* If no text is among them, it does not matter what was rendered; a drain
\* makes the polls waited for not matter.
LEMMA OrderlyAnyhow ==
  ASSUME NEW r, NEW w \in Nat, NEW t, Orderly(t, r, w), NEW q
  PROVE  /\ NoText(t) => Orderly(t, q, w)
         /\ Orderly(t, r, 0)
BY DEF Orderly, NoText

\* Calls are put before the others.
LEMMA OrderlyConcat ==
  ASSUME NEW r, NEW w \in Nat, NEW h, NEW t, Orderly(h, r, w), Orderly(t, r, w),
         NoPoll(h), NoText(t)
  PROVE  Orderly(h \o t, r, w)
<1>1. h \in Seq(Jobs)
  BY DEF Orderly
<1>10. t \in Seq(Jobs)
  BY DEF Orderly
<1>11. w <= 1
  BY DEF Orderly
<1> DEFINE m == Len(h)
           n == Len(t)
           u == h \o t
<1>2. /\ u \in Seq(Jobs) /\ m \in Nat /\ n \in Nat /\ DOMAIN h = 1 .. m /\ DOMAIN t = 1 .. n
      /\ DOMAIN u = 1 .. m + n /\ Len(u) = m + n
      /\ \A i \in 1 .. m : u[i] = h[i]
      /\ \A i \in m + 1 .. m + n : u[i] = t[i - m]
  BY ONLY <1>1, <1>10, ConcatOf
<1>3. n = Len(t)
  OBVIOUS
<1> HIDE DEF m, n, u
<1>4. ASSUME NEW i \in 1 .. m
      PROVE  /\ u[i].call = "text" => /\ u[i].text = r[u[i].line]
                                     /\ \A j \in 1 .. i - 1 : u[j].call \in Sends
             /\ u[i].call = "init1" => i + 1 \in 1 .. m + n /\ u[i + 1] = Init2
             /\ u[i].call # "poll"
  <2>1. u[i] = h[i] /\ \A j \in 1 .. i - 1 : u[j] = h[j]
    BY <1>2
  <2>2. /\ h[i].call = "text" => /\ h[i].text = r[h[i].line]
                                /\ \A j \in 1 .. i - 1 : h[j].call \in Sends
        /\ h[i].call = "init1" => i + 1 \in 1 .. m /\ h[i + 1] = Init2
        /\ h[i].call # "poll"
    BY <1>2 DEF Orderly, NoPoll
  <2> QED
    BY <1>2, <2>1, <2>2
<1>5. ASSUME NEW i \in m + 1 .. m + n
      PROVE  /\ u[i].call # "text"
             /\ u[i].call = "init1" => i + 1 \in 1 .. m + n /\ u[i + 1] = Init2
             /\ u[i].call = "poll" =>
                  i = m + n /\ (w > 0 => \E j \in 1 .. i - 1 : u[j].call = "drain")
  <2>1. i - m \in 1 .. n /\ u[i] = t[i - m]
    BY <1>2
  <2>2. /\ t[i - m].call # "text"
        /\ t[i - m].call = "init1" => (i - m) + 1 \in 1 .. n /\ t[(i - m) + 1] = Init2
        /\ t[i - m].call = "poll" =>
             i - m = n /\ (w > 0 => \E j \in 1 .. (i - m) - 1 : t[j].call = "drain")
    BY <1>2, <1>3, <2>1 DEF Orderly, NoText
  <2>3. ASSUME u[i].call = "init1" PROVE i + 1 \in 1 .. m + n /\ u[i + 1] = Init2
    <3>1. (i - m) + 1 \in 1 .. n /\ t[(i - m) + 1] = Init2
      BY <2>1, <2>2, <2>3
    <3>2. i + 1 \in m + 1 .. m + n /\ (i + 1) - m = (i - m) + 1
      BY <1>2, <3>1
    <3>3. u[i + 1] = t[(i + 1) - m]
      BY <1>2, <3>2
    <3> QED
      BY <1>2, <3>1, <3>2, <3>3
  <2>4. ASSUME u[i].call = "poll", w > 0 PROVE \E j \in 1 .. i - 1 : u[j].call = "drain"
    <3>1. PICK j \in 1 .. (i - m) - 1 : t[j].call = "drain"
      BY <2>1, <2>2, <2>4
    <3>2. j + m \in m + 1 .. m + n /\ (j + m) - m = j /\ j + m \in 1 .. i - 1
      BY <1>2, <2>1
    <3>3. u[j + m] = t[(j + m) - m]
      BY <1>2, <3>2
    <3> QED
      BY <3>1, <3>2, <3>3
  <2> QED
    BY <1>2, <2>1, <2>2, <2>3, <2>4
<1>6. Orderly(u, r, w)
  <2>1. \A i \in 1 .. m + n : i \in 1 .. m \/ i \in m + 1 .. m + n
    BY <1>2
  <2>2. ASSUME NEW i \in DOMAIN u
        PROVE  /\ u[i].call = "text" => /\ u[i].text = r[u[i].line]
                                       /\ \A j \in 1 .. i - 1 : u[j].call \in Sends
               /\ u[i].call = "init1" => i + 1 \in DOMAIN u /\ u[i + 1] = Init2
               /\ u[i].call = "poll" =>
                    i = Len(u) /\ (w > 0 => \E j \in 1 .. i - 1 : u[j].call = "drain")
    BY <1>2, <1>4, <1>5, <2>1
  <2> QED
    BY <1>11, <1>2, <2>2 DEF Orderly
<1> QED
  BY <1>6 DEF u

\* The calls are what they are said to be.
LEMMA CallsAreJobs ==
  /\ {Init1, Init2, Drain, Poll} \subseteq Jobs
  /\ \A on \in BOOLEAN : Show(on) \in Jobs
  /\ \A l \in Lines, t \in Texts : Text(l, t) \in Jobs
  /\ \A r \in ReportSubs : Handle(r) \in Jobs
BY DEF Init1, Init2, Drain, Poll, Show, OnOff, Text, Handle, Jobs

\* Only a call to handle a key is one.
LEMMA OnlyHandles ==
  /\ \A j : j = Handle("key") => j.call = "handle"
  /\ \A r : Handle(r) = Handle("key") <=> r = "key"
BY DEF Handle

\* The calls of an effect.
LEMMA EffectsAre ==
  ASSUME NEW wn \in Wants, NEW render \in BOOLEAN, NEW r \in [Lines -> Texts],
         render => r = wn.text, NEW w \in Nat, w <= 1
  PROVE  /\ Orderly(ApplyEffect(wn, render), r, w) /\ NoPoll(ApplyEffect(wn, render))
         /\ Count(ApplyEffect(wn, render), Handle("key")) = 0
         /\ render => \A l \in Lines : \E i \in DOMAIN ApplyEffect(wn, render) :
                        ApplyEffect(wn, render)[i] = Text(l, r[l])
<1>1. wn.lit \in BOOLEAN /\ wn.text \in [Lines -> Texts]
  BY DEF Wants
<1>2. Show(wn.lit) \in Jobs /\ Show(wn.lit).call = "show"
  BY <1>1, CallsAreJobs DEF Show
<1>3. CASE render
  <2> DEFINE a == Show(wn.lit)
             b == Text(0, r[0])
             c == Text(1, r[1])
             h == <<a, b, c>>
  <2>1. /\ b \in Jobs /\ b.call = "text" /\ b.line = 0 /\ b.text = r[0]
        /\ c \in Jobs /\ c.call = "text" /\ c.line = 1 /\ c.text = r[1]
    BY CallsAreJobs DEF Text, Lines
  <2>2. ApplyEffect(wn, render) = h
    <3>1. ApplyEffect(wn, render) = <<a>> \o <<b, c>>
      BY <1>3 DEF ApplyEffect
    <3>2. a \in Jobs
      BY <1>2
    <3> HIDE DEF a, b, c
    <3> QED
      BY <2>1, <3>1, <3>2, OneAndTwo
  <2>3. a \in Jobs /\ a.call = "show"
    BY <1>2
  <2>4. \A l \in Lines : l = 0 \/ l = 1
    BY DEF Lines
  <2>5. Text(0, r[0]) = b /\ Text(1, r[1]) = c
    OBVIOUS
  <2> HIDE DEF a, b, c
  <2>6. /\ h \in Seq(Jobs) /\ Len(h) = 3 /\ DOMAIN h = 1 .. 3
        /\ h[1] = a /\ h[2] = b /\ h[3] = c
    BY <2>1, <2>3
  <2> HIDE DEF h
  <2>7. \A i \in DOMAIN h : h[i].call # "poll" /\ h[i].call # "handle"
    BY <2>1, <2>3, <2>6
  <2>8. Orderly(h, r, w)
    BY <2>1, <2>3, <2>6 DEF Orderly, Sends
  <2>9. Count(h, Handle("key")) = 0
    BY <2>6, <2>7, OnlyHandles, CountIsNat
  <2>10. \A l \in Lines : \E i \in DOMAIN h : h[i] = Text(l, r[l])
    BY <2>4, <2>5, <2>6
  <2> QED
    BY <2>2, <2>7, <2>8, <2>9, <2>10 DEF NoPoll
<1>4. CASE ~render
  <2> DEFINE a == Show(wn.lit)
             h == <<a>>
  <2>1. ApplyEffect(wn, render) = h
    BY <1>4 DEF ApplyEffect
  <2>2. a \in Jobs /\ a.call = "show"
    BY <1>2
  <2> HIDE DEF a
  <2>3. h \in Seq(Jobs) /\ Len(h) = 1 /\ DOMAIN h = 1 .. 1 /\ h[1] = a
    BY <2>2
  <2> HIDE DEF h
  <2>4. Orderly(h, r, w) /\ \A i \in DOMAIN h : h[i].call # "poll" /\ h[i].call # "handle"
    BY <2>2, <2>3 DEF Orderly, Sends
  <2>5. Count(h, Handle("key")) = 0
    BY <2>3, <2>4, OnlyHandles, CountIsNat
  <2> QED
    BY <1>4, <2>1, <2>4, <2>5 DEF NoPoll
<1> QED
  BY <1>3, <1>4

\* The lists of two calls.
LEMMA PairsAre ==
  ASSUME NEW r, NEW w \in Nat, w <= 1
  PROVE  /\ Orderly(<<Init1, Init2>>, r, w) /\ NoPoll(<<Init1, Init2>>)
         /\ NoText(<<Init1, Init2>>) /\ Count(<<Init1, Init2>>, Handle("key")) = 0
         /\ Orderly(<<Drain, Poll>>, r, w) /\ NoText(<<Drain, Poll>>)
         /\ Count(<<Drain, Poll>>, Handle("key")) = 0
         /\ Orderly(<<Handle("key"), Drain>>, r, w)
         /\ Count(<<Handle("key"), Drain>>, Handle("key")) = 1
         /\ Orderly(<<Handle("version")>>, r, w)
         /\ Count(<<Handle("version")>>, Handle("key")) = 0
<1>1. /\ Init1 \in Jobs /\ Init1.call = "init1" /\ Init2 \in Jobs /\ Init2.call = "init2"
      /\ Drain \in Jobs /\ Drain.call = "drain" /\ Poll \in Jobs /\ Poll.call = "poll"
      /\ Handle("key") \in Jobs /\ Handle("key").call = "handle"
      /\ Handle("version") \in Jobs /\ Handle("version").call = "handle"
  BY CallsAreJobs DEF Init1, Init2, Drain, Poll, Handle, ReportSubs
<1>2. ASSUME NEW a \in Jobs, NEW b \in Jobs
      PROVE  /\ <<a, b>> \in Seq(Jobs) /\ Len(<<a, b>>) = 2 /\ DOMAIN <<a, b>> = 1 .. 2
             /\ <<a, b>>[1] = a /\ <<a, b>>[2] = b
  OBVIOUS
<1>3. /\ Orderly(<<Init1, Init2>>, r, w) /\ NoPoll(<<Init1, Init2>>)
      /\ NoText(<<Init1, Init2>>) /\ Count(<<Init1, Init2>>, Handle("key")) = 0
  <2> DEFINE h == <<Init1, Init2>>
  <2>1. h \in Seq(Jobs) /\ Len(h) = 2 /\ DOMAIN h = 1 .. 2 /\ h[1] = Init1 /\ h[2] = Init2
    BY <1>1, <1>2
  <2> HIDE DEF h
  <2>2. Orderly(h, r, w) /\ NoPoll(h) /\ NoText(h)
    BY <1>1, <2>1 DEF Orderly, NoPoll, NoText
  <2>3. Count(h, Handle("key")) = 0
    BY <1>1, <2>1, OnlyHandles, CountIsNat
  <2> QED
    BY <2>2, <2>3 DEF h
<1>4. /\ Orderly(<<Drain, Poll>>, r, w) /\ NoText(<<Drain, Poll>>)
      /\ Count(<<Drain, Poll>>, Handle("key")) = 0
  <2> DEFINE h == <<Drain, Poll>>
  <2>1. h \in Seq(Jobs) /\ Len(h) = 2 /\ DOMAIN h = 1 .. 2 /\ h[1] = Drain /\ h[2] = Poll
    BY <1>1, <1>2
  <2> HIDE DEF h
  <2>2. Orderly(h, r, w) /\ NoText(h)
    BY <1>1, <2>1 DEF Orderly, NoText
  <2>3. Count(h, Handle("key")) = 0
    BY <1>1, <2>1, OnlyHandles, CountIsNat
  <2> QED
    BY <2>2, <2>3 DEF h
<1>5. /\ Orderly(<<Handle("key"), Drain>>, r, w)
      /\ Count(<<Handle("key"), Drain>>, Handle("key")) = 1
  <2> DEFINE h == <<Handle("key"), Drain>>
  <2>1. /\ h \in Seq(Jobs) /\ Len(h) = 2 /\ DOMAIN h = 1 .. 2
        /\ h[1] = Handle("key") /\ h[2] = Drain
    BY <1>1, <1>2
  <2> HIDE DEF h
  <2>2. Orderly(h, r, w)
    BY <1>1, <2>1 DEF Orderly
  <2>3. {i \in DOMAIN h : h[i] = Handle("key")} = {1}
    BY <1>1, <2>1, OnlyHandles
  <2>4. Count(h, Handle("key")) = 1
    BY <2>3, FS_Singleton DEF Count
  <2> QED
    BY <2>2, <2>4 DEF h
<1>6. /\ Orderly(<<Handle("version")>>, r, w)
      /\ Count(<<Handle("version")>>, Handle("key")) = 0
  <2>1. Orderly(<<Handle("version")>>, r, w)
    BY <1>1 DEF Orderly
  <2>2. Handle("version") # Handle("key")
    BY OnlyHandles
  <2> QED
    BY <2>1, <2>2, CountOfOne
<1> QED
  BY <1>3, <1>4, <1>5, <1>6

\* The calls that handle what is pending.
LEMMA HandlesAre ==
  ASSUME NEW p \in Seq(ReportSubs), NEW r, NEW w \in Nat, w <= 1
  PROVE  /\ Orderly([i \in DOMAIN p |-> Handle(p[i])], r, w)
         /\ NoPoll([i \in DOMAIN p |-> Handle(p[i])])
         /\ Count([i \in DOMAIN p |-> Handle(p[i])], Handle("key")) = Count(p, "key")
<1> DEFINE h == [i \in DOMAIN p |-> Handle(p[i])]
<1>1. Len(p) \in Nat /\ DOMAIN p = 1 .. Len(p) /\ \A i \in 1 .. Len(p) : p[i] \in ReportSubs
  BY LenProperties, ElementOfSeq
<1>2. \A i \in 1 .. Len(p) : Handle(p[i]) \in Jobs /\ Handle(p[i]).call = "handle"
  BY <1>1, CallsAreJobs DEF Handle
<1>3. /\ h \in Seq(Jobs) /\ DOMAIN h = DOMAIN p
      /\ \A i \in DOMAIN p : h[i] = Handle(p[i]) /\ h[i].call = "handle"
  BY <1>1, <1>2
<1> HIDE DEF h
<1>4. Orderly(h, r, w) /\ NoPoll(h)
  BY <1>3 DEF Orderly, NoPoll
<1>5. {i \in DOMAIN h : h[i] = Handle("key")} = {i \in DOMAIN p : p[i] = "key"}
  BY <1>3, OnlyHandles
<1> QED
  BY <1>4, <1>5 DEF Count, h

-----------------------------------------------------------------------------
(* What is in a sequence. *)

LEMMA RangeOfTail ==
  ASSUME NEW S, NEW s \in Seq(S), s # <<>>
  PROVE  /\ Range(s) \subseteq S /\ Head(s) \in Range(s)
         /\ Range(Tail(s)) \subseteq Range(s)
         /\ Range(s) \subseteq Range(Tail(s)) \cup {Head(s)}
<1>1. /\ Len(s) \in Nat \ {0} /\ DOMAIN s = 1 .. Len(s) /\ Head(s) = s[1]
      /\ DOMAIN Tail(s) = 1 .. Len(s) - 1
      /\ \A i \in 1 .. Len(s) - 1 : Tail(s)[i] = s[i + 1]
  BY TailOf
<1>2. \A i \in 1 .. Len(s) : s[i] \in S
  BY ElementOfSeq
<1>3. 1 \in DOMAIN s /\ Head(s) \in Range(s)
  BY <1>1 DEF Range
<1>4. ASSUME NEW i \in 1 .. Len(s) - 1 PROVE Tail(s)[i] \in Range(s)
  BY <1>1 DEF Range
<1>5. ASSUME NEW i \in 1 .. Len(s) PROVE s[i] \in Range(Tail(s)) \cup {Head(s)}
  <2>1. CASE i = 1
    BY <1>1, <2>1
  <2>2. CASE i # 1
    <3>1. i - 1 \in 1 .. Len(s) - 1 /\ s[i] = Tail(s)[i - 1]
      BY <1>1, <2>2
    <3> QED
      BY <1>1, <3>1 DEF Range
  <2> QED
    BY <2>1, <2>2
<1> QED
  BY <1>1, <1>2, <1>3, <1>4, <1>5 DEF Range

LEMMA RangeOfAppend ==
  ASSUME NEW S, NEW s \in Seq(S), NEW x \in S
  PROVE  Append(s, x) \in Seq(S) /\ Range(Append(s, x)) = Range(s) \cup {x}
<1>1. Append(s, x) \in Seq(S)
  BY AppendProperties, Zenon
<1>2. Len(Append(s, x)) = Len(s) + 1
  BY AppendProperties, Zenon
<1>3. \A i \in 1 .. Len(s) : Append(s, x)[i] = s[i]
  BY AppendProperties
<1>4. Append(s, x)[Len(s) + 1] = x
  BY AppendProperties, Zenon
<1>5. Len(s) \in Nat /\ DOMAIN s = 1 .. Len(s)
      /\ DOMAIN Append(s, x) = 1 .. Len(Append(s, x))
  BY <1>1, LenProperties
<1> DEFINE a == Append(s, x)
           n == Len(s)
<1>6. /\ n \in Nat /\ DOMAIN s = 1 .. n /\ DOMAIN a = 1 .. n + 1 /\ a[n + 1] = x
      /\ \A i \in 1 .. n : a[i] = s[i]
  BY <1>2, <1>3, <1>4, <1>5
<1> HIDE DEF a, n
<1>7. Range(a) = Range(s) \cup {x}
  <2>1. \A i \in 1 .. n + 1 : i \in 1 .. n \/ i = n + 1
    BY <1>6
  <2>2. n + 1 \in 1 .. n + 1 /\ \A i \in 1 .. n : i \in 1 .. n + 1
    BY <1>6
  <2>3. Range(a) \subseteq Range(s) \cup {x}
    BY <1>6, <2>1 DEF Range
  <2>4. Range(s) \subseteq Range(a) /\ x \in Range(a)
    BY <1>6, <2>2 DEF Range
  <2> QED
    BY <2>3, <2>4
<1> QED
  BY <1>1, <1>7 DEF a

LEMMA RangeOfConcat ==
  ASSUME NEW S, NEW s \in Seq(S), NEW t \in Seq(S)
  PROVE  Range(s) \subseteq Range(s \o t) /\ Range(t) \subseteq Range(s \o t)
<1> DEFINE u == s \o t
           m == Len(s)
           n == Len(t)
<1>1. /\ m \in Nat /\ n \in Nat /\ DOMAIN u = 1 .. m + n
      /\ DOMAIN s = 1 .. m /\ DOMAIN t = 1 .. n
      /\ \A i \in 1 .. m : u[i] = s[i]
      /\ \A i \in m + 1 .. m + n : u[i] = t[i - m]
  BY ConcatOf
<1> HIDE DEF u, m, n
<1>2. ASSUME NEW i \in 1 .. m PROVE s[i] \in Range(u)
  BY <1>1 DEF Range
<1>3. ASSUME NEW i \in 1 .. n PROVE t[i] \in Range(u)
  <2>1. i + m \in m + 1 .. m + n /\ (i + m) - m = i /\ i + m \in DOMAIN u
    BY <1>1
  <2>2. u[i + m] = t[i]
    BY <1>1, <2>1
  <2> QED
    BY <2>1, <2>2 DEF Range
<1> QED
  BY <1>1, <1>2, <1>3 DEF Range, u

\* No frame that was there before is taken for an answer of a later one.
LEMMA OutdatedAre ==
  ASSUME NEW q \in Seq(Frames)
  PROVE  /\ Outdated(q) \in Seq(Frames)
         /\ \A f \in Range(Outdated(q)) : f.sub \in Answers => ~f.ours
<1>1. Len(q) \in Nat /\ DOMAIN q = 1 .. Len(q) /\ \A i \in 1 .. Len(q) : q[i] \in Frames
  BY LenProperties, ElementOfSeq
<1>2. ASSUME NEW f \in Frames
      PROVE  LET g == IF f.sub \in ReportSubs THEN f ELSE Stray(f.sub)
             IN g \in Frames /\ (g.sub \in Answers => ~g.ours)
  BY DEF Frames, ReportSubs, Answers, Stray
<1> DEFINE h == Outdated(q)
<1>3. /\ h \in Seq(Frames) /\ DOMAIN h = 1 .. Len(q)
      /\ \A i \in 1 .. Len(q) : h[i].sub \in Answers => ~h[i].ours
  BY <1>1, <1>2 DEF Outdated
<1> HIDE DEF h
<1> QED
  BY <1>3 DEF Range, h

-----------------------------------------------------------------------------
(* The wire. *)

\* What one frame does: an answer of its own means that no partial frame was
\* held, and that its text is shown.
LEMMA FrameIsTaken ==
  ASSUME PanelTyped, NEW job \in Jobs, job.call \in Sends, NEW unread \in Seq(Frames),
         Takes(job, unread), UNCHANGED <<report, presses>>
  PROVE  /\ PanelTyped'
         /\ \A f \in Range(up') :
              f \in Range(unread) \/ (f.ours /\ f.sub \in Answers => f.sub = Subcommand(job.call))
         /\ job.call # "text" /\ part = {} => part' = {} /\ shows' = shows
         /\ job.call = "text" /\ Ack("text") \in Range(up') /\ Ack("text") \notin Range(unread)
              => part' = {} /\ shows' = [shows EXCEPT ![job.line] = job.text]
<1> DEFINE s == Subcommand(job.call)
<1>1. s \in Answers /\ (s = "text" => job.call = "text")
  BY DEF Subcommand, Sends, Answers
<1>2. /\ Ack(s) \in Frames /\ Ack(s).sub = s
      /\ Stray("text") \in Frames /\ ~Stray("text").ours /\ Stray("text") # Ack("text")
  BY <1>1 DEF Ack, Stray, Frames, Answers
<1> HIDE DEF s
<1>3. job.call = "text" => job.line \in Lines /\ job.text \in Texts
  BY DEF Jobs
<1>4. /\ shows \in [Lines -> Texts \cup {Boot, Junk}] /\ lit \in BOOLEAN /\ part \in Partials
      /\ faults \in 0 .. MaxFaults /\ report \in ReportSubs \cup {None}
      /\ presses \in 0 .. MaxPresses
  BY DEF PanelTyped
<1>5. CASE part = {} /\ Executes(job) /\ UNCHANGED part
           /\ \/ up' = Append(unread, Ack(s)) /\ UNCHANGED faults
              \/ Fault /\ up' = unread
  <2>1. up' \in Seq(Frames) /\ Range(up') \subseteq Range(unread) \cup {Ack(s)}
    <3>1. Append(unread, Ack(s)) \in Seq(Frames)
          /\ Range(Append(unread, Ack(s))) = Range(unread) \cup {Ack(s)}
      BY <1>2, RangeOfAppend
    <3> QED
      BY <1>5, <3>1
  <2>2. shows' \in [Lines -> Texts \cup {Boot, Junk}]
    BY <1>3, <1>4, <1>5 DEF Executes
  <2>3. lit' \in BOOLEAN
    BY <1>4, <1>5 DEF Executes
  <2>4. faults' \in 0 .. MaxFaults
    BY <1>4, <1>5, BoundsAssumption DEF Fault
  <2>5. PanelTyped'
    BY <1>4, <1>5, <2>1, <2>2, <2>3, <2>4 DEF PanelTyped
  <2> QED
    BY <1>2, <1>5, <2>1, <2>5 DEF Executes, s
<1>6. CASE part = {} /\ Fault /\ part' \in (IF job.call = "text" THEN Partials ELSE {{}})
           /\ up' = unread /\ UNCHANGED <<shows, lit>>
  <2>1. faults' \in 0 .. MaxFaults
    BY <1>4, <1>6, BoundsAssumption DEF Fault
  <2>2. part' \in Partials /\ (job.call # "text" => part' = {})
    BY <1>6 DEF Partials
  <2>3. PanelTyped'
    BY <1>4, <1>6, <2>1, <2>2 DEF PanelTyped
  <2> QED
    BY <1>6, <2>2, <2>3
<1>7. CASE part # {} /\ shows' = Garbled /\ part' = {}
           /\ up' = Append(unread, Stray("text")) /\ UNCHANGED <<lit, faults>>
  <2>1. up' \in Seq(Frames) /\ Range(up') = Range(unread) \cup {Stray("text")}
    BY <1>2, <1>7, RangeOfAppend
  <2>2. shows' \in [Lines -> Texts \cup {Boot, Junk}]
    BY <1>4, <1>7 DEF Garbled
  <2>3. part' \in Partials
    BY <1>7 DEF Partials
  <2>4. PanelTyped'
    BY <1>4, <1>7, <2>1, <2>2, <2>3 DEF PanelTyped
  <2> QED
    BY <1>2, <1>7, <2>1, <2>4
<1> QED
  BY <1>5, <1>6, <1>7 DEF Takes, s

\* The same for the answer to a report, which is a frame like another.
LEMMA ReportIsTaken ==
  ASSUME PanelTyped, up # <<>>, NEW r, TakesAck(r), UNCHANGED <<lit, presses>>
  PROVE  /\ PanelTyped'
         /\ \A f \in Range(up') : f \in Range(up) \/ ~f.ours
         /\ part = {} => part' = {} /\ shows' = shows
<1>1. /\ Stray("text") \in Frames /\ ~Stray("text").ours
  BY DEF Stray, Frames, Answers
<1>2. /\ up \in Seq(Frames)
      /\ shows \in [Lines -> Texts \cup {Boot, Junk}] /\ lit \in BOOLEAN /\ part \in Partials
      /\ faults \in 0 .. MaxFaults /\ report \in ReportSubs \cup {None}
      /\ presses \in 0 .. MaxPresses
  BY DEF PanelTyped
<1>3. Tail(up) \in Seq(Frames) /\ Range(Tail(up)) \subseteq Range(up)
  BY <1>2, TailOf, RangeOfTail
<1>4. CASE part = {} /\ report' = (IF report = r THEN None ELSE report)
           /\ up' = Tail(up) /\ UNCHANGED <<shows, part, faults>>
  <2>1. PanelTyped'
    BY <1>2, <1>3, <1>4 DEF PanelTyped
  <2> QED
    BY <1>3, <1>4, <2>1
<1>5. CASE part = {} /\ Fault /\ up' = Tail(up) /\ UNCHANGED <<shows, part, report>>
  <2>1. faults' \in 0 .. MaxFaults
    BY <1>2, <1>5, BoundsAssumption DEF Fault
  <2>2. PanelTyped'
    BY <1>2, <1>3, <1>5, <2>1 DEF PanelTyped
  <2> QED
    BY <1>3, <1>5, <2>2
<1>6. CASE part # {} /\ shows' = Garbled /\ part' = {}
           /\ up' = Append(Tail(up), Stray("text")) /\ UNCHANGED <<report, faults>>
  <2>1. up' \in Seq(Frames) /\ Range(up') = Range(Tail(up)) \cup {Stray("text")}
    <3> DEFINE u == Tail(up)
    <3>1. u \in Seq(Frames)
      BY <1>3
    <3> HIDE DEF u
    <3>2. Append(u, Stray("text")) \in Seq(Frames)
          /\ Range(Append(u, Stray("text"))) = Range(u) \cup {Stray("text")}
      BY <1>1, <3>1, RangeOfAppend
    <3> QED
      BY <1>6, <3>2 DEF u
  <2>2. shows' \in [Lines -> Texts \cup {Boot, Junk}]
    BY <1>2, <1>6 DEF Garbled
  <2>3. part' \in Partials
    BY <1>6 DEF Partials
  <2>4. PanelTyped'
    BY <1>2, <1>6, <2>1, <2>2, <2>3 DEF PanelTyped
  <2> QED
    BY <1>1, <1>3, <1>6, <2>1, <2>4
<1> QED
  BY <1>4, <1>5, <1>6 DEF TakesAck

-----------------------------------------------------------------------------
(* The steps. *)

\* What is not the loop's doing, or leaves it waiting.
LEMMA WaitKeeps ==
  ASSUME IInv, HostTyped', PanelTyped', HistoryTyped', NoFlightIsNone',
         UNCHANGED <<want, rendered, sent, todo, waited>>, flight'.sub = flight.sub,
         \A f \in Range(up') : f \in Range(up) \/ ~(f.ours /\ f.sub \in Answers),
         ~excused' => ~excused /\ (part = {} => part' = {} /\ shows' = shows),
         owed' - owed = Count(pending', "key") - Count(pending, "key")
  PROVE  IInv'
<1>1. Orderly(todo, rendered, waited)' /\ FlightIsHead' /\ RenderIsSent'
  BY DEF IInv, FlightIsHead, Job, RenderIsSent
<1>2. AcksAreCurrent'
  BY DEF IInv, AcksAreCurrent
<1>3. SentIsShown'
  <2>1. Ack("text").ours /\ Ack("text").sub \in Answers
    BY DEF Ack, Answers
  <2>2. Ack("text") \in Range(up') => Ack("text") \in Range(up)
    BY <2>1
  <2> QED
    BY <2>2 DEF IInv, SentIsShown, Job
<1>4. KeysAreHandled'
  <2>1. owed \in Int /\ owed' \in Int
    BY DEF IInv, HistoryTyped
  <2>2. Count(pending, "key") \in Nat /\ Count(pending', "key") \in Nat
        /\ Count(todo, Handle("key")) \in Nat
    BY CountIsNat DEF IInv, HostTyped, Orderly
  <2>3. owed = Count(pending, "key") + Count(todo, Handle("key")) /\ waited <= 1
    BY DEF IInv, KeysAreHandled
  <2>4. owed' = Count(pending', "key") + Count(todo, Handle("key"))
    BY <2>1, <2>2, <2>3
  <2> QED
    BY <2>3, <2>4 DEF KeysAreHandled
<1> QED
  BY <1>1, <1>2, <1>3, <1>4 DEF IInv

\* A key, a report, a reset, an answer that is late.
LEMMA WorldKeeps ==
  ASSUME IInv, Pressed \/ Reports \/ Resets \/ Delays
  PROVE  IInv'
<1>1. UNCHANGED <<host, owed, waited>>
  BY DEF Pressed, Reports, Resets, Delays, history
<1>2. HostTyped' /\ NoFlightIsNone'
  BY <1>1 DEF IInv, HostTyped, NoFlightIsNone, host
<1>3. UNCHANGED <<want, rendered, sent, todo, waited>> /\ flight'.sub = flight.sub
      /\ owed' - owed = Count(pending', "key") - Count(pending, "key")
  <2>1. owed \in Int /\ Count(pending, "key") \in Nat
    BY CountIsNat DEF IInv, HostTyped, HistoryTyped
  <2> QED
    BY <1>1, <2>1 DEF host
<1>4. /\ up \in Seq(Frames)
      /\ shows \in [Lines -> Texts \cup {Boot, Junk}] /\ lit \in BOOLEAN /\ part \in Partials
      /\ report \in ReportSubs \cup {None} /\ presses \in 0 .. MaxPresses
      /\ faults \in 0 .. MaxFaults
  BY DEF IInv, PanelTyped
<1>5. excused \in BOOLEAN /\ owed \in Int /\ waited \in Nat
  BY DEF IInv, HistoryTyped
<1>6. CASE Pressed
  <2>1. PanelTyped'
    BY <1>4, <1>6, BoundsAssumption DEF Pressed, PanelTyped, ReportSubs
  <2>2. UNCHANGED <<up, excused, part, shows>>
    BY <1>6 DEF Pressed, history
  <2>3. HistoryTyped'
    BY <1>1, <1>5, <2>2 DEF HistoryTyped
  <2> QED
    BY <1>2, <1>3, <2>1, <2>2, <2>3, WaitKeeps
<1>7. CASE Reports
  <2>1. Report(report) \in Frames /\ Report(report).sub \notin Answers
    BY <1>4, <1>7 DEF Reports, Report, Frames, ReportSubs, Answers
  <2>2. up' = Append(up, Report(report))
    BY <1>7 DEF Reports
  <2>3. up' \in Seq(Frames) /\ Range(up') = Range(up) \cup {Report(report)}
    BY <1>4, <2>1, <2>2, RangeOfAppend
  <2>4. UNCHANGED <<shows, lit, part, report, presses, faults, excused>>
    BY <1>7 DEF Reports, mcu, history
  <2>5. PanelTyped'
    BY <1>4, <2>3, <2>4 DEF PanelTyped
  <2>6. HistoryTyped'
    BY <1>1, <1>5, <2>4 DEF HistoryTyped
  <2> QED
    BY <1>2, <1>3, <2>1, <2>3, <2>4, <2>5, <2>6, WaitKeeps
<1>8. CASE Resets
  <2>1. shows' = [l \in Lines |-> Boot] /\ lit' = TRUE /\ part' = {} /\ report' = "version"
        /\ excused' = TRUE /\ UNCHANGED <<up, presses>>
    BY <1>8 DEF Resets
  <2>2. faults' \in 0 .. MaxFaults
    BY <1>4, <1>8, BoundsAssumption DEF Resets, Fault
  <2>3. PanelTyped'
    BY <1>4, <2>1, <2>2 DEF PanelTyped, Partials, ReportSubs
  <2>4. HistoryTyped'
    BY <1>1, <1>5, <2>1 DEF HistoryTyped
  <2> QED
    BY <1>2, <1>3, <2>1, <2>3, <2>4, WaitKeeps
<1>9. CASE Delays
  <2>1. PICK i \in DOMAIN up :
          up[i] = Ack(flight.sub) /\ up' = [up EXCEPT ![i] = Stray(flight.sub)]
    BY <1>9 DEF Delays
  <2>2. UNCHANGED <<shows, lit, part, report, presses, excused>>
    BY <1>9 DEF Delays, mcu, history
  <2>3. DOMAIN up = 1 .. Len(up) /\ \A j \in DOMAIN up : up[j] \in Frames
    BY <1>4, LenProperties, ElementOfSeq
  <2> DEFINE g == Stray(flight.sub)
  <2>4. g \in Frames /\ ~g.ours
    <3>1. Ack(flight.sub) \in Frames
      BY <2>1, <2>3
    <3>2. flight.sub = Ack(flight.sub).sub
      BY DEF Ack
    <3>3. flight.sub \in Answers \cup ReportSubs
      BY <3>1, <3>2 DEF Frames
    <3> QED
      BY <3>3 DEF Stray, Frames
  <2> HIDE DEF g
  <2>5. /\ [up EXCEPT ![i] = g] \in Seq(Frames) /\ Len([up EXCEPT ![i] = g]) = Len(up)
        /\ \A j \in 1 .. Len(up) : [up EXCEPT ![i] = g][j] = IF j = i THEN g ELSE up[j]
    BY <1>4, <2>1, <2>3, <2>4, ExceptSeq
  <2>6. up' = [up EXCEPT ![i] = g]
    BY <2>1 DEF g
  <2>7. up' \in Seq(Frames) /\ DOMAIN up' = DOMAIN up
        /\ \A j \in DOMAIN up : up'[j] = g \/ up'[j] = up[j]
    BY <2>3, <2>5, <2>6
  <2>8. \A f \in Range(up') : f \in Range(up) \/ ~f.ours
    BY <2>4, <2>7 DEF Range
  <2>9. faults' \in 0 .. MaxFaults
    BY <1>4, <1>9, BoundsAssumption DEF Delays, Fault
  <2>10. PanelTyped'
    BY <1>4, <2>2, <2>7, <2>9 DEF PanelTyped
  <2>11. HistoryTyped'
    BY <1>1, <1>5, <2>2 DEF HistoryTyped
  <2> QED
    BY <1>2, <1>3, <2>2, <2>8, <2>10, <2>11, WaitKeeps
<1> QED
  BY <1>6, <1>7, <1>8, <1>9

\* The head of what is to do, when it is a frame to send.
LEMMA SendAtHead ==
  ASSUME IInv, todo # <<>>
  PROVE  /\ todo \in Seq(Jobs) /\ Job \in Jobs /\ Job \in Range(todo)
         /\ Tail(todo) \in Seq(Jobs)
         /\ Range(todo) \subseteq Range(Tail(todo)) \cup {Job}
         /\ Job.call \in Sends \cup {"handle", "poll"} => Orderly(Tail(todo), rendered, waited)
         /\ Job.call \notin Sends => NoText(Tail(todo))
         /\ Job.call \in Sends =>
              Count(Tail(todo), Handle("key")) = Count(todo, Handle("key"))
         /\ Job.call = "text" => /\ Job.line \in Lines /\ Job.text \in Texts
                                /\ Job.text = rendered[Job.line]
         /\ Job.call = "init1" => Tail(todo) # <<>> /\ Head(Tail(todo)) = Init2
<1>1. Orderly(todo, rendered, waited) /\ todo \in Seq(Jobs) /\ waited \in Nat
  BY DEF IInv, Orderly, HistoryTyped
<1>2. /\ Tail(todo) \in Seq(Jobs) /\ Len(todo) \in Nat \ {0} /\ DOMAIN todo = 1 .. Len(todo)
      /\ Job = todo[1] /\ Job \in Jobs /\ DOMAIN Tail(todo) = 1 .. Len(todo) - 1
      /\ Len(Tail(todo)) = Len(todo) - 1
      /\ \A i \in 1 .. Len(todo) - 1 : Tail(todo)[i] = todo[i + 1]
  BY <1>1, TailOf DEF Job
<1>3. Job \in Range(todo) /\ Range(todo) \subseteq Range(Tail(todo)) \cup {Job}
  BY <1>1, RangeOfTail DEF Job
<1>4. Job.call \in Sends \cup {"handle", "poll"} => Orderly(Tail(todo), rendered, waited)
  BY <1>1, OrderlyTail DEF Job, Sends
<1>5. Job.call \notin Sends => NoText(Tail(todo))
  <2>1. Orderly(todo, rendered, 0)
    BY <1>1, OrderlyAnyhow
  <2> QED
    BY <2>1, OrderlyTail DEF Job
<1>6. ASSUME Job.call \in Sends
      PROVE  Count(Tail(todo), Handle("key")) = Count(todo, Handle("key"))
  <2>1. Head(todo) # Handle("key")
    BY <1>6, OnlyHandles DEF Job, Sends
  <2>2. Count(todo, Handle("key"))
          = Count(Tail(todo), Handle("key")) + (IF Head(todo) = Handle("key") THEN 1 ELSE 0)
    BY <1>1, CountOfTail
  <2>3. Count(Tail(todo), Handle("key")) \in Nat
    BY <1>2, CountIsNat
  <2> QED
    BY <2>1, <2>2, <2>3
<1>7. 1 \in DOMAIN todo
  BY <1>2
<1>8. Job.call = "text" => /\ Job.line \in Lines /\ Job.text \in Texts
                           /\ Job.text = rendered[Job.line]
  BY <1>1, <1>2, <1>7 DEF Orderly, Jobs
<1>9. ASSUME Job.call = "init1"
      PROVE  Tail(todo) # <<>> /\ Head(Tail(todo)) = Init2
  <2>1. 1 + 1 \in DOMAIN todo /\ todo[1 + 1] = Init2
    BY <1>1, <1>2, <1>7, <1>9 DEF Orderly
  <2>2. 1 \in 1 .. Len(todo) - 1
    BY <1>2, <2>1
  <2>3. Tail(todo) # <<>>
    <3>1. Len(Tail(todo)) # 0
      BY <1>2, <2>2
    <3> QED
      BY <3>1, EmptySeq
  <2>4. Head(Tail(todo)) = Tail(todo)[1]
    BY <1>2, <2>3, TailOf
  <2>5. Tail(todo)[1] = todo[1 + 1]
    BY <1>2, <2>2
  <2> QED
    BY <2>1, <2>3, <2>4, <2>5
<1> QED
  BY <1>1, <1>2, <1>3, <1>4, <1>5, <1>6, <1>8, <1>9

\* A frame is done with, one way or the other.
LEMMA DoneKeeps ==
  ASSUME IInv, todo # <<>>, Job.call \in Sends, flight' = NoFlight,
         Orderly(todo', rendered, waited), Range(todo) \subseteq Range(todo') \cup {Job, Init2},
         Count(todo', Handle("key")) = Count(todo, Handle("key")),
         HostTyped', PanelTyped', HistoryTyped', AcksAreCurrent', SentIsShown',
         UNCHANGED <<want, rendered, pending, owed, waited>>,
         ~excused' => /\ ~excused
                      /\ \A l \in Lines : sent'[l] \in {None, rendered[l], sent[l]}
                      /\ Job.call = "text" => sent'[Job.line] = Job.text
  PROVE  IInv'
<1>1. Job.call = "text" => Job.line \in Lines /\ Job.text = rendered[Job.line]
  BY SendAtHead
<1>2. Orderly(todo, rendered, waited)' /\ KeysAreHandled'
  BY <1>1 DEF IInv, KeysAreHandled
<1>3. FlightIsHead' /\ NoFlightIsNone'
  BY DEF FlightIsHead, NoFlightIsNone, NoFlight
<1>4. RenderIsSent'
  <2> SUFFICES ASSUME ~excused', want'.awake, NEW l \in Lines
               PROVE  sent'[l] \in {None, rendered'[l]} \/ Text(l, rendered'[l]) \in Range(todo')
    BY DEF RenderIsSent
  <2>1. sent[l] \in {None, rendered[l]} \/ Text(l, rendered[l]) \in Range(todo)
    BY DEF IInv, RenderIsSent
  <2>2. CASE sent[l] \in {None, rendered[l]}
    BY <2>2
  <2>3. CASE Text(l, rendered[l]) = Job
    <3>1. Job.call = "text" /\ Job.line = l /\ Job.text = rendered[l]
      BY <2>3 DEF Text
    <3> QED
      BY <3>1
  <2>4. CASE Text(l, rendered[l]) \in Range(todo')
    BY <2>4
  <2>5. Text(l, rendered[l]) # Init2
    BY DEF Text, Init2
  <2> QED
    BY <2>1, <2>2, <2>3, <2>4, <2>5
<1> QED
  BY <1>2, <1>3, <1>4 DEF IInv

\* The frame need not be sent.
LEMMA SkipsKeeps ==
  ASSUME IInv, Skips
  PROVE  IInv'
<1>1. /\ todo # <<>> /\ Job.call \in Sends /\ flight = NoFlight /\ Cached(Job)
      /\ todo' = Tail(todo)
      /\ UNCHANGED <<want, rendered, sent, displayOn, pending, flight, up>>
      /\ UNCHANGED <<shows, lit, part, report, presses, faults, excused, owed, waited>>
  BY DEF Skips, mcu, history
<1>2. HostTyped' /\ PanelTyped' /\ HistoryTyped' /\ AcksAreCurrent'
  BY <1>1 DEF IInv, HostTyped, PanelTyped, HistoryTyped, AcksAreCurrent
<1>3. SentIsShown'
  BY <1>1 DEF IInv, SentIsShown, NoFlight, None
<1>4. Job.call = "text" => sent[Job.line] = Job.text
  BY <1>1 DEF Cached
<1> QED
  BY <1>1, <1>2, <1>3, <1>4, SendAtHead, DoneKeeps

\* The time for its answer is up, and it is not tried again.
LEMMA FailsKeeps ==
  ASSUME IInv, Fails
  PROVE  IInv'
<1>1. /\ Overdue /\ todo' = Tail(todo) /\ flight' = NoFlight
      /\ displayOn' \in {displayOn, None}
      /\ excused' = (excused \/ Job.call = "text")
      /\ UNCHANGED <<want, rendered, sent, pending, up, presses, faults, owed, waited>>
      /\ UNCHANGED <<shows, lit, part, report>>
  BY DEF Fails, mcu
<1>2. /\ flight.sub # None /\ todo # <<>> /\ Job.call \in Sends
      /\ flight.sub = Subcommand(Job.call)
  BY <1>1 DEF IInv, Overdue, FlightIsHead, NoFlightIsNone
<1>3. HostTyped'
  BY <1>1 DEF IInv, HostTyped, NoFlight, Answers
<1>4. PanelTyped' /\ HistoryTyped'
  BY <1>1 DEF IInv, PanelTyped, HistoryTyped
<1>5. AcksAreCurrent'
  <2>1. \A f \in Range(up) : f \in Frames /\ (f.ours => f = Ack(f.sub))
    <3>1. \A f \in Frames : f.ours => f = Ack(f.sub)
      BY DEF Frames, Ack
    <3>2. Range(up) \subseteq Frames
      <4>1. up \in Seq(Frames)
        BY DEF IInv, PanelTyped
      <4> QED
        BY <4>1, LenProperties, ElementOfSeq DEF Range
    <3> QED
      BY <3>1, <3>2
  <2>2. Ack(flight.sub) \notin Range(up)
    BY <1>1 DEF Overdue, Range
  <2>3. \A f \in Range(up) : ~(f.ours /\ f.sub \in Answers)
    BY <2>1, <2>2 DEF IInv, AcksAreCurrent
  <2> QED
    BY <1>1, <2>3 DEF AcksAreCurrent
<1>6. SentIsShown'
  <2>1. Job.call # "text" => flight.sub # "text"
    BY <1>2 DEF Subcommand, Sends
  <2> QED
    BY <1>1, <2>1 DEF IInv, SentIsShown, HistoryTyped, NoFlight, None
<1> QED
  BY <1>1, <1>2, <1>3, <1>4, <1>5, <1>6, SendAtHead, DoneKeeps DEF IInv, HistoryTyped

\* The port takes no more bytes.
LEMMA JamsKeeps ==
  ASSUME IInv, Jams
  PROVE  IInv'
<1>1. /\ todo # <<>> /\ Job.call \in Sends /\ flight = NoFlight /\ Fault
      /\ todo' = (IF Job.call = "init1" THEN Tail(Tail(todo)) ELSE Tail(todo))
      /\ part' \in {part} \cup (IF Job.call = "text" THEN Partials ELSE {})
      /\ excused' = (excused \/ Job.call = "text")
      /\ UNCHANGED <<want, rendered, sent, displayOn, pending, flight, up, shows>>
      /\ UNCHANGED <<lit, report, presses, owed, waited>>
  BY DEF Jams
<1>2. faults' \in 0 .. MaxFaults
  BY <1>1, BoundsAssumption DEF IInv, PanelTyped, Fault
<1>3. part' \in Partials
  BY <1>1 DEF IInv, PanelTyped
<1>4. HostTyped' /\ AcksAreCurrent'
  BY <1>1 DEF IInv, HostTyped, AcksAreCurrent
<1>5. PanelTyped'
  BY <1>1, <1>2, <1>3 DEF IInv, PanelTyped
<1>6. HistoryTyped'
  BY <1>1 DEF IInv, HistoryTyped
<1>7. SentIsShown'
  <2>1. ~excused' => ~excused /\ part' = part /\ shows' = shows
    BY <1>1 DEF IInv, HistoryTyped
  <2> QED
    BY <1>1, <2>1 DEF IInv, SentIsShown, NoFlight, None
<1>8. /\ Orderly(todo', rendered, waited) /\ Range(todo) \subseteq Range(todo') \cup {Job, Init2}
      /\ Count(todo', Handle("key")) = Count(todo, Handle("key"))
  <2>1. CASE Job.call # "init1"
    BY <1>1, <2>1, SendAtHead
  <2>2. CASE Job.call = "init1"
    <3> DEFINE t == Tail(todo)
    <3>1. /\ t \in Seq(Jobs) /\ t # <<>> /\ Head(t) = Init2 /\ Orderly(t, rendered, waited)
          /\ Range(todo) \subseteq Range(t) \cup {Job}
          /\ Count(t, Handle("key")) = Count(todo, Handle("key"))
      BY <1>1, <2>2, SendAtHead
    <3>2. todo' = Tail(t)
      BY <1>1, <2>2
    <3> HIDE DEF t
    <3>3. Init2.call = "init2" /\ Init2 # Handle("key")
      BY DEF Init2, Handle
    <3>4. waited \in Nat
      BY DEF IInv, HistoryTyped
    <3>5. Orderly(Tail(t), rendered, waited)
      BY <3>1, <3>3, <3>4, OrderlyTail
    <3>6. Range(t) \subseteq Range(Tail(t)) \cup {Init2}
      BY <3>1, RangeOfTail
    <3>7. Count(t, Handle("key")) = Count(Tail(t), Handle("key"))
                                    + (IF Head(t) = Handle("key") THEN 1 ELSE 0)
      BY <3>1, CountOfTail
    <3>8. Tail(t) \in Seq(Jobs)
      BY <3>1, TailOf
    <3>9. Count(Tail(t), Handle("key")) \in Nat
      BY <3>8, CountIsNat
    <3> QED
      BY <3>1, <3>2, <3>3, <3>5, <3>6, <3>7, <3>9
  <2> QED
    BY <2>1, <2>2
<1> QED
  BY <1>1, <1>4, <1>5, <1>6, <1>7, <1>8, DoneKeeps DEF IInv, HistoryTyped

\* What one report adds to the pending ones.
LEMMA CountOfAppend ==
  ASSUME NEW S, NEW s \in Seq(S), NEW y \in S, NEW x
  PROVE  Count(Append(s, y), x) = Count(s, x) + (IF y = x THEN 1 ELSE 0)
<1>1. Append(s, y) = s \o <<y>> /\ <<y>> \in Seq(S)
  BY AppendIsConcat
<1>2. Count(s \o <<y>>, x) = Count(s, x) + Count(<<y>>, x)
  BY <1>1, CountOfConcat
<1>3. Count(<<y>>, x) = IF y = x THEN 1 ELSE 0
  BY CountOfOne
<1> QED
  BY <1>1, <1>2, <1>3, Zenon

\* A report is read, and acknowledged, while waiting.
LEMMA HearsReport ==
  ASSUME IInv, Hears, Head(up).sub \in ReportSubs
  PROVE  IInv'
<1> DEFINE r == Head(up).sub
<1>1. /\ up # <<>> /\ flight # NoFlight /\ r \in ReportSubs /\ TakesAck(r)
      /\ pending' = Append(pending, r)
      /\ owed' = IF r = "key" THEN owed + 1 ELSE owed
      /\ flight' = [flight EXCEPT !.touched = TRUE]
      /\ UNCHANGED <<sent, displayOn, todo, lit, excused, want, rendered, presses, waited>>
  BY DEF Hears, Queued
<1> HIDE DEF r
<1>2. /\ PanelTyped' /\ \A f \in Range(up') : f \in Range(up) \/ ~f.ours
      /\ part = {} => part' = {} /\ shows' = shows
  BY <1>1, ReportIsTaken DEF IInv
<1>3. flight'.sub = flight.sub
      /\ flight' \in [sub : Answers \cup {None}, attempt : 0 .. 2, touched : BOOLEAN]
  BY <1>1 DEF IInv, HostTyped
<1>4. pending' \in Seq(ReportSubs)
  <2>1. pending \in Seq(ReportSubs)
    BY DEF IInv, HostTyped
  <2> QED
    BY <1>1, <2>1, AppendProperties
<1>5. HostTyped'
  BY <1>1, <1>3, <1>4 DEF IInv, HostTyped
<1>6. NoFlightIsNone'
  BY <1>1, <1>3 DEF IInv, NoFlightIsNone
<1>7. HistoryTyped'
  BY <1>1 DEF IInv, HistoryTyped
<1>8. owed' - owed = Count(pending', "key") - Count(pending, "key")
  <2>1. pending \in Seq(ReportSubs) /\ owed \in Int
    BY DEF IInv, HostTyped, HistoryTyped
  <2>2. Count(Append(pending, r), "key") = Count(pending, "key") + (IF r = "key" THEN 1 ELSE 0)
    BY <1>1, <2>1, CountOfAppend
  <2>3. Count(pending, "key") \in Nat
    BY <2>1, CountIsNat
  <2> QED
    BY <1>1, <2>1, <2>2, <2>3
<1> QED
  BY <1>1, <1>2, <1>3, <1>5, <1>6, <1>7, <1>8, WaitKeeps

\* An answer is read, and taken for this frame's or not.
LEMMA HearsAnswer ==
  ASSUME IInv, Hears, Head(up).sub \notin ReportSubs
  PROVE  IInv'
<1> DEFINE f == Head(up)
<1>1. /\ up # <<>> /\ flight # NoFlight
      /\ UNCHANGED <<pending, owed, want, rendered, presses, waited>>
      /\ UNCHANGED <<shows, lit, part, report, faults>>
  BY DEF Hears, mcu
<1>2. PICK early \in BOOLEAN :
        /\ IF f.sub = flight.sub /\ ~early
           THEN Confirmed /\ up' = Outdated(Tail(up))
           ELSE up' = Tail(up) /\ UNCHANGED <<sent, displayOn, todo, flight>>
        /\ excused' = (excused \/ (f.sub = flight.sub /\ ~f.ours /\ ~early))
  BY DEF Hears, Accepts
<1>3. /\ up \in Seq(Frames) /\ f \in Frames /\ f \in Range(up)
      /\ Tail(up) \in Seq(Frames) /\ Range(Tail(up)) \subseteq Range(up)
  <2>1. up \in Seq(Frames)
    BY DEF IInv, PanelTyped
  <2> QED
    BY <1>1, <2>1, TailOf, RangeOfTail
<1> HIDE DEF f
<1>4. HistoryTyped'
  BY <1>1, <1>2, <1>3 DEF IInv, HistoryTyped, Frames
<1>5. CASE ~(f.sub = flight.sub /\ ~early)
  <2>1. HostTyped' /\ NoFlightIsNone'
    BY <1>1, <1>2, <1>5 DEF IInv, HostTyped, NoFlightIsNone
  <2>2. PanelTyped'
    BY <1>1, <1>2, <1>3, <1>5 DEF IInv, PanelTyped
  <2>3. owed' - owed = Count(pending', "key") - Count(pending, "key")
    <3>1. owed \in Int /\ Count(pending, "key") \in Nat
      BY CountIsNat DEF IInv, HostTyped, HistoryTyped
    <3> QED
      BY <1>1, <3>1
  <2> QED
    BY <1>1, <1>2, <1>3, <1>4, <1>5, <2>1, <2>2, <2>3, WaitKeeps
<1>6. CASE f.sub = flight.sub /\ ~early
  <2>1. /\ sent' = IF Job.call = "text" THEN [sent EXCEPT ![Job.line] = Job.text] ELSE sent
        /\ displayOn' = CASE Job.call = "show" -> Job.state
                          [] Job.call = "init1" -> "on"
                          [] OTHER -> displayOn
        /\ todo' = Tail(todo) /\ flight' = NoFlight /\ up' = Outdated(Tail(up))
        /\ excused' = (excused \/ ~f.ours)
    BY <1>2, <1>6 DEF Confirmed
  <2>2. todo # <<>> /\ Job.call \in Sends /\ flight.sub = Subcommand(Job.call)
    BY <1>1 DEF IInv, FlightIsHead, NoFlightIsNone
  <2>3. Job \in Jobs /\ (Job.call = "text" => Job.line \in Lines /\ Job.text \in Texts
                                             /\ Job.text = rendered[Job.line])
    BY <2>2, SendAtHead
  <2>4. HostTyped'
    <3>1. sent' \in [Lines -> Texts \cup {None}]
      BY <2>1, <2>3 DEF IInv, HostTyped
    <3>2. displayOn' \in {"on", "off", None}
      <4>1. Job.call = "show" => Job.state \in {"on", "off"}
        BY <2>3 DEF Jobs
      <4>2. CASE Job.call = "show"
        BY <2>1, <4>1, <4>2
      <4>3. CASE Job.call = "init1"
        BY <2>1, <4>3
      <4>4. CASE Job.call # "show" /\ Job.call # "init1"
        BY <2>1, <4>4 DEF IInv, HostTyped
      <4> QED
        BY <4>2, <4>3, <4>4
    <3> QED
      BY <1>1, <2>1, <3>1, <3>2 DEF IInv, HostTyped, NoFlight
  <2>5. up' \in Seq(Frames) /\ AcksAreCurrent'
    BY <1>3, <2>1, OutdatedAre DEF AcksAreCurrent
  <2>6. PanelTyped'
    BY <1>1, <2>5 DEF IInv, PanelTyped
  <2>7. ~excused' => ~excused /\ f = Ack(flight.sub)
    BY <1>3, <1>6, <2>1 DEF Frames, Ack, IInv, HistoryTyped
  <2>8. SentIsShown'
    <3> SUFFICES ASSUME ~excused', NEW l \in Lines, sent'[l] # None
                 PROVE  part' = {} /\ shows'[l] = sent'[l]
      BY <2>1 DEF SentIsShown, NoFlight, None
    <3>1. ~excused /\ Ack(flight.sub) \in Range(up)
      BY <1>3, <2>7
    <3>2. CASE Job.call = "text"
      <4>1. flight.sub = "text"
        BY <2>2, <3>2 DEF Subcommand
      <4>2. part = {} /\ shows[Job.line] = Job.text
            /\ (l # Job.line /\ sent[l] # None => shows[l] = sent[l])
        BY <3>1, <4>1 DEF IInv, SentIsShown
      <4>3. sent'[l] = IF l = Job.line THEN Job.text ELSE sent[l]
        BY <2>1, <2>3, <3>2 DEF IInv, HostTyped
      <4> QED
        BY <1>1, <4>2, <4>3
    <3>3. CASE Job.call # "text"
      <4>1. flight.sub # "text"
        BY <2>2, <3>3 DEF Subcommand, Sends
      <4> QED
        BY <1>1, <2>1, <3>1, <3>3, <4>1 DEF IInv, SentIsShown
    <3> QED
      BY <3>2, <3>3
  <2>9. ~excused' => /\ ~excused
                     /\ \A l \in Lines : sent'[l] \in {None, rendered[l], sent[l]}
                     /\ Job.call = "text" => sent'[Job.line] = Job.text
    BY <2>1, <2>3, <2>7 DEF IInv, HostTyped
  <2> QED
    BY <1>1, <1>4, <2>1, <2>2, <2>4, <2>5, <2>6, <2>8, <2>9, SendAtHead, DoneKeeps
<1> QED
  BY <1>5, <1>6

\* A frame is sent, for the first time or again; then what the other line
\* shows is not known.
LEMMA FliesKeeps ==
  ASSUME IInv, NEW n \in 0 .. 2, Flies(n, up), todo # <<>>, Job.call \in Sends,
         flight.sub = None \/ (Job.call = "text" /\ Ack("text") \notin Range(up)),
         sent' = (IF flight.sub = None THEN sent ELSE [sent EXCEPT ![1 - Job.line] = None])
  PROVE  IInv'
<1>1. /\ Takes(Job, up)
      /\ flight' = [sub |-> Subcommand(Job.call), attempt |-> n, touched |-> FALSE]
      /\ UNCHANGED <<want, rendered, displayOn, pending, todo, report, presses, excused, owed, waited>>
  BY DEF Flies, history
<1>2. /\ Job \in Jobs
      /\ Job.call = "text" => Job.line \in Lines /\ Job.text \in Texts
  BY SendAtHead
<1>3. Subcommand(Job.call) \in Answers /\ (Subcommand(Job.call) = "text" <=> Job.call = "text")
  BY DEF Subcommand, Sends, Answers
<1>4. /\ PanelTyped'
      /\ \A f \in Range(up') :
           f \in Range(up) \/ (f.ours /\ f.sub \in Answers => f.sub = Subcommand(Job.call))
      /\ Job.call # "text" /\ part = {} => part' = {} /\ shows' = shows
      /\ Job.call = "text" /\ Ack("text") \in Range(up') /\ Ack("text") \notin Range(up)
           => part' = {} /\ shows' = [shows EXCEPT ![Job.line] = Job.text]
  <2>1. PanelTyped /\ up \in Seq(Frames)
    BY DEF IInv, PanelTyped
  <2>2. UNCHANGED <<report, presses>>
    BY <1>1
  <2> QED
    BY <1>1, <1>2, <2>1, <2>2, FrameIsTaken
<1>5. None \notin Answers /\ "text" # None
  BY DEF None, Answers
<1>6. HostTyped'
  <2>1. sent' \in [Lines -> Texts \cup {None}]
    BY DEF IInv, HostTyped
  <2>2. flight' \in [sub : Answers \cup {None}, attempt : 0 .. 2, touched : BOOLEAN]
    BY <1>1, <1>3
  <2> QED
    BY <1>1, <2>1, <2>2 DEF IInv, HostTyped
<1>7. HistoryTyped' /\ Orderly(todo, rendered, waited)' /\ KeysAreHandled'
  BY <1>1 DEF IInv, HistoryTyped, KeysAreHandled
<1>8. flight'.sub = Subcommand(Job.call)
  BY <1>1
<1>9. FlightIsHead' /\ NoFlightIsNone'
  BY <1>1, <1>3, <1>5, <1>8 DEF FlightIsHead, NoFlightIsNone, Job
<1>10. AcksAreCurrent'
  <2>1. ASSUME NEW f \in Range(up), f.ours, f.sub \in Answers PROVE f.sub = Subcommand(Job.call)
    <3>1. f.sub = flight.sub
      BY <2>1 DEF IInv, AcksAreCurrent
    <3>2. flight.sub # None
      BY <1>5, <2>1, <3>1
    <3> QED
      BY <3>1, <3>2 DEF IInv, FlightIsHead
  <2> QED
    BY <1>4, <1>8, <2>1 DEF AcksAreCurrent
<1>11. SentIsShown'
  <2>1. CASE Job.call # "text"
    <3>1. flight.sub = None /\ sent' = sent
      BY <2>1
    <3>2. ~excused => \A l \in Lines : sent[l] # None => part = {} /\ shows[l] = sent[l]
      BY <1>5, <3>1 DEF IInv, SentIsShown
    <3> QED
      BY <1>1, <1>3, <1>4, <1>8, <2>1, <3>1, <3>2 DEF SentIsShown
  <2>2. CASE Job.call = "text"
    <3>1. Ack("text") \notin Range(up)
      <4>1. Ack("text").ours /\ Ack("text").sub = "text" /\ "text" \in Answers
        BY DEF Ack, Answers
      <4>2. flight.sub = None => Ack("text") \notin Range(up)
        BY <1>5, <4>1 DEF IInv, AcksAreCurrent
      <4> QED
        BY <4>2
    <3> SUFFICES ASSUME ~excused', Ack("text") \in Range(up')
                 PROVE  /\ part' = {} /\ shows'[Job.line] = Job.text
                        /\ \A l \in Lines : l # Job.line /\ sent'[l] # None => shows'[l] = sent'[l]
      BY <1>1, <1>3, <1>8, <2>2 DEF SentIsShown, Job
    <3>2. part' = {} /\ shows' = [shows EXCEPT ![Job.line] = Job.text]
      BY <1>4, <2>2, <3>1
    <3>3. shows \in [Lines -> Texts \cup {Boot, Junk}] /\ sent \in [Lines -> Texts \cup {None}]
      BY DEF IInv, PanelTyped, HostTyped
    <3>4. ASSUME NEW l \in Lines, l # Job.line, sent'[l] # None PROVE shows'[l] = sent'[l]
      <4>1. CASE flight.sub = None
        <5>1. shows[l] = sent[l]
          BY <1>1, <1>5, <3>4, <4>1 DEF IInv, SentIsShown
        <5> QED
          BY <1>2, <2>2, <3>2, <3>3, <3>4, <4>1, <5>1
      <4>2. CASE flight.sub # None
        <5>1. l = 1 - Job.line
          BY <1>2, <2>2, <3>4 DEF Lines
        <5> QED
          BY <3>3, <3>4, <4>2, <5>1
      <4> QED
        BY <4>1, <4>2
    <3> QED
      BY <1>2, <2>2, <3>2, <3>3, <3>4
  <2> QED
    BY <2>1, <2>2
<1>12. RenderIsSent'
  <2>1. \A l \in Lines : sent'[l] \in {sent[l], None}
    BY DEF IInv, HostTyped
  <2> QED
    BY <1>1, <2>1 DEF IInv, RenderIsSent
<1> QED
  BY <1>4, <1>6, <1>7, <1>9, <1>10, <1>11, <1>12 DEF IInv

\* The first attempt, and the others.
LEMMA SendingKeeps ==
  ASSUME IInv, Starts \/ Retries
  PROVE  IInv'
<1>1. CASE Starts
  <2>1. todo # <<>> /\ Job.call \in Sends /\ flight.sub = None /\ Flies(0, up) /\ sent' = sent
    BY <1>1 DEF Starts, NoFlight
  <2> QED
    BY <2>1, FliesKeeps
<1>2. CASE Retries
  <2>1. /\ Overdue /\ Job.call = "text" /\ flight.attempt < 2 /\ flight # NoFlight
        /\ sent' = [sent EXCEPT ![1 - Job.line] = None] /\ Flies(flight.attempt + 1, up)
    BY <1>2 DEF Retries, Retryable, AfterLoss, Overdue
  <2>2. flight.sub # None /\ todo # <<>> /\ Job.call \in Sends /\ flight.sub = "text"
    BY <2>1 DEF IInv, NoFlightIsNone, FlightIsHead, Subcommand
  <2>3. flight.attempt + 1 \in 0 .. 2
    <3>1. flight.attempt \in 0 .. 2
      BY DEF IInv, HostTyped
    <3> QED
      BY <2>1, <3>1
  <2>4. Ack("text") \notin Range(up)
    BY <2>1, <2>2 DEF Overdue, Range
  <2> QED
    BY <2>1, <2>2, <2>3, <2>4, FliesKeeps
<1> QED
  BY <1>1, <1>2

-----------------------------------------------------------------------------
(* The pass of the loop. *)

\* No frame is under way.
LEMMA PassKeeps ==
  ASSUME IInv, flight = NoFlight, UNCHANGED flight,
         HostTyped', PanelTyped', HistoryTyped', Orderly(todo, rendered, waited)',
         RenderIsSent', KeysAreHandled',
         \A f \in Range(up') : f \in Range(up) \/ ~f.ours,
         ~excused' => \A l \in Lines :
           \/ sent'[l] = None
           \/ /\ ~excused /\ sent'[l] = sent[l]
              /\ part = {} => part' = {} /\ shows' = shows
  PROVE  IInv'
<1>1. flight.sub = None /\ flight'.sub = None /\ None # "text"
  BY DEF NoFlight, None
<1>2. FlightIsHead' /\ NoFlightIsNone'
  BY <1>1 DEF FlightIsHead, NoFlightIsNone
<1>3. AcksAreCurrent'
  BY <1>1 DEF IInv, AcksAreCurrent
<1>4. SentIsShown'
  <2>1. ~excused => \A l \in Lines : sent[l] # None => part = {} /\ shows[l] = sent[l]
    BY <1>1 DEF IInv, SentIsShown
  <2> QED
    BY <1>1, <2>1 DEF SentIsShown
<1> QED
  BY <1>2, <1>3, <1>4 DEF IInv

\* Between two frames none is under way.
LEMMA NotSending ==
  ASSUME IInv, todo = <<>> \/ Job.call \notin Sends
  PROVE  flight = NoFlight
BY DEF IInv, FlightIsHead, NoFlightIsNone

\* The calls of an effect, put before others.
LEMMA EffectBefore ==
  ASSUME NEW w \in Wants, NEW render \in BOOLEAN, NEW r \in [Lines -> Texts],
         render => r = w.text, NEW n \in Nat, NEW t, Orderly(t, r, n), NoText(t)
  PROVE  /\ Orderly(ApplyEffect(w, render) \o t, r, n)
         /\ Count(ApplyEffect(w, render) \o t, Handle("key")) = Count(t, Handle("key"))
         /\ render => \A l \in Lines : Text(l, r[l]) \in Range(ApplyEffect(w, render) \o t)
<1> DEFINE h == ApplyEffect(w, render)
<1>1. n <= 1 /\ t \in Seq(Jobs)
  BY DEF Orderly
<1>2. /\ Orderly(h, r, n) /\ NoPoll(h) /\ Count(h, Handle("key")) = 0
      /\ render => \A l \in Lines : \E i \in DOMAIN h : h[i] = Text(l, r[l])
  BY <1>1, EffectsAre
<1> HIDE DEF h
<1>3. h \in Seq(Jobs)
  BY <1>2 DEF Orderly
<1>4. Orderly(h \o t, r, n)
  BY <1>2, OrderlyConcat
<1>5. Count(h \o t, Handle("key")) = Count(h, Handle("key")) + Count(t, Handle("key"))
  BY <1>1, <1>3, CountOfConcat
<1>6. Count(t, Handle("key")) \in Nat
  BY <1>1, CountIsNat
<1>7. Range(h) \subseteq Range(h \o t)
  BY <1>1, <1>3, RangeOfConcat
<1>8. render => \A l \in Lines : Text(l, r[l]) \in Range(h)
  BY <1>2 DEF Range
<1>9. Count(h \o t, Handle("key")) = Count(t, Handle("key"))
  BY <1>2, <1>5, <1>6
<1> QED
  BY <1>4, <1>7, <1>8, <1>9 DEF h

\* The tick, which may also be that of the redraw timer.
LEMMA TickKeeps ==
  ASSUME IInv, Tick
  PROVE  IInv'
<1>1. PICK w \in Wants, redraw \in BOOLEAN :
        /\ IF redraw THEN sent' = Forgotten /\ excused' = FALSE
           ELSE UNCHANGED <<sent, excused>>
        /\ want' = w /\ rendered' = (IF w.awake \/ want.awake THEN w.text ELSE rendered)
        /\ todo' = ApplyEffect(w, w.awake \/ want.awake) \o <<Drain, Poll>>
  BY DEF Tick, Effects
<1>2. /\ todo = <<>>
      /\ UNCHANGED <<displayOn, pending, flight, up, shows, lit, part, report>>
      /\ UNCHANGED <<presses, faults, owed, waited>>
  BY DEF Tick, mcu
<1> DEFINE render == w.awake \/ want.awake
<1>3. w.text \in [Lines -> Texts] /\ w.awake \in BOOLEAN /\ want.awake \in BOOLEAN
  BY DEF IInv, HostTyped, Wants
<1>4. render \in BOOLEAN /\ rendered' \in [Lines -> Texts] /\ (render => rendered' = w.text)
  BY <1>1, <1>3 DEF IInv, HostTyped
<1>5. \A l \in Lines : sent'[l] = None \/ (~excused' => ~excused /\ sent'[l] = sent[l])
  BY <1>1 DEF Forgotten
<1>6. sent' \in [Lines -> Texts \cup {None}]
  BY <1>1 DEF IInv, HostTyped, Forgotten
<1>7. HostTyped'
  BY <1>1, <1>2, <1>4, <1>6 DEF IInv, HostTyped
<1>8. PanelTyped' /\ HistoryTyped'
  BY <1>1, <1>2 DEF IInv, PanelTyped, HistoryTyped
<1>9. waited \in Nat /\ waited <= 1
  BY DEF IInv, HistoryTyped, Orderly
<1> DEFINE t == <<Drain, Poll>>
<1>10. Orderly(t, rendered', waited) /\ NoText(t) /\ Count(t, Handle("key")) = 0
  BY <1>9, PairsAre
<1> HIDE DEF t, render
<1>11. todo' = ApplyEffect(w, render) \o t
  BY <1>1 DEF t, render
<1>12. /\ Orderly(todo', rendered', waited) /\ Count(todo', Handle("key")) = 0
       /\ render => \A l \in Lines : Text(l, rendered'[l]) \in Range(todo')
  BY <1>4, <1>9, <1>10, <1>11, EffectBefore
<1>13. RenderIsSent'
  BY <1>1, <1>12 DEF RenderIsSent, render
<1>14. KeysAreHandled'
  <2>1. Count(todo, Handle("key")) = 0
    <3>1. todo \in Seq(Jobs) /\ \A i \in DOMAIN todo : todo[i] # Handle("key")
      BY <1>2
    <3> QED
      BY <3>1, CountIsNat
  <2> QED
    BY <1>2, <1>12, <2>1 DEF IInv, KeysAreHandled
<1> QED
  BY <1>2, <1>5, <1>7, <1>8, <1>12, <1>13, <1>14, NotSending, PassKeeps

\* What is pending is taken.
LEMMA DrainsKeeps ==
  ASSUME IInv, Drains
  PROVE  IInv'
<1>1. /\ todo # <<>> /\ Job.call = "drain"
      /\ todo' = [i \in DOMAIN pending |-> Handle(pending[i])] \o Tail(todo)
      /\ pending' = <<>> /\ waited' = 0
      /\ UNCHANGED <<want, rendered, sent, displayOn, flight, up, shows, lit, part, report>>
      /\ UNCHANGED <<presses, faults, excused, owed>>
  BY DEF Drains, Doing, Job, mcu
<1> DEFINE h == [i \in DOMAIN pending |-> Handle(pending[i])]
           t == Tail(todo)
<1>2. pending \in Seq(ReportSubs) /\ Orderly(todo, rendered, waited) /\ waited \in Nat
  BY DEF IInv, HostTyped, HistoryTyped
<1>3. Orderly(h, rendered, 0) /\ NoPoll(h) /\ Count(h, Handle("key")) = Count(pending, "key")
  BY <1>2, HandlesAre
<1>4. Job.call \notin Sends /\ Job # Handle("key") /\ Head(todo) = Job /\ Job # Text(0, 0)
  BY <1>1 DEF Sends, Handle, Job, Text
<1>5. Orderly(todo, rendered, 0)
  BY <1>2, OrderlyAnyhow
<1>6. Orderly(t, rendered, 0) /\ NoText(t)
  BY <1>1, <1>4, <1>5, OrderlyTail
<1>7. todo \in Seq(Jobs)
  BY <1>5 DEF Orderly
<1>8. Count(todo, Handle("key")) = Count(t, Handle("key"))
                                   + (IF Head(todo) = Handle("key") THEN 1 ELSE 0)
  BY <1>1, <1>7, CountOfTail
<1>9. Range(todo) \subseteq Range(t) \cup {Job}
  BY <1>1, SendAtHead
<1>10. todo' = h \o t
  BY <1>1
<1> HIDE DEF h, t
<1>11. h \in Seq(Jobs) /\ t \in Seq(Jobs)
  BY <1>3, <1>6 DEF Orderly
<1>12. Orderly(h \o t, rendered, 0)
  BY <1>3, <1>6, OrderlyConcat
<1>13. Count(h \o t, Handle("key")) = Count(h, Handle("key")) + Count(t, Handle("key"))
  BY <1>11, CountOfConcat
<1>14. Range(t) \subseteq Range(h \o t)
  BY <1>11, RangeOfConcat
<1>15. HostTyped' /\ PanelTyped' /\ HistoryTyped'
  BY <1>1 DEF IInv, HostTyped, PanelTyped, HistoryTyped
<1>16. RenderIsSent'
  <2> SUFFICES ASSUME ~excused, want.awake, NEW l \in Lines
               PROVE  sent[l] \in {None, rendered[l]} \/ Text(l, rendered[l]) \in Range(todo')
    BY <1>1 DEF RenderIsSent
  <2>1. sent[l] \in {None, rendered[l]} \/ Text(l, rendered[l]) \in Range(todo)
    BY DEF IInv, RenderIsSent
  <2>2. Text(l, rendered[l]) # Job
    BY <1>1 DEF Text
  <2> QED
    BY <1>9, <1>10, <1>14, <2>1, <2>2
<1>17. KeysAreHandled'
  <2>1. Count(pending, "key") \in Nat /\ Count(t, Handle("key")) \in Nat
    BY <1>2, <1>11, CountIsNat
  <2>2. Count(pending', "key") = 0
    <3>1. pending' \in Seq(ReportSubs) /\ \A i \in DOMAIN pending' : pending'[i] # "key"
      BY <1>1
    <3> QED
      BY <3>1, CountIsNat
  <2>3. owed = Count(pending, "key") + Count(todo, Handle("key"))
    BY DEF IInv, KeysAreHandled
  <2>4. Count(todo', Handle("key")) = Count(pending, "key") + Count(t, Handle("key"))
    BY <1>3, <1>10, <1>13
  <2>5. Count(todo, Handle("key")) = Count(t, Handle("key"))
    BY <1>4, <1>8, <2>1
  <2>6. owed' = Count(pending', "key") + Count(todo', Handle("key"))
    BY <1>1, <2>1, <2>2, <2>3, <2>4, <2>5
  <2> QED
    BY <1>1, <2>6 DEF KeysAreHandled
<1>18. Orderly(todo, rendered, waited)'
  BY <1>1, <1>10, <1>12
<1> QED
  BY <1>1, <1>4, <1>15, <1>16, <1>17, <1>18, NotSending, PassKeeps

\* The version of a controller that has started.
LEMMA NotesBootKeeps ==
  ASSUME IInv, NotesBoot
  PROVE  IInv'
<1>1. /\ todo # <<>> /\ Job.call = "handle" /\ Job = Head(todo) /\ Job.report = "version"
      /\ sent' = Forgotten /\ todo' = <<Init1, Init2>> \o Tail(todo)
      /\ UNCHANGED <<want, rendered, displayOn, pending, flight, up, shows, lit, part>>
      /\ UNCHANGED <<report, presses, faults, excused, owed, waited>>
  BY DEF NotesBoot, Doing, Job, mcu, history
<1> DEFINE h == <<Init1, Init2>>
           t == Tail(todo)
<1>2. waited \in Nat /\ waited <= 1 /\ todo \in Seq(Jobs)
  BY DEF IInv, HistoryTyped, Orderly
<1>3. /\ Orderly(h, rendered, waited) /\ NoPoll(h) /\ Count(h, Handle("key")) = 0
  BY <1>2, PairsAre
<1>4. Job.call \notin Sends /\ Job # Handle("key")
  BY <1>1 DEF Sends, Handle
<1>5. t \in Seq(Jobs) /\ Orderly(t, rendered, waited) /\ NoText(t)
  BY <1>1, <1>4, SendAtHead
<1>6. Count(todo, Handle("key")) = Count(t, Handle("key"))
                                   + (IF Head(todo) = Handle("key") THEN 1 ELSE 0)
  BY <1>1, <1>2, CountOfTail
<1>7. todo' = h \o t
  BY <1>1
<1> HIDE DEF h, t
<1>8. Orderly(h \o t, rendered, waited)
  BY <1>2, <1>3, <1>5, OrderlyConcat
<1>9. h \in Seq(Jobs) /\ Count(t, Handle("key")) \in Nat
  BY <1>3, <1>5, CountIsNat DEF Orderly
<1>10. Count(h \o t, Handle("key")) = Count(h, Handle("key")) + Count(t, Handle("key"))
  BY <1>5, <1>9, CountOfConcat
<1>11. Count(todo', Handle("key")) = Count(todo, Handle("key"))
  <2>1. Count(todo', Handle("key")) = Count(h, Handle("key")) + Count(t, Handle("key"))
    BY <1>7, <1>10
  <2>2. Count(todo, Handle("key")) = Count(t, Handle("key"))
    BY <1>1, <1>4, <1>6, <1>9
  <2> QED
    BY <1>3, <1>9, <2>1, <2>2
<1>12. HostTyped'
  BY <1>1 DEF IInv, HostTyped, Forgotten
<1>13. PanelTyped' /\ HistoryTyped'
  BY <1>1 DEF IInv, PanelTyped, HistoryTyped
<1>14. \A l \in Lines : sent'[l] = None
  BY <1>1 DEF Forgotten
<1>15. RenderIsSent'
  BY <1>14 DEF RenderIsSent
<1>16. KeysAreHandled'
  BY <1>1, <1>11 DEF IInv, KeysAreHandled
<1>17. Orderly(todo, rendered, waited)'
  BY <1>1, <1>7, <1>8
<1> QED
  BY <1>1, <1>4, <1>12, <1>13, <1>14, <1>15, <1>16, <1>17, NotSending, PassKeeps

\* A key is handled.
LEMMA HandlesKeyKeeps ==
  ASSUME IInv, HandlesKey
  PROVE  IInv'
<1>1. PICK w \in Wants, render \in BOOLEAN :
        /\ w.awake /\ (~want.awake => render)
        /\ want' = w /\ rendered' = (IF render THEN w.text ELSE rendered)
        /\ todo' = ApplyEffect(w, render) \o Tail(todo)
  BY DEF HandlesKey, Effects
<1>2. /\ todo # <<>> /\ Job.call = "handle" /\ Job = Head(todo) /\ Job.report = "key"
      /\ owed' = owed - 1
      /\ UNCHANGED <<sent, displayOn, pending, flight, up, shows, lit, part, report>>
      /\ UNCHANGED <<presses, faults, excused, waited>>
  BY DEF HandlesKey, Doing, Job, mcu
<1> DEFINE t == Tail(todo)
<1>3. waited \in Nat /\ waited <= 1 /\ todo \in Seq(Jobs)
  BY DEF IInv, HistoryTyped, Orderly
<1>4. Job \in Jobs
  BY <1>2, SendAtHead
<1>5. Job.call \notin Sends /\ Job = Handle("key")
  <2>1. PICK r \in ReportSubs : Job = [call |-> "handle", report |-> r]
    BY <1>2, <1>4 DEF Jobs
  <2> QED
    BY <1>2, <2>1 DEF Sends, Handle
<1>6. /\ t \in Seq(Jobs) /\ Orderly(t, rendered, waited) /\ NoText(t)
      /\ Range(todo) \subseteq Range(t) \cup {Job}
  BY <1>2, <1>5, SendAtHead
<1>7. Count(todo, Handle("key")) = Count(t, Handle("key"))
                                   + (IF Head(todo) = Handle("key") THEN 1 ELSE 0)
  BY <1>2, <1>3, CountOfTail
<1>8. todo' = ApplyEffect(w, render) \o t
  BY <1>1
<1> HIDE DEF t
<1>9. rendered' \in [Lines -> Texts] /\ (render => rendered' = w.text)
  <2>1. w.text \in [Lines -> Texts]
    BY DEF Wants
  <2> QED
    BY <1>1, <2>1 DEF IInv, HostTyped
<1>10. Orderly(t, rendered', waited)
  BY <1>3, <1>6, OrderlyAnyhow
<1>11. /\ Orderly(todo', rendered', waited)
       /\ Count(todo', Handle("key")) = Count(t, Handle("key"))
       /\ render => \A l \in Lines : Text(l, rendered'[l]) \in Range(todo')
  BY <1>3, <1>6, <1>8, <1>9, <1>10, EffectBefore
<1>12. HostTyped'
  BY <1>1, <1>2, <1>9 DEF IInv, HostTyped
<1>13. PanelTyped' /\ HistoryTyped'
  BY <1>2 DEF IInv, PanelTyped, HistoryTyped
<1>14. RenderIsSent'
  <2>1. CASE render
    BY <1>11, <2>1 DEF RenderIsSent
  <2>2. CASE ~render
    <3> SUFFICES ASSUME ~excused, NEW l \in Lines
                 PROVE  sent[l] \in {None, rendered[l]}
      BY <1>1, <1>2, <2>2 DEF RenderIsSent
    <3>1. want.awake
      BY <1>1, <2>2
    <3>2. sent[l] \in {None, rendered[l]} \/ Text(l, rendered[l]) \in Range(todo)
      BY <3>1 DEF IInv, RenderIsSent
    <3>3. Text(l, rendered[l]).call = "text"
      BY DEF Text
    <3>4. Text(l, rendered[l]) \notin Range(t) /\ Text(l, rendered[l]) # Job
      BY <1>2, <1>6, <3>3 DEF NoText, Range
    <3> QED
      BY <1>6, <3>2, <3>4
  <2> QED
    BY <2>1, <2>2
<1>15. KeysAreHandled'
  <2>1. Count(pending, "key") \in Nat /\ Count(t, Handle("key")) \in Nat
    BY <1>6, CountIsNat DEF IInv, HostTyped
  <2>2. owed = Count(pending, "key") + Count(todo, Handle("key"))
    BY DEF IInv, KeysAreHandled
  <2>3. Count(todo, Handle("key")) = Count(t, Handle("key")) + 1
    BY <1>2, <1>5, <1>7
  <2>4. owed' = Count(pending', "key") + Count(todo', Handle("key"))
    BY <1>2, <1>11, <2>1, <2>2, <2>3
  <2> QED
    BY <1>2, <1>3, <2>4 DEF KeysAreHandled
<1>16. Orderly(todo, rendered, waited)'
  BY <1>2, <1>11
<1> QED
  BY <1>2, <1>5, <1>12, <1>13, <1>14, <1>15, <1>16, NotSending, PassKeeps

\* The poll, which comes last, and after a drain if something was pending.
LEMMA PollsKeeps ==
  ASSUME IInv, Polls
  PROVE  IInv'
<1>1. /\ todo # <<>> /\ Job.call = "poll" /\ Job = Head(todo)
      /\ waited' = IF pending = <<>> THEN 0 ELSE waited + 1
      /\ UNCHANGED <<want, rendered, sent, displayOn, pending, flight, presses, excused>>
  BY DEF Polls, Doing, Job
<1>2. waited \in Nat /\ waited <= 1 /\ todo \in Seq(Jobs) /\ Orderly(todo, rendered, waited)
  BY DEF IInv, HistoryTyped, Orderly
<1>3. Len(todo) = 1 /\ waited = 0 /\ todo[1] = Job
  <2>1. Len(todo) \in Nat \ {0} /\ DOMAIN todo = 1 .. Len(todo) /\ Head(todo) = todo[1]
    BY <1>1, <1>2, TailOf
  <2>2. 1 \in DOMAIN todo /\ todo[1].call = "poll"
    BY <1>1, <2>1
  <2>3. 1 = Len(todo) /\ (waited > 0 => \E j \in 1 .. 1 - 1 : todo[j].call = "drain")
    BY <1>2, <2>2 DEF Orderly
  <2>4. waited = 0
    <3>1. ~(waited > 0) /\ waited \in Nat
      BY <1>2, <2>3
    <3> QED
      BY <3>1
  <2>5. todo[1] = Job
    BY <1>1, <2>1
  <2> QED
    BY <2>3, <2>4, <2>5
<1>4. waited' \in Nat /\ waited' <= 1
  BY <1>1, <1>3
<1>5. Range(todo) = {Job} /\ Count(todo, Handle("key")) = 0
  <2>1. DOMAIN todo = 1 .. 1
    BY <1>2, <1>3, LenProperties
  <2>2. Job # Handle("key")
    BY <1>1 DEF Handle
  <2>3. \A i \in DOMAIN todo : todo[i] = Job
    BY <1>3, <2>1
  <2>4. Count(todo, Handle("key")) = 0
    BY <1>2, <2>2, <2>3, CountIsNat
  <2> QED
    BY <2>1, <2>3, <2>4 DEF Range
<1>6. /\ PanelTyped' /\ \A f \in Range(up') : f \in Range(up) \/ ~f.ours
      /\ part = {} => part' = {} /\ shows' = shows
  <2>1. CASE up' = up /\ UNCHANGED <<shows, lit, part, report, faults>>
    BY <1>1, <2>1 DEF IInv, PanelTyped
  <2>2. CASE up # <<>> /\ up' = Tail(up) /\ UNCHANGED <<shows, lit, part, report, faults>>
    <3>1. Tail(up) \in Seq(Frames) /\ Range(Tail(up)) \subseteq Range(up)
      BY <2>2, TailOf, RangeOfTail DEF IInv, PanelTyped
    <3> QED
      BY <1>1, <2>2, <3>1 DEF IInv, PanelTyped
  <2>3. CASE up # <<>> /\ TakesAck(Head(up).sub) /\ UNCHANGED lit
    BY <1>1, <2>3, ReportIsTaken DEF IInv
  <2> QED
    BY <2>1, <2>2, <2>3 DEF Polls, mcu
<1>7. HostTyped'
  BY <1>1 DEF IInv, HostTyped
<1>8. /\ Orderly(todo', rendered', waited')
      /\ owed' \in Int /\ owed' - owed = Count(todo', Handle("key"))
  <2>1. owed \in Int
    BY DEF IInv, HistoryTyped
  <2>2. CASE todo' = <<>> /\ owed' = owed
    <3>1. todo' \in Seq(Jobs) /\ DOMAIN todo' = {}
      BY <2>2
    <3>2. Count(todo', Handle("key")) = 0
      BY <3>1, CountIsNat
    <3> QED
      BY <1>4, <2>1, <2>2, <3>1, <3>2 DEF Orderly
  <2>3. CASE todo' = <<Handle("key"), Drain>> /\ owed' = owed + 1
    <3>1. /\ Orderly(<<Handle("key"), Drain>>, rendered', waited')
          /\ Count(<<Handle("key"), Drain>>, Handle("key")) = 1
      BY <1>4, PairsAre
    <3> QED
      BY <2>1, <2>3, <3>1
  <2>4. CASE todo' = <<Handle("version")>> /\ owed' = owed
    <3>1. /\ Orderly(<<Handle("version")>>, rendered', waited')
          /\ Count(<<Handle("version")>>, Handle("key")) = 0
      BY <1>4, PairsAre
    <3> QED
      BY <2>1, <2>4, <3>1
  <2> QED
    BY <2>2, <2>3, <2>4 DEF Polls
<1>9. HistoryTyped'
  BY <1>1, <1>4, <1>8 DEF IInv, HistoryTyped
<1>10. RenderIsSent'
  <2> SUFFICES ASSUME ~excused, want.awake, NEW l \in Lines
               PROVE  sent[l] \in {None, rendered[l]}
    BY <1>1 DEF RenderIsSent
  <2>1. Text(l, rendered[l]) # Job
    BY <1>1 DEF Text
  <2> QED
    BY <1>5, <2>1 DEF IInv, RenderIsSent
<1>11. KeysAreHandled'
  <2>1. owed = Count(pending, "key") + Count(todo, Handle("key"))
    BY DEF IInv, KeysAreHandled
  <2>2. Count(pending, "key") \in Nat /\ owed \in Int /\ Count(todo', Handle("key")) \in Nat
    <3>1. pending \in Seq(ReportSubs) /\ todo' \in Seq(Jobs) /\ owed \in Int
      BY <1>8 DEF IInv, HostTyped, HistoryTyped, Orderly
    <3> QED
      BY <3>1, CountIsNat
  <2>3. owed' = Count(pending, "key") + Count(todo', Handle("key"))
    BY <1>5, <1>8, <2>1, <2>2
  <2> QED
    BY <1>1, <1>4, <2>3 DEF KeysAreHandled
<1>12. Job.call \notin Sends
  BY <1>1 DEF Sends
<1> QED
  BY <1>1, <1>6, <1>7, <1>8, <1>9, <1>10, <1>11, <1>12, NotSending, PassKeeps

-----------------------------------------------------------------------------
(* The theorems. *)

\* The daemon starts with init to do and a panel that shows what it likes.
LEMMA InitHolds ==
  ASSUME Init
  PROVE  IInv
<1>1. /\ want \in Wants /\ rendered = want.text /\ sent = Forgotten /\ displayOn = None
      /\ pending = <<>> /\ todo = <<Init1, Init2>> /\ flight = NoFlight
      /\ up = <<>> /\ shows = [l \in Lines |-> Boot] /\ lit \in BOOLEAN
      /\ part = {} /\ report = None /\ presses = 0 /\ faults = 0
      /\ excused = FALSE /\ owed = 0 /\ waited = 0
  BY DEF Init
<1>2. HostTyped
  <2>1. want.text \in [Lines -> Texts]
    BY <1>1 DEF Wants
  <2> QED
    BY <1>1, <2>1 DEF HostTyped, Forgotten, NoFlight
<1>3. PanelTyped
  BY <1>1, BoundsAssumption DEF PanelTyped, Partials
<1>4. HistoryTyped
  <2>1. excused \in BOOLEAN
    BY <1>1
  <2>2. owed \in Int /\ waited \in Nat
    BY <1>1
  <2> QED
    BY <2>1, <2>2 DEF HistoryTyped
<1>5. Orderly(todo, rendered, waited) /\ Count(todo, Handle("key")) = 0
  BY <1>1, PairsAre
<1>6. FlightIsHead /\ NoFlightIsNone
  BY <1>1 DEF FlightIsHead, NoFlightIsNone, NoFlight
<1>7. Range(up) = {}
  BY <1>1 DEF Range
<1>8. AcksAreCurrent
  BY <1>7 DEF AcksAreCurrent
<1>9. \A l \in Lines : sent[l] = None
  BY <1>1 DEF Forgotten
<1>10. SentIsShown /\ RenderIsSent
  BY <1>7, <1>9 DEF SentIsShown, RenderIsSent
<1>11. Count(pending, "key") = 0
  <2>1. pending \in Seq(ReportSubs) /\ \A i \in DOMAIN pending : pending[i] # "key"
    BY <1>1
  <2> QED
    BY <2>1, CountIsNat
<1>12. KeysAreHandled
  BY <1>1, <1>5, <1>11 DEF KeysAreHandled
<1> QED
  BY <1>2, <1>3, <1>4, <1>5, <1>6, <1>8, <1>10, <1>12 DEF IInv

\* Nothing happens.
LEMMA StutterKeeps ==
  ASSUME IInv, UNCHANGED vars
  PROVE  IInv'
<1>1. /\ UNCHANGED <<want, rendered, sent, displayOn, pending, todo, flight, up>>
      /\ UNCHANGED <<shows, lit, part, report, presses, faults, excused, owed, waited>>
  BY DEF vars, host, mcu, history
<1> QED
  BY <1>1 DEF IInv, HostTyped, PanelTyped, HistoryTyped, FlightIsHead, Job, NoFlightIsNone,
              AcksAreCurrent, SentIsShown, RenderIsSent, KeysAreHandled

\* The inductive invariant: the calls of the pass are in order, one frame is
\* under way at most, a text the daemon takes for confirmed is on the panel,
\* and what was rendered is confirmed, forgotten or still to be sent
\* (event_loop, set_text, send_and_ack, forget_text).
THEOREM InductiveInvariant == Spec => []IInv
<1>1. Init => IInv
  BY InitHolds
<1>2. IInv /\ [Next]_vars => IInv'
  <2> SUFFICES ASSUME IInv, [Next]_vars PROVE IInv'
    OBVIOUS
  <2>1. CASE Pressed \/ Reports \/ Resets \/ Delays
    BY <2>1, WorldKeeps
  <2>2. CASE Skips
    BY <2>2, SkipsKeeps
  <2>3. CASE Starts \/ Retries
    BY <2>3, SendingKeeps
  <2>4. CASE Hears
    BY <2>4, HearsReport, HearsAnswer
  <2>5. CASE Fails
    BY <2>5, FailsKeeps
  <2>6. CASE Jams
    BY <2>6, JamsKeeps
  <2>7. CASE Tick
    BY <2>7, TickKeeps
  <2>8. CASE Drains
    BY <2>8, DrainsKeeps
  <2>9. CASE NotesBoot
    BY <2>9, NotesBootKeeps
  <2>10. CASE HandlesKey
    BY <2>10, HandlesKeyKeeps
  <2>11. CASE Polls
    BY <2>11, PollsKeeps
  <2>12. CASE UNCHANGED vars
    BY <2>12, StutterKeeps
  <2> QED
    BY <2>1, <2>2, <2>3, <2>4, <2>5, <2>6, <2>7, <2>8, <2>9, <2>10, <2>11, <2>12 DEF Next
<1> QED
  BY <1>1, <1>2, PTL DEF Spec

\* Every variable has its type, whatever the link and the controller do
\* (Lcm, protocol.rs; event_loop, main.rs).
THEOREM TypeCorrect == Spec => []TypeOK
<1>1. IInv => TypeOK
  <2> SUFFICES ASSUME IInv PROVE TypeOK
    OBVIOUS
  <2>1. HostTyped /\ PanelTyped /\ HistoryTyped /\ Orderly(todo, rendered, waited) /\ NoFlightIsNone
        /\ KeysAreHandled
    BY DEF IInv
  <2>2. \A i \in DOMAIN todo : todo[i].call \in Sends \cup {"drain", "poll", "handle"}
    <3>1. todo \in Seq(Jobs)
      BY <2>1 DEF Orderly
    <3>2. \A i \in DOMAIN todo : todo[i] \in Jobs
      BY <3>1, LenProperties, ElementOfSeq
    <3>3. \A j \in Jobs : j.call \in Sends \cup {"drain", "poll", "handle"}
      BY DEF Jobs, Sends
    <3> QED
      BY <3>2, <3>3
  <2>3. owed \in Nat /\ waited \in Nat
    <3>1. pending \in Seq(ReportSubs) /\ todo \in Seq(Jobs)
      BY <2>1 DEF HostTyped, Orderly
    <3>2. Count(pending, "key") \in Nat /\ Count(todo, Handle("key")) \in Nat
      BY <3>1, CountIsNat
    <3> QED
      BY <2>1, <3>2 DEF KeysAreHandled, HistoryTyped
  <2>4. flight = NoFlight \/ (flight.sub \in Sends /\ flight.attempt \in 0 .. 2)
    BY <2>1 DEF HostTyped, NoFlightIsNone, Answers, Sends
  <2> QED
    BY <2>1, <2>2, <2>3, <2>4 DEF TypeOK, HostTyped, PanelTyped, HistoryTyped
<1> QED
  BY <1>1, InductiveInvariant, PTL

\* When the loop comes to wait, the awake panel shows what was last rendered on
\* every line the daemon takes for confirmed (set_text, forget_text).
THEOREM PanelRight == Spec => []PanelIsRight
<1>1. IInv => PanelIsRight
  <2> SUFFICES ASSUME IInv, Doing("poll"), want.awake, ~excused, NEW l \in Lines, sent[l] # None
               PROVE  shows[l] = rendered[l]
    BY DEF PanelIsRight
  <2>1. todo # <<>> /\ Job.call = "poll"
    BY DEF Doing, Job
  <2>2. Job.call \notin Sends
    BY <2>1 DEF Sends
  <2>3. NoText(Tail(todo)) /\ Range(todo) \subseteq Range(Tail(todo)) \cup {Job}
    BY <2>1, <2>2, SendAtHead
  <2>4. Text(l, rendered[l]) \notin Range(todo)
    <3>1. Text(l, rendered[l]).call = "text"
      BY DEF Text
    <3> QED
      BY <2>1, <2>3, <3>1 DEF NoText, Range
  <2>5. sent[l] = rendered[l]
    BY <2>4 DEF IInv, RenderIsSent
  <2>6. flight.sub # "text"
    BY <2>2, NotSending DEF NoFlight, None
  <2> QED
    BY <2>5, <2>6 DEF IInv, SentIsShown
<1> QED
  BY <1>1, InductiveInvariant, PTL

\* Every acknowledged key is handled, and waits for one poll at most
\* (take_pending, drain_pending_keys).
THEOREM KeysHandled == Spec => []KeysAreHandled
<1>1. IInv => KeysAreHandled
  BY DEF IInv
<1> QED
  BY <1>1, InductiveInvariant, PTL

=============================================================================
