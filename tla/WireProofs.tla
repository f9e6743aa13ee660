----------------------------- MODULE WireProofs -----------------------------
(***************************************************************************)
(* Proofs about Wire, for any message sizes, header size and socket        *)
(* buffer: as long as one thread writes on a descriptor, the byte stream   *)
(* is a channel of whole messages.                                         *)
(***************************************************************************)
EXTENDS Wire, SequenceTheorems, WellFoundedInduction, TLAPS

\* The units and limits are natural numbers.
LEMMA Positive == HeaderUnits \in Nat \ {0} /\ SocketBuffer \in Nat \ {0} /\ Sizes \subseteq Nat
    BY WireAssumption

-----------------------------------------------------------------------------
(* The inductive invariant.  Every unit of the stream is the one after the *)
(* unit before it; the first is the unit that the receiver waits for, and  *)
(* the last comes before the one that the writer writes next.              *)

Parts == {"header", "payload"}
Unit(k, part, a) == [msg |-> k, part |-> part, at |-> a]
UnitType == [msg : Nat, part : Parts, at : Nat]

PartLen(k, part) == IF part = "header" THEN HeaderUnits ELSE sent[k].size

\* The unit that follows u when messages are written one after the other.
After(u) ==
    IF u.at < PartLen(u.msg, u.part) THEN Unit(u.msg, u.part, u.at + 1)
    ELSE IF u.part = "header" /\ sent[u.msg].size > 0 THEN Unit(u.msg, "payload", 1)
    ELSE Unit(u.msg + 1, "header", 1)

\* The unit the receiver reads next, and the one the writer writes next.
Awaited == Unit(Len(received) + 1, rpc, Len(got) + 1)
Coming(w) ==
    IF pc[w] = "idle" THEN Unit(Len(sent) + 1, "header", 1)
    ELSE Unit(cur[w], pc[w], done[w] + 1)

Successive(s) == \A i \in 1..Len(s) - 1 : s[i + 1] = After(s[i])

\* A unit of a message that was sent.
IsUnit(u) == u.msg \in 1..Len(sent) /\ u.at \in 1..PartLen(u.msg, u.part)

TypeInv ==
    /\ sent \in Seq(Message) /\ received \in Seq(Message)
    /\ stream \in Seq(UnitType) /\ got \in Seq(UnitType)
    /\ rpc \in Parts \union {"stopped"} /\ closed \in BOOLEAN

WriterInv(w) ==
    /\ pc \in [Writers -> Parts \union {"idle", "ended"}]
    /\ cur \in [Writers -> Nat] /\ done \in [Writers -> Nat]
    /\ closed <=> pc[w] = "ended"
    /\ pc[w] \in Parts =>
         cur[w] = Len(sent) /\ Len(sent) > 0 /\ done[w] < PartLen(cur[w], pc[w])

ReaderInv ==
    LET k == Len(received) + 1
    IN  rpc # "stopped" =>
          /\ got = Units(k, rpc, 0, Len(got)) /\ Len(got) < PartLen(k, rpc)
          /\ rpc = "payload" =>
               /\ k \in 1..Len(sent)
               /\ head = [units |-> Units(k, "header", 0, HeaderUnits), size |-> sent[k].size]

InOrder(w) ==
    rpc # "stopped" =>
        /\ \A i \in 1..Len(stream) : IsUnit(stream[i])
        /\ Successive(stream)
        /\ stream # <<>> => stream[1] = Awaited
        /\ ~closed => Coming(w) = IF stream = <<>> THEN Awaited ELSE After(stream[Len(stream)])

IInv(w) == TypeInv /\ WriterInv(w) /\ ReaderInv /\ InOrder(w)

-----------------------------------------------------------------------------
(* Messages and units.                                                     *)

\* A message that was sent has a size; a part of it has a length.
LEMMA SentSize ==
    ASSUME TypeInv, NEW k \in 1..Len(sent)
    PROVE  /\ sent[k] \in Message /\ sent[k].size \in Nat /\ sent[k].size \in Sizes
           /\ \A part : PartLen(k, part) \in Nat
<1>1. sent[k] \in Message
    BY ElementOfSeq DEF TypeInv
<1>2. sent[k].size \in Sizes
    BY <1>1 DEF Message
<1> QED
    BY <1>1, <1>2, Positive DEF PartLen

\* n units of a part after the first a.
LEMMA UnitsAre ==
    ASSUME NEW k \in Nat, NEW part \in Parts, NEW a \in Nat, NEW n \in Nat
    PROVE  /\ Units(k, part, a, a + n) \in Seq(UnitType) /\ Len(Units(k, part, a, a + n)) = n
           /\ \A i \in 1..n : Units(k, part, a, a + n)[i] = Unit(k, part, a + i)
<1>1. (a + n) - a = n /\ \A i \in 1..n : Unit(k, part, a + i) \in UnitType
    BY DEF Unit, UnitType
<1>2. Units(k, part, a, a + n) = [i \in 1..n |-> Unit(k, part, a + i)]
    BY <1>1 DEF Units, Unit
<1> QED
    BY <1>1, <1>2

\* The first n units of a part.
LEMMA FirstUnits ==
    ASSUME NEW k \in Nat, NEW part \in Parts, NEW n \in Nat
    PROVE  /\ Units(k, part, 0, n) \in Seq(UnitType) /\ Len(Units(k, part, 0, n)) = n
           /\ \A i \in 1..n : Units(k, part, 0, n)[i] = Unit(k, part, i)
<1>1. \A i \in 1..n : Unit(k, part, i) \in UnitType
    BY DEF Unit, UnitType
<1>2. Units(k, part, 0, n) = [i \in 1..n |-> Unit(k, part, i)]
    BY DEF Units, Unit
<1> QED
    BY <1>1, <1>2

\* A set of natural numbers has a least element.
LEMMA Least ==
    ASSUME NEW T, T \subseteq Nat, T # {}
    PROVE  \E x \in T : \A y \in T : x <= y
<1>1. PICK x \in T : \A y \in T : <<y, x>> \notin OpToRel(<, Nat)
    BY NatLessThanWellFounded, WFMin
<1>2. \A y \in T : ~(y < x)
    BY <1>1 DEF OpToRel
<1> QED
    BY <1>2

\* Units that follow one another within a part of a message are numbered.
LEMMA InARow ==
    ASSUME NEW s \in Seq(UnitType), Successive(s),
           NEW k, NEW part, NEW a \in Nat, NEW n \in 1..Len(s), PartLen(k, part) \in Nat,
           a + n <= PartLen(k, part), s[1] = Unit(k, part, a + 1)
    PROVE  \A i \in 1..n : s[i] = Unit(k, part, a + i)
<1> DEFINE T == {i \in 1..n : s[i] # Unit(k, part, a + i)}
<1> SUFFICES ASSUME T # {} PROVE FALSE
    OBVIOUS
<1>1. PICK x \in T : \A y \in T : x <= y
    <2>1. T \subseteq Nat
        OBVIOUS
    <2> HIDE DEF T
    <2> QED
        BY <2>1, Least
<1>2. x \in 2..n /\ x - 1 \in 1..n /\ x - 1 \in 1..Len(s) - 1 /\ (x - 1) + 1 = x
    BY <1>1
<1>3. s[x - 1] = Unit(k, part, a + (x - 1))
    <2>1. x - 1 \notin T
        BY <1>1, <1>2
    <2> QED
        BY <1>2, <2>1
<1>4. s[x] = After(Unit(k, part, a + (x - 1)))
    BY <1>2, <1>3 DEF Successive
<1>5. a + (x - 1) < PartLen(k, part) /\ a + (x - 1) + 1 = a + x
    BY <1>2
<1>6. s[x] = Unit(k, part, a + x)
    BY <1>4, <1>5 DEF After, Unit
<1> QED
    BY <1>1, <1>6

-----------------------------------------------------------------------------
(* recv_message.                                                           *)

\* One recv has taken n units off the stream, which with those read before are
\* the first m units of a part of message k.
Taken(k, part, m, n) ==
    /\ k \in 1..Len(sent) /\ k \in Nat /\ m \in Nat /\ n \in 1..Len(stream)
    /\ PartLen(k, part) \in Nat /\ m <= PartLen(k, part)
    /\ got \o SubSeq(stream, 1, n) = Units(k, part, 0, m)
    /\ Len(got \o SubSeq(stream, 1, n)) = m
    /\ stream[n] = Unit(k, part, m)
    /\ stream' \in Seq(UnitType) /\ Len(stream') = Len(stream) - n
    /\ \A i \in 1..Len(stream') : stream'[i] = stream[n + i]

\* What recv takes off the stream is the next of the part that is being read.
LEMMA ReadsUnits ==
    ASSUME NEW w, IInv(w), NEW k, k = Len(received) + 1, NEW part \in Parts, rpc = part,
           NEW g, g = Len(got), NEW n, Reads(n, PartLen(k, part))
    PROVE  Taken(k, part, g + n, n)
<1>1. /\ stream \in Seq(UnitType) /\ got \in Seq(UnitType) /\ g \in Nat /\ Len(stream) \in Nat
      /\ Len(received) \in Nat /\ k \in Nat
    BY DEF IInv, TypeInv
<1>2. /\ got = Units(k, part, 0, g) /\ g < PartLen(k, part)
      /\ stream # <<>> => stream[1] = Unit(k, part, g + 1)
      /\ \A i \in 1..Len(stream) : IsUnit(stream[i])
      /\ Successive(stream)
    BY DEF IInv, ReaderInv, InOrder, Awaited, Parts
<1>3. n \in 1..LeastOf(PartLen(k, part) - g, Len(stream))
    BY DEF Reads
<1>4. stream' = SubSeq(stream, n + 1, Len(stream))
    BY DEF Reads
<1>5. PartLen(k, part) \in Nat
    <2>1. CASE part = "header"
        BY <2>1, Positive DEF PartLen
    <2>2. CASE part = "payload"
        BY <2>2, SentSize DEF IInv, ReaderInv
    <2> QED
        BY <2>1, <2>2 DEF Parts
<1>6. Len(stream) > 0 /\ stream # <<>>
    BY <1>1, <1>3, <1>5 DEF LeastOf
<1>7. k \in 1..Len(sent)
    BY <1>1, <1>2, <1>6 DEF IsUnit, Unit
<1>8. n \in 1..Len(stream) /\ g + n <= PartLen(k, part)
    BY <1>1, <1>3, <1>5 DEF LeastOf
<1>9. \A i \in 1..n : stream[i] = Unit(k, part, g + i)
    BY <1>1, <1>2, <1>5, <1>6, <1>8, InARow
<1>10. /\ Len(got) = g /\ \A i \in 1..g : got[i] = Unit(k, part, i)
    <2>1. \A i \in 1..g : Units(k, part, 0, g)[i] = Unit(k, part, i)
        BY <1>1, FirstUnits
    <2> QED
        BY <1>2, <2>1
<1>11. /\ SubSeq(stream, 1, n) \in Seq(UnitType) /\ Len(SubSeq(stream, 1, n)) = n
       /\ \A i \in 1..n : SubSeq(stream, 1, n)[i] = stream[i]
    BY <1>1, <1>8
<1>12. /\ got \o SubSeq(stream, 1, n) \in Seq(UnitType) /\ g + n \in Nat
       /\ Len(got \o SubSeq(stream, 1, n)) = g + n
       /\ \A i \in 1..g + n :
            (got \o SubSeq(stream, 1, n))[i] = IF i <= g THEN got[i] ELSE stream[i - g]
    <2>1. /\ got \o SubSeq(stream, 1, n) \in Seq(UnitType)
          /\ Len(got \o SubSeq(stream, 1, n)) = g + n
          /\ \A i \in 1..g + n : (got \o SubSeq(stream, 1, n))[i] =
               IF i <= g THEN got[i] ELSE SubSeq(stream, 1, n)[i - g]
        BY <1>1, <1>11, ConcatProperties
    <2>2. \A i \in 1..g + n : i <= g \/ i - g \in 1..n
        BY <1>1, <1>8
    <2> QED
        BY <1>1, <1>8, <1>11, <2>1, <2>2
<1>13. got \o SubSeq(stream, 1, n) = Units(k, part, 0, g + n)
    <2>1. /\ Units(k, part, 0, g + n) \in Seq(UnitType) /\ Len(Units(k, part, 0, g + n)) = g + n
          /\ \A i \in 1..g + n : Units(k, part, 0, g + n)[i] = Unit(k, part, i)
        BY <1>1, <1>12, FirstUnits
    <2>2. \A i \in 1..g + n : (got \o SubSeq(stream, 1, n))[i] = Unit(k, part, i)
        <3> SUFFICES ASSUME NEW i \in 1..g + n
                     PROVE  (got \o SubSeq(stream, 1, n))[i] = Unit(k, part, i)
            OBVIOUS
        <3>1. CASE i <= g
            BY <1>1, <1>8, <1>10, <1>12, <3>1
        <3>2. CASE i > g
            <4>1. i - g \in 1..n /\ g + (i - g) = i /\ ~(i <= g)
                BY <1>1, <1>8, <3>2
            <4>2. stream[i - g] = Unit(k, part, g + (i - g))
                BY <1>9, <4>1
            <4>3. (got \o SubSeq(stream, 1, n))[i] = stream[i - g]
                BY <1>12, <4>1
            <4> QED
                BY <4>1, <4>2, <4>3
        <3> QED
            BY <1>1, <1>8, <3>1, <3>2
    <2> QED
        <3> DEFINE s == got \o SubSeq(stream, 1, n)
                   t == Units(k, part, 0, g + n)
        <3>1. s \in Seq(UnitType) /\ t \in Seq(UnitType) /\ Len(s) = Len(t)
            BY <1>12, <2>1
        <3>2. \A i \in 1..Len(s) : s[i] = t[i]
            BY <1>12, <2>1, <2>2
        <3> HIDE DEF s, t
        <3>3. s = t
            BY <3>1, <3>2, SeqEqual
        <3> QED
            BY <3>3 DEF s, t
<1>14. /\ stream' \in Seq(UnitType) /\ Len(stream') = Len(stream) - n
       /\ \A i \in 1..Len(stream') : stream'[i] = stream[n + i]
    BY <1>1, <1>4, <1>8
<1> QED
    <2>1. /\ k \in 1..Len(sent) /\ k \in Nat /\ g + n \in Nat /\ n \in 1..Len(stream)
          /\ PartLen(k, part) \in Nat /\ g + n <= PartLen(k, part)
        BY <1>1, <1>5, <1>7, <1>8, <1>12
    <2>2. got \o SubSeq(stream, 1, n) = Units(k, part, 0, g + n)
        BY <1>13
    <2>3. Len(got \o SubSeq(stream, 1, n)) = g + n
        BY <1>12
    <2>4. stream[n] = Unit(k, part, g + n)
        <3>1. n \in 1..n
            BY <1>1, <1>8
        <3> QED
            BY <1>9, <3>1
    <2> QED
        BY <1>14, <2>1, <2>2, <2>3, <2>4 DEF Taken

\* The receiver goes on with the unit after the last one it has read, or has
\* stopped.
LEMMA ReadInOrder ==
    ASSUME NEW w, IInv(w), UNCHANGED writeVars, NEW u, NEW n \in 1..Len(stream), stream[n] = u,
           stream' \in Seq(UnitType), Len(stream') = Len(stream) - n,
           \A i \in 1..Len(stream') : stream'[i] = stream[n + i],
           rpc' # "stopped" => Awaited' = After(u), rpc # "stopped"
    PROVE  InOrder(w)'
<1> SUFFICES ASSUME rpc' # "stopped" PROVE InOrder(w)'
    BY DEF InOrder
<1>1. stream \in Seq(UnitType) /\ Len(stream) \in Nat /\ Len(stream') \in Nat
    BY DEF IInv, TypeInv
<1>2. /\ \A v : After(v)' = After(v)
      /\ \A v : IsUnit(v)' <=> IsUnit(v)
      /\ Coming(w)' = Coming(w) /\ closed' = closed
    BY DEF writeVars, After, IsUnit, PartLen, Coming
<1>3. /\ \A i \in 1..Len(stream) : IsUnit(stream[i])
      /\ \A i \in 1..Len(stream) - 1 : stream[i + 1] = After(stream[i])
      /\ stream # <<>>
      /\ ~closed => Coming(w) = After(stream[Len(stream)])
    BY <1>1 DEF IInv, InOrder, Successive
<1>4. PICK q : q = stream'
    OBVIOUS
<1>5. /\ q \in Seq(UnitType) /\ Len(q) = Len(stream) - n /\ Len(q) \in Nat
      /\ \A i \in 1..Len(q) : q[i] = stream[n + i]
    BY <1>1, <1>4
<1>6. \A i \in 1..Len(q) : IsUnit(q[i])'
    <2>1. \A i \in 1..Len(q) : n + i \in 1..Len(stream)
        BY <1>1, <1>5
    <2> QED
        BY <1>2, <1>3, <1>5, <2>1
<1>7. \A i \in 1..Len(q) - 1 : q[i + 1] = After(q[i])'
    <2>1. \A i \in 1..Len(q) - 1 : /\ n + i \in 1..Len(stream) - 1 /\ n + (i + 1) = (n + i) + 1
                                   /\ i \in 1..Len(q) /\ i + 1 \in 1..Len(q)
        BY <1>1, <1>5
    <2>2. \A i \in 1..Len(q) - 1 : q[i + 1] = After(q[i])
        BY <1>3, <1>5, <2>1
    <2> QED
        BY <1>2, <2>2
<1>8. q # <<>> => q[1] = After(u)
    <2> SUFFICES ASSUME q # <<>> PROVE q[1] = After(u)
        OBVIOUS
    <2>1. 1 \in 1..Len(q) /\ n \in 1..Len(stream) - 1
        BY <1>1, <1>5
    <2> QED
        BY <1>3, <1>5, <2>1
<1>9. ~closed => Coming(w)' = IF q = <<>> THEN After(u) ELSE After(q[Len(q)])'
    <2>1. CASE q = <<>>
        <3>1. n = Len(stream)
            BY <1>1, <1>5, <2>1
        <3> QED
            BY <1>2, <1>3, <2>1, <3>1
    <2>2. CASE q # <<>>
        <3>1. Len(q) \in 1..Len(q) /\ n + Len(q) = Len(stream)
            BY <1>1, <1>5, <2>2
        <3> QED
            BY <1>2, <1>3, <1>5, <2>2, <3>1
    <2> QED
        BY <2>1, <2>2
<1>10. Awaited' = After(u) /\ stream' = q /\ closed' = closed
    BY <1>2, <1>4
<1> QED
    BY <1>6, <1>7, <1>8, <1>9, <1>10 DEF InOrder, Successive


\* A header that was read whole is one that was sent, and a message of which
\* everything was read is the next one.
LEMMA NextMessage ==
    ASSUME TypeInv, NEW k \in 1..Len(sent), NEW us, us = Units(k, "header", 0, HeaderUnits)
    PROVE  /\ is_header(us) /\ us[1].msg = k
           /\ msg_size(us) = {sent[k].size}
           /\ \A ps : ps = Units(k, "payload", 0, sent[k].size) => message(us, ps) = sent[k]
<1>1. k \in Nat /\ HeaderUnits \in Nat \ {0} /\ 1 \in 1..HeaderUnits
    BY Positive DEF TypeInv
<1>2. us[1] = Unit(k, "header", 1)
    BY <1>1, FirstUnits DEF Parts
<1>3. is_header(us) /\ us[1].msg = k
    BY <1>2 DEF is_header, Unit
<1> QED
    BY <1>3 DEF msg_size, message


\* What one step of the receiver does with the part it is reading: it has not
\* all of it; the next message arrives; the payload follows; it gives up.
Partly(k, part, m) ==
    /\ got' = Units(k, part, 0, m) /\ m < PartLen(k, part)
    /\ UNCHANGED <<rpc, head, received>>
Arrives(k) ==
    got' = <<>> /\ rpc' = "header" /\ received' = Append(received, sent[k])
Payload(k) ==
    /\ got' = <<>> /\ rpc' = "payload" /\ received' = received /\ sent[k].size > 0
    /\ head' = [units |-> Units(k, "header", 0, HeaderUnits), size |-> sent[k].size]
Stops == got' = <<>> /\ rpc' = "stopped" /\ received' = received

\* Each of them keeps the invariant and is a step of the channel or none.
LEMMA ReaderSteps ==
    ASSUME NEW w, IInv(w), UNCHANGED writeVars, NEW k, k = Len(received) + 1,
           NEW part \in Parts, rpc = part, NEW m, NEW n, Taken(k, part, m, n),
           \/ Partly(k, part, m)
           \/ /\ m = PartLen(k, part)
              /\ \/ Stops
                 \/ Arrives(k) /\ (part = "header" => sent[k].size = 0)
                 \/ Payload(k) /\ part = "header"
    PROVE  IInv(w)' /\ [Channel!Next]_Channel!vars
<1>1. /\ sent \in Seq(Message) /\ received \in Seq(Message) /\ k \in Nat /\ Len(received) \in Nat
      /\ sent[k] \in Message /\ sent[k].size \in Nat /\ closed \in BOOLEAN
      /\ sent' = sent /\ closed' = closed /\ rpc # "stopped" /\ HeaderUnits \in Nat \ {0}
    BY SentSize, Positive DEF IInv, TypeInv, writeVars, Parts, Taken
<1>2. WriterInv(w)'
    BY DEF IInv, WriterInv, writeVars, PartLen
<1>3. /\ k \in 1..Len(sent) /\ m \in Nat /\ n \in 1..Len(stream) /\ m <= PartLen(k, part)
      /\ stream' \in Seq(UnitType) /\ Len(stream') = Len(stream) - n
      /\ \A i \in 1..Len(stream') : stream'[i] = stream[n + i]
      /\ stream[n] = Unit(k, part, m)
    BY DEF Taken
<1>4. \A j, p : Units(j, p, 0, 0) = <<>>
    BY DEF Units
<1>5. CASE Partly(k, part, m)
    <2>1. got' \in Seq(UnitType) /\ Len(got') = m /\ rpc' = part /\ received' = received
        BY <1>1, <1>5, <1>3, FirstUnits DEF Partly
    <2>2. TypeInv'
        BY <1>1, <2>1 DEF TypeInv, Parts, Taken
    <2>3. ReaderInv'
        BY <1>1, <1>5, <2>1 DEF IInv, ReaderInv, Partly, PartLen
    <2>4. Awaited' = After(Unit(k, part, m))
        BY <1>5, <2>1 DEF Awaited, After, Unit, Partly
    <2>5. InOrder(w)'
        BY <1>1, <1>3, <2>4, ReadInOrder
    <2>6. UNCHANGED Channel!vars
        BY <1>1, <1>5 DEF Partly, Channel!vars
    <2> QED
        BY <1>2, <2>2, <2>3, <2>5, <2>6 DEF IInv
<1>6. CASE Stops
    <2>1. TypeInv' /\ ReaderInv' /\ InOrder(w)'
        BY <1>1, <1>6 DEF TypeInv, ReaderInv, InOrder, Stops, Taken
    <2>2. Channel!GiveUp
        BY <1>1, <1>6 DEF Stops, Channel!GiveUp
    <2> QED
        BY <1>2, <2>1, <2>2 DEF IInv, Channel!Next
<1>7. CASE m = PartLen(k, part) /\ Arrives(k) /\ (part = "header" => sent[k].size = 0)
    <2>1. /\ received' \in Seq(Message) /\ Len(received') = k /\ got' = <<>> /\ rpc' = "header"
          /\ received' = Append(received, sent[k])
        BY <1>1, <1>7 DEF Arrives
    <2>2. TypeInv'
        BY <1>1, <2>1 DEF TypeInv, Parts, Taken
    <2>3. ReaderInv'
        BY <1>1, <1>4, <2>1 DEF ReaderInv, PartLen
    <2>4. Awaited' = After(Unit(k, part, m))
        <3>1. Awaited' = Unit(k + 1, "header", 1)
            BY <2>1 DEF Awaited
        <3> QED
            BY <1>1, <1>3, <1>7, <3>1 DEF After, Unit
    <2>5. InOrder(w)'
        BY <1>1, <1>3, <2>4, ReadInOrder
    <2>6. Channel!Receive
        BY <1>1, <1>3, <2>1 DEF Channel!Receive
    <2> QED
        BY <1>2, <2>2, <2>3, <2>5, <2>6 DEF IInv, Channel!Next
<1>8. CASE m = PartLen(k, part) /\ Payload(k) /\ part = "header"
    <2>1. TypeInv'
        BY <1>1, <1>8 DEF TypeInv, Payload, Parts, Taken
    <2>2. ReaderInv'
        BY <1>1, <1>3, <1>4, <1>8 DEF ReaderInv, Payload, PartLen
    <2>3. Awaited' = After(Unit(k, part, m))
        <3>1. Awaited' = Unit(k, "payload", 1)
            BY <1>8 DEF Awaited, Payload
        <3> QED
            BY <1>1, <1>3, <1>8, <3>1 DEF After, Unit, Payload
    <2>4. InOrder(w)'
        BY <1>1, <1>3, <2>3, ReadInOrder
    <2>5. UNCHANGED Channel!vars
        BY <1>1, <1>8 DEF Payload, Channel!vars
    <2> QED
        BY <1>2, <2>1, <2>2, <2>4, <2>5 DEF IInv
<1> QED
    BY <1>5, <1>6, <1>7, <1>8


\* recv_message on an ordered stream.
LEMMA ReceiverStep ==
    ASSUME NEW w, IInv(w), RecvStep
    PROVE  IInv(w)' /\ [Channel!Next]_Channel!vars
<1>1. PICK k, g : k = Len(received) + 1 /\ g = Len(got)
    OBVIOUS
<1>2. CASE RecvHeader
    <2>1. PICK n, us :
            /\ n \in 1..HeaderUnits /\ Reads(n, HeaderUnits)
            /\ rpc = "header" /\ UNCHANGED writeVars
            /\ us = got \o SubSeq(stream, 1, n)
            /\ \/ /\ Len(us) # HeaderUnits /\ got' = us
                  /\ UNCHANGED <<rpc, head, received>>
               \/ /\ Len(us) = HeaderUnits /\ got' = <<>>
                  /\ \E size \in msg_size(us) :
                       \/ /\ size > SQLCG_MAX_PAYLOAD /\ rpc' = "stopped"
                          /\ UNCHANGED <<head, received>>
                       \/ size = 0 /\ deliver(us, <<>>) /\ UNCHANGED <<rpc, head>>
                       \/ /\ size \in 1..SQLCG_MAX_PAYLOAD /\ rpc' = "payload"
                          /\ head' = [units |-> us, size |-> size] /\ received' = received
        BY <1>2 DEF RecvHeader, complete
    <2>2. PartLen(k, "header") = HeaderUnits /\ "header" \in Parts
        BY DEF PartLen, Parts
    <2>3. Taken(k, "header", g + n, n)
        <3>1. rpc = "header" /\ Reads(n, PartLen(k, "header"))
            BY <2>1, <2>2
        <3> QED
            BY <1>1, <2>2, <3>1, ReadsUnits
    <2>4. \/ Partly(k, "header", g + n)
          \/ g + n = HeaderUnits /\ (Stops \/ (Arrives(k) /\ sent[k].size = 0) \/ Payload(k))
        <3>1. /\ us = Units(k, "header", 0, g + n) /\ Len(us) = g + n /\ g + n <= HeaderUnits
              /\ k \in 1..Len(sent) /\ g + n \in Nat
            BY <2>1, <2>2, <2>3 DEF Taken
        <3>2. CASE g + n # HeaderUnits
            <4>1. got' = us /\ UNCHANGED <<rpc, head, received>>
                BY <2>1, <3>1, <3>2
            <4>2. g + n < PartLen(k, "header")
                BY <2>2, <3>1, <3>2, Positive
            <4> QED
                BY <3>1, <4>1, <4>2 DEF Partly
        <3>3. CASE g + n = HeaderUnits
            <4>1. us = Units(k, "header", 0, HeaderUnits) /\ Len(us) = HeaderUnits
                BY <3>1, <3>3
            <4>2. /\ msg_size(us) = {sent[k].size}
                  /\ \A ps : ps = Units(k, "payload", 0, sent[k].size) =>
                               message(us, ps) = sent[k]
                BY <3>1, <4>1, NextMessage DEF IInv
            <4>3. \A j, p : Units(j, p, 0, 0) = <<>>
                BY DEF Units
            <4>4. sent[k].size \in Nat
                BY <3>1, SentSize DEF IInv
            <4>5. /\ got' = <<>>
                  /\ \/ rpc' = "stopped" /\ UNCHANGED <<head, received>>
                     \/ sent[k].size = 0 /\ deliver(us, <<>>) /\ UNCHANGED <<rpc, head>>
                     \/ /\ sent[k].size > 0 /\ rpc' = "payload"
                        /\ head' = [units |-> us, size |-> sent[k].size] /\ received' = received
                BY <2>1, <4>1, <4>2, <4>4
            <4>6. sent[k].size = 0 => message(us, <<>>) = sent[k]
                BY <4>2, <4>3
            <4> QED
                BY <2>1, <3>3, <4>1, <4>5, <4>6 DEF deliver, Stops, Arrives, Payload
        <3> QED
            BY <3>2, <3>3
    <2>5. PICK m : m = g + n
        OBVIOUS
    <2>6. /\ rpc = "header" /\ UNCHANGED writeVars /\ Taken(k, "header", m, n)
          /\ \/ Partly(k, "header", m)
             \/ /\ m = PartLen(k, "header")
                /\ Stops \/ (Arrives(k) /\ sent[k].size = 0) \/ Payload(k)
        BY <2>1, <2>2, <2>3, <2>4, <2>5
    <2> QED
        BY <1>1, <2>2, <2>6, ReaderSteps
<1>3. CASE RecvPayload
    <2>1. rpc = "payload" /\ PartLen(k, "payload") = sent[k].size /\ "payload" \in Parts
        BY <1>3 DEF RecvPayload, PartLen, Parts
    <2>2. /\ k \in 1..Len(sent) /\ head.units = Units(k, "header", 0, HeaderUnits)
          /\ head.size = sent[k].size
        BY <1>1, <2>1 DEF IInv, ReaderInv
    <2>3. PICK n, us :
            /\ n \in 1..sent[k].size /\ Reads(n, sent[k].size) /\ UNCHANGED writeVars
            /\ us = got \o SubSeq(stream, 1, n)
            /\ \/ /\ Len(us) # sent[k].size /\ got' = us
                  /\ UNCHANGED <<rpc, head, received>>
               \/ /\ Len(us) = sent[k].size /\ got' = <<>>
                  /\ rpc' = "header" /\ head' = <<>> /\ deliver(head.units, us)
        BY <1>3, <2>2 DEF RecvPayload, complete
    <2>4. Taken(k, "payload", g + n, n)
        <3>1. rpc = "payload" /\ Reads(n, PartLen(k, "payload"))
            BY <2>1, <2>3
        <3> QED
            BY <1>1, <2>1, <3>1, ReadsUnits
    <2>5. \/ Partly(k, "payload", g + n)
          \/ g + n = sent[k].size /\ Arrives(k)
        <3>1. /\ us = Units(k, "payload", 0, g + n) /\ Len(us) = g + n /\ g + n <= sent[k].size
              /\ g + n \in Nat /\ sent[k].size \in Nat
            BY <2>1, <2>3, <2>4 DEF Taken
        <3>2. CASE g + n # sent[k].size
            <4>1. got' = us /\ UNCHANGED <<rpc, head, received>>
                BY <2>3, <3>1, <3>2
            <4>2. g + n < PartLen(k, "payload")
                BY <2>1, <3>1, <3>2
            <4> QED
                BY <3>1, <4>1, <4>2 DEF Partly
        <3>3. CASE g + n = sent[k].size
            <4>1. message(head.units, us) = sent[k]
                BY <2>2, <3>1, <3>3, NextMessage DEF IInv
            <4> QED
                BY <2>3, <3>1, <3>3, <4>1 DEF deliver, Arrives
        <3> QED
            BY <3>2, <3>3
    <2>6. PICK m : m = g + n
        OBVIOUS
    <2>7. /\ UNCHANGED writeVars /\ Taken(k, "payload", m, n)
          /\ \/ Partly(k, "payload", m)
             \/ m = PartLen(k, "payload") /\ Arrives(k)
        BY <2>1, <2>3, <2>4, <2>5, <2>6
    <2> QED
        BY <1>1, <2>1, <2>7, ReaderSteps
<1>4. CASE RecvEnds
    <2>1. /\ rpc # "stopped" /\ rpc' = "stopped" /\ got' = <<>>
          /\ UNCHANGED <<received, sent, pc, cur, done, closed, stream>>
        BY <1>4 DEF RecvEnds, writeVars
    <2>2. TypeInv' /\ WriterInv(w)' /\ ReaderInv' /\ InOrder(w)'
        BY <2>1 DEF IInv, TypeInv, WriterInv, ReaderInv, InOrder, PartLen
    <2>3. Channel!GiveUp
        BY <2>1 DEF Channel!GiveUp
    <2> QED
        BY <2>2, <2>3 DEF IInv, Channel!Next
<1> QED
    BY <1>2, <1>3, <1>4 DEF RecvStep


-----------------------------------------------------------------------------
(* send_message.                                                           *)

\* A new message: what was sent and what is on the way stays what it was.
LEMMA StartStep ==
    ASSUME NEW w, Writers = {w}, IInv(w), SendStart(w)
    PROVE  IInv(w)' /\ [Channel!Next]_Channel!vars
<1>1. PICK m, size :
        /\ size \in Sizes /\ m = [by |-> w, size |-> size, n |-> Len(sent) + 1]
        /\ sent' = Append(sent, m) /\ cur' = [cur EXCEPT ![w] = Len(sent) + 1]
        /\ pc' = [pc EXCEPT ![w] = "header"] /\ done' = [done EXCEPT ![w] = 0]
        /\ pc[w] = "idle" /\ ~closed /\ Len(sent) < MaxMessages
        /\ UNCHANGED <<closed, stream, rpc, got, head, received>>
    BY DEF SendStart, readVars
<1>2. m \in Message
    BY <1>1, WireAssumption DEF Message, IInv, TypeInv
<1>3. /\ sent' \in Seq(Message) /\ Len(sent') = Len(sent) + 1 /\ Len(sent) \in Nat
      /\ \A k \in 1..Len(sent) : k \in 1..Len(sent') /\ sent'[k] = sent[k]
    BY <1>1, <1>2, AppendProperties DEF IInv, TypeInv
<1>4. TypeInv'
    BY <1>1, <1>3 DEF IInv, TypeInv
<1>5. pc'[w] = "header" /\ cur'[w] = Len(sent') /\ done'[w] = 0
    BY <1>1, <1>3 DEF IInv, WriterInv
<1>6. WriterInv(w)'
    <2>1. /\ pc' \in [Writers -> Parts \union {"idle", "ended"}]
          /\ cur' \in [Writers -> Nat] /\ done' \in [Writers -> Nat]
        BY <1>1, <1>3 DEF IInv, WriterInv, Parts
    <2>2. closed' <=> pc'[w] = "ended"
        BY <1>1, <1>5 DEF IInv, TypeInv
    <2>3. Len(sent') > 0 /\ 0 < HeaderUnits
        BY <1>3, Positive
    <2>4. (pc[w] \in Parts =>
             cur[w] = Len(sent) /\ Len(sent) > 0 /\ done[w] < PartLen(cur[w], pc[w]))'
        BY <1>5, <2>3 DEF PartLen
    <2> QED
        BY <2>1, <2>2, <2>4 DEF WriterInv
<1>7. ReaderInv'
    <2>1. PICK k : k = Len(received) + 1
        OBVIOUS
    <2>2. Len(received') + 1 = k /\ rpc \in {"header", "payload", "stopped"}
        BY <1>1, <2>1 DEF IInv, TypeInv, Parts
    <2>3. rpc # "stopped" =>
            /\ got = Units(k, rpc, 0, Len(got)) /\ Len(got) < PartLen(k, rpc)
            /\ rpc = "payload" =>
                 /\ k \in 1..Len(sent)
                 /\ head = [units |-> Units(k, "header", 0, HeaderUnits), size |-> sent[k].size]
        BY <2>1 DEF IInv, ReaderInv
    <2>4. rpc # "stopped" => PartLen(k, rpc)' = PartLen(k, rpc)
        BY <1>1, <1>3, <2>2, <2>3 DEF PartLen
    <2> QED
        BY <1>1, <1>3, <2>1, <2>2, <2>3, <2>4 DEF ReaderInv
<1>8. ASSUME NEW u, IsUnit(u) PROVE IsUnit(u)' /\ After(u)' = After(u)
    BY <1>3, <1>8 DEF IsUnit, After, PartLen
<1>9. InOrder(w)'
    <2> SUFFICES ASSUME rpc # "stopped" PROVE InOrder(w)'
        BY <1>1 DEF InOrder
    <2>1. PICK q : q = stream
        OBVIOUS
    <2>2. q \in Seq(UnitType) /\ Len(q) \in Nat /\ stream' = q
        BY <1>1, <2>1 DEF IInv, TypeInv
    <2>3. /\ \A i \in 1..Len(q) : IsUnit(q[i])
          /\ \A i \in 1..Len(q) - 1 : q[i + 1] = After(q[i])
          /\ q # <<>> => q[1] = Awaited
          /\ Coming(w) = IF q = <<>> THEN Awaited ELSE After(q[Len(q)])
        BY <1>1, <2>1 DEF IInv, InOrder, Successive
    <2>4. Awaited' = Awaited
        BY <1>1 DEF Awaited
    <2>5. Coming(w)' = Coming(w)
        BY <1>1, <1>3, <1>5 DEF Coming
    <2>6. \A i \in 1..Len(q) : IsUnit(q[i])'
        BY <1>8, <2>3
    <2>7. \A i \in 1..Len(q) - 1 : q[i + 1] = After(q[i])'
        BY <1>8, <2>2, <2>3
    <2>8. q # <<>> => After(q[Len(q)])' = After(q[Len(q)])
        <3>1. q # <<>> => Len(q) \in 1..Len(q)
            BY <2>2
        <3> QED
            BY <1>8, <2>3, <3>1
    <2> QED
        BY <1>1, <2>2, <2>3, <2>4, <2>5, <2>6, <2>7, <2>8 DEF InOrder, Successive
<1>10. Channel!Send(m)
    BY <1>1 DEF Channel!Send
<1> QED
    BY <1>2, <1>4, <1>6, <1>7, <1>9, <1>10 DEF IInv, Channel!Next

\* A write that the kernel takes: the units follow what is on the way.
LEMMA WriteInOrder ==
    ASSUME NEW w, Writers = {w}, IInv(w), Write(w)
    PROVE  IInv(w)' /\ [Channel!Next]_Channel!vars
<1>1. PICK k, part, d, len, n, new :
        /\ k = cur[w] /\ part = pc[w] /\ d = done[w] /\ len = PartLen(k, part)
        /\ n \in 1..LeastOf(len - d, SocketBuffer - Len(stream))
        /\ new = Units(k, part, d, d + n) /\ stream' = stream \o new
        /\ IF d + n < len THEN done' = [done EXCEPT ![w] = d + n] /\ pc' = pc
           ELSE /\ done' = [done EXCEPT ![w] = 0]
                /\ pc' = [pc EXCEPT ![w] = IF part = "header" /\ sent[k].size > 0
                                           THEN "payload" ELSE "idle"]
        /\ part \in Parts /\ rpc # "stopped"
        /\ UNCHANGED <<sent, cur, closed, rpc, got, head, received>>
    BY DEF Write, written, readVars, PartLen, Parts
<1>2. /\ k = Len(sent) /\ k \in 1..Len(sent) /\ k \in Nat /\ d \in Nat /\ d < len /\ len \in Nat
      /\ ~closed
    BY <1>1, SentSize, Positive DEF IInv, TypeInv, WriterInv, Parts
<1>3. sent[k].size \in Nat
    BY <1>2, SentSize DEF IInv
<1>4. stream \in Seq(UnitType) /\ Len(stream) \in Nat
    BY DEF IInv, TypeInv
<1>5. n \in Nat /\ n > 0 /\ d + n <= len /\ d + n \in Nat
    BY <1>1, <1>2, <1>4, Positive DEF LeastOf
<1>6. /\ new \in Seq(UnitType) /\ Len(new) = n
      /\ \A i \in 1..n : new[i] = Unit(k, part, d + i)
    <2>1. /\ Units(k, part, d, d + n) \in Seq(UnitType) /\ Len(Units(k, part, d, d + n)) = n
          /\ \A i \in 1..n : Units(k, part, d, d + n)[i] = Unit(k, part, d + i)
        <3>1. k \in Nat /\ part \in Parts /\ d \in Nat /\ n \in Nat
            BY <1>1, <1>2, <1>5
        <3> QED
            BY <3>1, UnitsAre
    <2> QED
        BY <1>1, <2>1
<1>7. /\ stream' \in Seq(UnitType) /\ Len(stream') = Len(stream) + n
      /\ \A i \in 1..Len(stream) : stream'[i] = stream[i]
      /\ \A i \in 1..n : stream'[Len(stream) + i] = Unit(k, part, d + i)
    <2>1. /\ stream' \in Seq(UnitType) /\ Len(stream') = Len(stream) + n
          /\ \A i \in 1..Len(stream) + n :
               stream'[i] = IF i <= Len(stream) THEN stream[i] ELSE new[i - Len(stream)]
        <3>1. /\ stream \o new \in Seq(UnitType) /\ Len(stream \o new) = Len(stream) + Len(new)
              /\ \A i \in 1..Len(stream) + Len(new) : (stream \o new)[i] =
                   IF i <= Len(stream) THEN stream[i] ELSE new[i - Len(stream)]
            <4>1. stream \in Seq(UnitType) /\ new \in Seq(UnitType)
                BY <1>4, <1>6
            <4> QED
                BY <4>1, ConcatProperties
        <3>2. stream' = stream \o new /\ Len(new) = n
            BY <1>1, <1>6
        <3> QED
            BY <3>1, <3>2
    <2>2. \A i \in 1..Len(stream) : i \in 1..Len(stream) + n /\ i <= Len(stream)
        BY <1>4, <1>5
    <2>3. \A i \in 1..n : /\ Len(stream) + i \in 1..Len(stream) + n
                          /\ ~(Len(stream) + i <= Len(stream))
                          /\ (Len(stream) + i) - Len(stream) = i
        BY <1>4, <1>5
    <2> QED
        BY <1>6, <2>1, <2>2, <2>3
<1>8. TypeInv' /\ ReaderInv'
    BY <1>1, <1>7 DEF IInv, TypeInv, ReaderInv, PartLen
<1>9. /\ \A v : After(v)' = After(v)
      /\ \A v : IsUnit(v)' <=> IsUnit(v)
      /\ Awaited' = Awaited
    BY <1>1 DEF After, IsUnit, PartLen, Awaited
<1>10. WriterInv(w)' /\ Coming(w)' = After(Unit(k, part, d + n))
    <2>1. /\ w \in Writers /\ pc \in [Writers -> Parts \union {"idle", "ended"}]
          /\ cur \in [Writers -> Nat] /\ done \in [Writers -> Nat]
        BY DEF IInv, WriterInv
    <2>2. CASE d + n < len
        <3>1. /\ done'[w] = d + n /\ pc'[w] = part /\ cur'[w] = k
              /\ done' \in [Writers -> Nat] /\ pc' = pc
            BY <1>1, <1>5, <2>1, <2>2
        <3>2. WriterInv(w)'
            BY <1>1, <1>2, <2>1, <2>2, <3>1 DEF IInv, WriterInv, PartLen
        <3>3. Coming(w)' = Unit(k, part, (d + n) + 1)
            BY <1>1, <3>1 DEF Coming, Parts
        <3> QED
            BY <1>1, <2>2, <3>2, <3>3 DEF After, Unit
    <2>3. CASE ~(d + n < len)
        <3>1. PICK next : next = IF part = "header" /\ sent[k].size > 0 THEN "payload" ELSE "idle"
            OBVIOUS
        <3>2. /\ done'[w] = 0 /\ pc'[w] = next /\ cur'[w] = k
              /\ done' \in [Writers -> Nat] /\ pc' \in [Writers -> Parts \union {"idle", "ended"}]
            BY <1>1, <2>1, <2>3, <3>1 DEF Parts
        <3>3. WriterInv(w)'
            BY <1>1, <1>2, <1>3, <2>1, <3>1, <3>2 DEF IInv, WriterInv, PartLen, Parts
        <3>4. Coming(w)' = IF next = "idle" THEN Unit(k + 1, "header", 1) ELSE Unit(k, "payload", 1)
            BY <1>1, <1>2, <3>1, <3>2 DEF Coming
        <3> QED
            BY <1>1, <1>5, <2>3, <3>1, <3>3, <3>4 DEF After, Unit
    <2> QED
        BY <2>2, <2>3
<1>11. InOrder(w)'
    <2>1. PICK q : q = stream'
        OBVIOUS
    <2>2. /\ q \in Seq(UnitType) /\ Len(q) = Len(stream) + n /\ Len(q) \in Nat /\ q # <<>>
          /\ \A i \in 1..Len(stream) : q[i] = stream[i]
          /\ \A i \in 1..n : q[Len(stream) + i] = Unit(k, part, d + i)
        BY <1>4, <1>5, <1>7, <2>1
    <2>3. /\ \A i \in 1..Len(stream) : IsUnit(stream[i])
          /\ \A i \in 1..Len(stream) - 1 : stream[i + 1] = After(stream[i])
          /\ stream # <<>> => stream[1] = Awaited
          /\ Unit(k, part, d + 1) = IF stream = <<>> THEN Awaited ELSE After(stream[Len(stream)])
        BY <1>1, <1>2 DEF IInv, InOrder, Successive, Coming, Parts
    <2>4. \A i \in 1..Len(q) : i \in 1..Len(stream) \/ i - Len(stream) \in 1..n
        BY <1>4, <1>5, <2>2
    <2>5. \A i \in 1..Len(q) : IsUnit(q[i])
        <3>1. \A i \in 1..n : IsUnit(Unit(k, part, d + i))
            BY <1>1, <1>2, <1>5 DEF IsUnit, Unit
        <3>2. ASSUME NEW i \in 1..Len(q), i - Len(stream) \in 1..n PROVE IsUnit(q[i])
            <4>1. Len(stream) + (i - Len(stream)) = i
                BY <1>4, <3>2
            <4> QED
                BY <2>2, <3>1, <3>2, <4>1
        <3> QED
            BY <2>2, <2>3, <2>4, <3>2
    <2>6. \A i \in 1..Len(q) - 1 : q[i + 1] = After(q[i])
        <3> SUFFICES ASSUME NEW i \in 1..Len(q) - 1 PROVE q[i + 1] = After(q[i])
            OBVIOUS
        <3>1. CASE i < Len(stream)
            <4>1. i \in 1..Len(stream) - 1 /\ i \in 1..Len(stream) /\ i + 1 \in 1..Len(stream)
                BY <1>4, <2>2, <3>1
            <4> QED
                BY <2>2, <2>3, <4>1
        <3>2. CASE i = Len(stream)
            <4>1. i \in 1..Len(stream) /\ 1 \in 1..n /\ stream # <<>>
                BY <1>4, <1>5, <2>2, <3>2
            <4>2. q[i] = stream[Len(stream)] /\ q[i + 1] = Unit(k, part, d + 1)
                BY <2>2, <3>2, <4>1
            <4> QED
                BY <2>3, <4>1, <4>2
        <3>3. CASE i > Len(stream)
            <4>1. PICK j : j = i - Len(stream)
                OBVIOUS
            <4>2. /\ j \in 1..n /\ j + 1 \in 1..n /\ Len(stream) + j = i /\ d + j \in Nat
                  /\ Len(stream) + (j + 1) = i + 1 /\ d + j < len /\ d + (j + 1) = (d + j) + 1
                BY <1>2, <1>4, <1>5, <2>2, <3>3, <4>1
            <4>3. q[i] = Unit(k, part, d + j) /\ q[i + 1] = Unit(k, part, (d + j) + 1)
                BY <2>2, <4>2
            <4> QED
                BY <1>1, <4>2, <4>3 DEF After, Unit
        <3> QED
            BY <1>4, <2>2, <3>1, <3>2, <3>3
    <2>7. q[1] = Awaited
        <3>1. CASE stream = <<>>
            <4>1. Len(stream) = 0 /\ 1 \in 1..n /\ 0 + 1 = 1
                BY <1>5, <3>1
            <4>2. q[1] = Unit(k, part, d + 1)
                BY <2>2, <4>1
            <4> QED
                BY <2>3, <3>1, <4>2
        <3>2. CASE stream # <<>>
            <4>1. 1 \in 1..Len(stream)
                BY <1>4, <3>2
            <4> QED
                BY <2>2, <2>3, <3>2, <4>1
        <3> QED
            BY <3>1, <3>2
    <2>8. q[Len(q)] = Unit(k, part, d + n)
        <3>1. n \in 1..n
            BY <1>5
        <3> QED
            BY <2>2, <3>1
    <2>9. /\ \A i \in 1..Len(q) : IsUnit(q[i])'
          /\ \A i \in 1..Len(q) - 1 : q[i + 1] = After(q[i])'
          /\ q[1] = Awaited'
          /\ Coming(w)' = After(q[Len(q)])'
        BY <1>9, <1>10, <2>5, <2>6, <2>7, <2>8
    <2>10. stream' = q
        BY <2>1
    <2> QED
        BY <2>2, <2>9, <2>10 DEF InOrder, Successive
<1>12. UNCHANGED Channel!vars
    BY <1>1 DEF Channel!vars
<1> QED
    BY <1>8, <1>10, <1>11, <1>12 DEF IInv


\* The receiver has closed, or the sender closes: nothing more is asked of the
\* order.
LEMMA EndStep ==
    ASSUME NEW w, Writers = {w}, IInv(w), WriteFails(w) \/ Close
    PROVE  IInv(w)' /\ [Channel!Next]_Channel!vars
<1>1. /\ UNCHANGED <<sent, cur, done, stream, rpc, got, head, received>>
      /\ \/ /\ rpc = "stopped" /\ pc' = [pc EXCEPT ![w] = "idle"] /\ closed' = closed
            /\ pc[w] \in Parts
         \/ pc' = [x \in Writers |-> "ended"] /\ closed' = TRUE
    BY DEF WriteFails, Close, readVars, Parts
<1>2. TypeInv' /\ ReaderInv'
    BY <1>1 DEF IInv, TypeInv, ReaderInv, PartLen
<1>3. WriterInv(w)'
    BY <1>1 DEF IInv, TypeInv, WriterInv, Parts
<1>4. InOrder(w)'
    <2>1. CASE rpc = "stopped"
        BY <1>1, <2>1 DEF InOrder
    <2>2. CASE closed'
        <3>1. /\ \A v : After(v)' = After(v)
              /\ \A v : IsUnit(v)' <=> IsUnit(v)
              /\ Awaited' = Awaited
            BY <1>1 DEF After, IsUnit, PartLen, Awaited
        <3>2. PICK q : q = stream
            OBVIOUS
        <3>3. /\ rpc # "stopped" => /\ \A i \in 1..Len(q) : IsUnit(q[i])
                                    /\ \A i \in 1..Len(q) - 1 : q[i + 1] = After(q[i])
                                    /\ q # <<>> => q[1] = Awaited
            BY <3>2 DEF IInv, InOrder, Successive
        <3>4. stream' = q /\ rpc' = rpc
            BY <1>1, <3>2
        <3> QED
            BY <2>2, <3>1, <3>3, <3>4 DEF InOrder, Successive
    <2> QED
        BY <1>1, <2>1, <2>2
<1>5. UNCHANGED Channel!vars
    BY <1>1 DEF Channel!vars
<1> QED
    BY <1>2, <1>3, <1>4, <1>5 DEF IInv

-----------------------------------------------------------------------------

\* A fresh connection.
LEMMA InitIInv == ASSUME NEW w, Writers = {w}, Init PROVE IInv(w) /\ Channel!Init
<1>1. TypeInv
    <2>1. /\ sent = <<>> /\ received = <<>> /\ stream = <<>> /\ got = <<>>
          /\ rpc = "header" /\ closed = FALSE
        BY DEF Init
    <2>2. closed \in BOOLEAN
        BY <2>1
    <2>3. /\ sent \in Seq(Message) /\ received \in Seq(Message)
          /\ stream \in Seq(UnitType) /\ got \in Seq(UnitType)
        BY <2>1
    <2> QED
        BY <2>1, <2>2, <2>3 DEF TypeInv, Parts
<1>2. WriterInv(w)
    <2>1. pc[w] = "idle" /\ closed = FALSE
        BY DEF Init
    <2>2. /\ pc \in [Writers -> Parts \union {"idle", "ended"}]
          /\ cur \in [Writers -> Nat] /\ done \in [Writers -> Nat]
        BY DEF Init
    <2> QED
        BY <2>1, <2>2 DEF WriterInv, Parts
<1>3. ReaderInv
    BY Positive DEF Init, ReaderInv, Units, PartLen
<1>4. InOrder(w)
    BY DEF Init, InOrder, Successive, Coming, Awaited
<1>5. Channel!Init
    BY DEF Init, Channel!Init
<1> QED
    BY <1>1, <1>2, <1>3, <1>4, <1>5 DEF IInv

\* Every step keeps IInv, and is a step of the channel or leaves it alone.
LEMMA StepIInv ==
    ASSUME NEW w, Writers = {w}, IInv(w), [Next]_vars
    PROVE  IInv(w)' /\ [Channel!Next]_Channel!vars
<1>1. CASE UNCHANGED vars
    <2>1. UNCHANGED <<sent, pc, cur, done, closed, stream, rpc, got, head, received>>
        BY <1>1 DEF vars, writeVars, readVars
    <2>2. TypeInv' /\ WriterInv(w)' /\ ReaderInv' /\ InOrder(w)'
        BY <2>1 DEF IInv, TypeInv, WriterInv, ReaderInv, InOrder, Successive, Coming, Awaited,
                    IsUnit, After, PartLen
    <2>3. UNCHANGED Channel!vars
        BY <2>1 DEF Channel!vars
    <2> QED
        BY <2>2, <2>3 DEF IInv
<1>2. CASE \E x \in Writers : SendStart(x) \/ WriteStep(x)
    <2>1. SendStart(w) \/ Write(w) \/ WriteFails(w)
        BY <1>2 DEF WriteStep
    <2> QED
        BY <2>1, StartStep, WriteInOrder, EndStep
<1>3. CASE RecvStep
    BY <1>3, ReceiverStep
<1>4. CASE Close
    BY <1>4, EndStep
<1> QED
    BY <1>1, <1>2, <1>3, <1>4 DEF Next

\* With one writer send_message and recv_message make a channel of whole messages:
\* whatever write and recv split or the sizes are, and wherever the sender's
\* process ends, the receiver gets the messages that were sent, whole, once and in
\* order, until it gives up (protocol.c:43-204).
THEOREM WireIsChannel == ASSUME NEW w, Writers = {w} PROVE Spec => Channel!Spec
<1>1. Init => IInv(w) /\ Channel!Init
    BY InitIInv
<1>2. IInv(w) /\ [Next]_vars => IInv(w)' /\ [Channel!Next]_Channel!vars
    BY StepIInv
<1> QED
    BY <1>1, <1>2, PTL DEF Spec, Channel!Spec

=============================================================================
