------------------------ MODULE MessageCallbackProofs ------------------------
(***************************************************************************)
(* Proofs about MessageCallback, for every set of messages, length of the  *)
(* buffer, size of the fragments and length of the queues.  What they rest *)
(* on is FragmentLemma: the buffer is a function of how much of the        *)
(* message has arrived, however it was cut, and whatever was there before. *)
(* That answers to itself do not multiply is counted over the steps they   *)
(* take: from the queue to the broker, back to us and to the next answer.  *)
(***************************************************************************)
EXTENDS MessageCallback, TLAPS, SequenceTheorems, FiniteSetTheorems

\* How many of n bytes the buffer holds.
Held(n) == IF n < PayloadMax THEN n ELSE PayloadMax - 1

Prefix(n) == [i \in 1 .. n |-> <<parity, i>>]

\* The buffer after n bytes of a message.
Holds(b, message, n) == /\ b.topic = message.topic
                        /\ b.topicOverflow = message.longTopic
                        /\ b.payload = Prefix(Held(n))
                        /\ b.payloadOverflow <=> n >= PayloadMax

Bytes == {0, 1} \X Nat

\* Where results go, and what arrives: messages of clients and results of ours.
Parts == {m.topic[1] : m \in Messages} \cup {m.topic[2] : m \in Messages} \cup {Aws, "ours"}
Answers == Parts \X Parts
Echoed == {topic \in Answers : IsOurPrefix(topic)}
Received == Messages \cup {Echo(topic, n) : topic \in Echoed, n \in Nat}

Buffers == [topic : {m.topic : m \in Received} \cup {<< >>}, topicOverflow : BOOLEAN,
            payload : Seq(Bytes), payloadOverflow : BOOLEAN]

Commands == {m \in Received : Parse(m.topic, m.payload) = "valid"}

StreamInv == /\ parity \in {0, 1}
             /\ incoming \in Received \cup {NoMessage}
             /\ got \in Nat /\ (got > 0 => got < incoming.size)

BufferInv == /\ buffer \in Buffers
             /\ Len(buffer.payload) < PayloadMax
             /\ got > 0 => Holds(buffer, incoming, got)

Accepted == {ParsedJob(m.topic, m.payload) : m \in Commands}

QueuesInv == jobs \in Seq(Accepted) /\ results \in Seq(Answers)

BrokerInv == echoes \in Seq(Echoed) /\ selfSigned \in Nat

Inv == /\ StreamInv /\ BufferInv /\ QueuesInv /\ BrokerInv
       /\ MeansTheMessage /\ EchoesDoNotMultiply

-----------------------------------------------------------------------------
(* The operators *)

\* What arrives is below our identifier, a result of ours like a client's message.
LEMMA ReceivedLemma ==
    ASSUME NEW m \in Received
    PROVE  /\ m.topic # << >> /\ IsOurPrefix(m.topic)
           /\ m.longTopic \in BOOLEAN /\ m.size \in Nat
           /\ m.topic[1] \in Parts /\ m.topic[2] \in Parts
<1>1. CASE m \in Messages
  BY <1>1, MessagesAssumption DEF Parts
<1>2. ASSUME NEW topic \in Echoed, NEW n \in Nat, m = Echo(topic, n)
      PROVE  /\ m.topic = topic /\ m.longTopic = FALSE /\ m.size = n
             /\ topic # << >> /\ IsOurPrefix(topic)
             /\ topic[1] \in Parts /\ topic[2] \in Parts
  BY <1>2 DEF Echo, Echoed, Answers
<1>3. CASE m \in {Echo(topic, n) : topic \in Echoed, n \in Nat}
  <2>1. PICK topic \in Echoed, n \in Nat : m = Echo(topic, n)
    BY <1>3
  <2>2. m.topic = topic /\ m.longTopic = FALSE /\ m.size = n
    BY <1>2, <2>1
  <2>3. topic # << >> /\ IsOurPrefix(topic) /\ topic[1] \in Parts /\ topic[2] \in Parts
    BY <1>2, <2>1
  <2> QED
    BY <2>2, <2>3
<1> QED
  BY <1>1, <1>3 DEF Received

\* A message from anybody else is answered to somebody else.
LEMMA ResultLemma ==
    ASSUME NEW m \in Received
    PROVE  /\ ResultTopic(m.topic) \in Answers
           /\ IsOurPrefix(ResultTopic(m.topic)) => SelfSigned(m.topic)
<1>1. m.topic[1] \in Parts /\ m.topic[2] \in Parts
  BY ReceivedLemma
<1>2. Aws \in Parts /\ "ours" \in Parts /\ Aws \notin Ours
  BY DEF Parts, Aws, Ours, Devices
<1>3. CASE Splits(m.topic)
  BY <1>1, <1>3 DEF ResultTopic, Answers, IsOurPrefix, SelfSigned
<1>4. CASE ~Splits(m.topic)
  BY <1>2, <1>4 DEF ResultTopic, Answers, IsOurPrefix
<1> QED
  BY <1>3, <1>4

\* No message is being received: nothing of it is left, and no sender.
LEMMA NoMessageLemma == /\ NoMessage \notin Received /\ NoMessage.size = 0
                        /\ ~SelfSigned(NoMessage.topic)
BY ReceivedLemma DEF NoMessage, SelfSigned, Splits

\* Taking the first item of a queue leaves a queue of the same items.
LEMMA TailLemma ==
    ASSUME NEW S, NEW s \in Seq(S), s # << >>
    PROVE  Tail(s) \in Seq(S)
BY HeadTailProperties

LEMMA JoinLemma ==
    ASSUME NEW p \in {0, 1}, NEW h \in Nat, NEW k \in Nat
    PROVE  [i \in 1 .. h |-> <<p, i>>] \o [i \in 1 .. k |-> <<p, h + i>>]
             = [i \in 1 .. h + k |-> <<p, i>>]
<1> DEFINE s == [i \in 1 .. h |-> <<p, i>>]
           t == [i \in 1 .. k |-> <<p, h + i>>]
<1>1. s \in Seq(Bytes) /\ t \in Seq(Bytes) /\ Len(s) = h /\ Len(t) = k
  BY DEF Bytes
<1>2. \A i \in 1 .. h : s[i] = <<p, i>>
  OBVIOUS
<1>3. \A i \in 1 .. k : t[i] = <<p, h + i>>
  OBVIOUS
<1> HIDE DEF s, t
<1>4. /\ s \o t \in Seq(Bytes) /\ Len(s \o t) = h + k
      /\ \A i \in 1 .. h + k : (s \o t)[i] = IF i <= h THEN s[i] ELSE t[i - h]
  BY <1>1
<1>5. ASSUME NEW i \in 1 .. h + k
      PROVE  (s \o t)[i] = <<p, i>>
  <2>1. i <= h => i \in 1 .. h
    OBVIOUS
  <2>2. ~(i <= h) => i - h \in 1 .. k /\ h + (i - h) = i
    OBVIOUS
  <2> QED
    BY <1>2, <1>3, <1>4, <2>1, <2>2
<1>6. s \o t = [i \in 1 .. h + k |-> <<p, i>>]
  <2> DEFINE u == [i \in 1 .. h + k |-> <<p, i>>]
  <2>1. u \in Seq(Bytes) /\ Len(u) = h + k /\ \A i \in 1 .. h + k : u[i] = <<p, i>>
    BY DEF Bytes
  <2> HIDE DEF u
  <2>2. s \o t = u
    BY <1>4, <1>5, <2>1, SeqEqual
  <2> QED
    BY <2>2 DEF u
<1> QED
  BY <1>6 DEF s, t

\* Bytes first + 1 .. first + n of a message after the first ones.
LEMMA FragmentLemma ==
    ASSUME NEW b \in Buffers, NEW message, NEW g \in Nat, NEW n \in Nat,
           got = g, parity \in {0, 1}, Holds(b, message, g)
    PROVE  /\ Appended(b, Fragment(n)) \in Buffers
           /\ Holds(Appended(b, Fragment(n)), message, g + n)
           /\ Len(Appended(b, Fragment(n)).payload) = Held(g + n)
<1> DEFINE available == PayloadMax - 1 - Len(b.payload)
           taken == IF Len(Fragment(n)) > available THEN available ELSE Len(Fragment(n))
           piece == SubSeq(Fragment(n), 1, taken)
<1>1. PayloadMax \in Nat \ {0}
  BY CallbackAssumption
<1>2. Held(g) \in Nat /\ Held(g + n) \in Nat
  BY <1>1 DEF Held
<1>3. b.payload = Prefix(Held(g)) /\ Len(b.payload) = Held(g)
  BY <1>2 DEF Holds, Prefix
<1>4. Fragment(n) \in Seq(Bytes) /\ Len(Fragment(n)) = n
  BY DEF Fragment, Bytes
<1>5. available \in Nat /\ available = PayloadMax - 1 - Held(g)
  BY <1>1, <1>3 DEF Held
<1>6. taken = IF n > available THEN available ELSE n
  BY <1>4
<1> HIDE DEF available
<1>7. piece = [i \in 1 .. taken |-> <<parity, g + i>>]
  BY <1>4, <1>5, <1>6 DEF Fragment
<1> HIDE DEF taken
<1>8. /\ taken \in 0 .. n /\ Held(g) + taken = Held(g + n)
      /\ taken > 0 => Held(g) = g
  BY <1>1, <1>5, <1>6 DEF Held
<1>9. b.payload \o piece = Prefix(Held(g + n))
  <2>1. b.payload = [i \in 1 .. Held(g) |-> <<parity, i>>]
    BY <1>3 DEF Prefix
  <2>2. piece = [i \in 1 .. taken |-> <<parity, Held(g) + i>>]
    BY <1>7, <1>8
  <2> HIDE DEF piece
  <2>3. taken \in Nat
    BY <1>8
  <2>4. [i \in 1 .. Held(g) |-> <<parity, i>>] \o [i \in 1 .. taken |-> <<parity, Held(g) + i>>]
          = [i \in 1 .. Held(g) + taken |-> <<parity, i>>]
    BY <1>2, <2>3, JoinLemma
  <2> QED
    BY <1>8, <2>1, <2>2, <2>4 DEF Prefix
<1> DEFINE a == Appended(b, Fragment(n))
           over == b.payloadOverflow \/ n > available
<1>10. over <=> g + n >= PayloadMax
  <2>1. b.payloadOverflow <=> g >= PayloadMax
    BY DEF Holds, Buffers
  <2> QED
    BY <1>1, <1>5, <2>1 DEF Held
<1>11. over \in BOOLEAN
  BY DEF Buffers
<1>12. a = [b EXCEPT !.payload = b.payload \o piece, !.payloadOverflow = over]
  BY <1>4 DEF Appended, available, taken
<1>13. Prefix(Held(g + n)) \in Seq(Bytes) /\ Len(Prefix(Held(g + n))) = Held(g + n)
  BY <1>2 DEF Prefix, Bytes
<1> HIDE DEF a, over, piece
<1>14. /\ a \in Buffers /\ a.topic = b.topic /\ a.topicOverflow = b.topicOverflow
       /\ a.payload = Prefix(Held(g + n)) /\ a.payloadOverflow = over
  BY <1>11, <1>12, <1>13, <1>9 DEF Buffers
<1>15. a.payloadOverflow <=> g + n >= PayloadMax
  BY <1>10, <1>11, <1>14
<1> QED
  BY <1>13, <1>14, <1>15 DEF Holds, a

\* The verdict on a whole message is that of the definition: a payload that
\* was cut is never parsed, and one that was not is the message's.
LEMMA OutcomeLemma ==
    ASSUME incoming \in Received, NEW b, Holds(b, incoming, incoming.size)
    PROVE  Outcome(b) =
             IF incoming.longTopic THEN "silent"
             ELSE IF ~(incoming.size < PayloadMax
                       /\ Parse(incoming.topic, incoming.payload) = "valid") THEN "error"
             ELSE IF Len(jobs) < DeviceLength THEN "job" ELSE "busy"
<1> DEFINE verdict == Parse(incoming.topic, incoming.payload)
<1>1. /\ IsOurPrefix(incoming.topic) /\ incoming.longTopic \in BOOLEAN
      /\ incoming.size \in Nat /\ PayloadMax \in Nat \ {0}
  BY ReceivedLemma, CallbackAssumption
<1>2. verdict \in {"valid", "invalid"}
  BY <1>1 DEF Parse
<1>3. b.topic = incoming.topic /\ b.topicOverflow = incoming.longTopic
  BY DEF Holds
<1>4. b.payloadOverflow <=> ~(incoming.size < PayloadMax)
  BY <1>1 DEF Holds
<1>5. incoming.size < PayloadMax => Payload(b) = incoming.payload
  BY <1>1 DEF Holds, Held, Prefix, Payload
<1> HIDE DEF verdict
<1>6. CASE incoming.longTopic
  BY <1>3, <1>6 DEF Outcome
<1>7. CASE ~incoming.longTopic /\ ~(incoming.size < PayloadMax)
  BY <1>1, <1>3, <1>4, <1>7 DEF Outcome
<1>8. CASE ~incoming.longTopic /\ incoming.size < PayloadMax
  <2>1. Outcome(b) = CASE verdict = "not_for_us" -> "silent"
                       [] verdict = "invalid" -> "error"
                       [] OTHER -> IF Len(jobs) < DeviceLength THEN "job" ELSE "busy"
    BY <1>3, <1>4, <1>5, <1>8 DEF Outcome, verdict
  <2> QED
    BY <1>2, <1>8, <2>1 DEF verdict
<1> QED
  BY <1>1, <1>6, <1>7, <1>8

\* A command the parser accepts is one the devices accept.
LEMMA AcceptedLemma ==
    ASSUME NEW topic, NEW m, Parse(topic, m) = "valid"
    PROVE  Usable(ParsedJob(topic, m))
<1> SUFFICES ASSUME NEW job, job = ParsedJob(topic, m)
             PROVE  Usable(job)
  OBVIOUS
<1>1. /\ topic[1] \in Devices /\ Accepts(topic[1], m)
  BY DEF Parse
<1>2. AirconAccepts(m) \/ LightAccepts(m) \/ SwitchAccepts(m)
  BY <1>1 DEF Accepts, Devices
<1>3. job.command = m.key
  BY DEF ParsedJob
<1>4. m.kind = "string" => job.value = m.value
  BY DEF ParsedJob
<1>5. ASSUME m.kind = "number", m.key # "bright", m.key # "colortmp"
      PROVE  job.value = Truncated(m.value)
  BY <1>5 DEF ParsedJob
<1>6. CASE m.key = "settemp" /\ Whole(m, 16, 30)
  <2>1. job.value \in 16 .. 30
    BY <1>5, <1>6 DEF Whole
  <2>2. UInt8(job.value) = job.value
    BY <2>1 DEF UInt8
  <2> QED
    BY <1>3, <1>6, <2>1, <2>2 DEF Usable
<1>7. CASE m.key \in {"offtimer", "ontimer"} /\ Whole(m, 0, 720)
  <2>1. job.value \in 0 .. 720
    BY <1>5, <1>7 DEF Whole
  <2>2. UInt16(job.value) = job.value
    BY <2>1 DEF UInt16
  <2> QED
    BY <1>3, <1>7, <2>1, <2>2 DEF Usable
<1>8. CASE m.key \in {"alert+", "alert-"} /\ Whole(m, -55, 125)
  <2>1. job.value \in -55 .. 125
    BY <1>5, <1>8 DEF Whole
  <2>2. Int8(job.value) = job.value
    BY <2>1 DEF Int8
  <2> QED
    BY <1>3, <1>8, <2>2 DEF Usable
<1>9. CASE m.key = "timer" /\ Whole(m, 1, 720)
  <2>1. job.value \in 1 .. 720
    BY <1>5, <1>9 DEF Whole
  <2>2. UInt16(job.value) = job.value
    BY <2>1 DEF UInt16
  <2>3. job.value <= 255 => UInt8(job.value) = job.value
    BY <2>1 DEF UInt8
  <2> QED
    BY <1>3, <1>9, <2>1, <2>2, <2>3 DEF Usable
<1>10. CASE m.key \in {"bright", "colortmp"} /\ m.kind = "number" /\ m.value \in 0 .. 2
  <2>1. job.value \in 0 .. 2
    BY <1>10 DEF ParsedJob
  <2> QED
    BY <1>3, <1>10, <2>1 DEF Usable
<1>11. CASE m.key \in {"power", "enable"} /\ Text(m, {"on", "off", "true", "false"})
  BY <1>3, <1>4, <1>11 DEF Usable, Text
<1>12. CASE \/ m.key = "mode" /\ Text(m, Modes)
            \/ m.key = "fan" /\ Text(m, Fans)
            \/ m.key = "swing" /\ Text(m, Swings)
  BY <1>3, <1>4, <1>12 DEF Usable, Text
<1>13. CASE m.key \in {"get", "night", "cmd"}
  BY <1>3, <1>13 DEF Usable
<1>14. AirconAccepts(m) => Usable(job)
  BY <1>6, <1>7, <1>8, <1>11, <1>12, <1>13 DEF AirconAccepts, Text
<1>15. LightAccepts(m) => Usable(job)
  BY <1>9, <1>10, <1>11, <1>13 DEF LightAccepts, Text
<1>16. SwitchAccepts(m) => Usable(job)
  BY <1>11 DEF SwitchAccepts, Text
<1> QED
  BY <1>2, <1>14, <1>15, <1>16

\* The places of a queue of results that hold an answer to ourselves.
OfOurs(s) == {i \in 1 .. Len(s) : IsOurPrefix(s[i])}

\* What one message or result adds to their number.
One(answer) == IF answer THEN 1 ELSE 0

\* They can be counted.
LEMMA OfOursLemma ==
    ASSUME NEW s \in Seq(Answers)
    PROVE  IsFiniteSet(OfOurs(s)) /\ Cardinality(OfOurs(s)) \in Nat
<1>1. IsFiniteSet(1 .. Len(s))
  BY FS_Interval
<1>2. OfOurs(s) \in SUBSET (1 .. Len(s))
  BY DEF OfOurs
<1> QED
  BY <1>1, <1>2, FS_Subset, FS_CardinalityType

\* A result in the queue: one answer to ourselves more, if it is one.
LEMMA AppendOfOurs ==
    ASSUME NEW s \in Seq(Answers), NEW topic \in Answers
    PROVE  Cardinality(OfOurs(Append(s, topic)))
             = Cardinality(OfOurs(s)) + One(IsOurPrefix(topic))
<1> DEFINE t == Append(s, topic)
<1>1. /\ Len(t) = Len(s) + 1 /\ t[Len(s) + 1] = topic
      /\ \A i \in 1 .. Len(s) : t[i] = s[i]
  BY AppendProperties
<1> HIDE DEF t
<1>2. Len(s) \in Nat /\ Len(s) + 1 \notin OfOurs(s)
  BY DEF OfOurs
<1>3. OfOurs(t) = IF IsOurPrefix(topic) THEN OfOurs(s) \cup {Len(s) + 1} ELSE OfOurs(s)
  <2>1. 1 .. Len(t) = (1 .. Len(s)) \cup {Len(s) + 1}
    BY <1>1, <1>2
  <2> QED
    BY <1>1, <1>2, <2>1 DEF OfOurs
<1>4. IsFiniteSet(OfOurs(s)) /\ Cardinality(OfOurs(s)) \in Nat
  BY OfOursLemma
<1>5. Cardinality(OfOurs(s) \cup {Len(s) + 1}) = Cardinality(OfOurs(s)) + 1
  BY <1>2, <1>4, FS_AddElement
<1> QED
  BY <1>3, <1>4, <1>5 DEF One, t

\* A result out of the queue: one less, if it is one.
LEMMA TailOfOurs ==
    ASSUME NEW s \in Seq(Answers), s # << >>
    PROVE  Cardinality(OfOurs(s))
             = Cardinality(OfOurs(Tail(s))) + One(IsOurPrefix(Head(s)))
<1> DEFINE t == Tail(s)
           shift == [i \in OfOurs(t) |-> i + 1]
<1>1. /\ t \in Seq(Answers) /\ Len(t) = Len(s) - 1
      /\ \A i \in 1 .. Len(t) : t[i] = s[i + 1]
      /\ Len(s) \in Nat /\ Len(s) > 0 /\ Head(s) = s[1]
  BY HeadTailProperties
<1> HIDE DEF t
<1>2. IsFiniteSet(OfOurs(t)) /\ Cardinality(OfOurs(t)) \in Nat /\ IsFiniteSet(OfOurs(s))
  BY <1>1, OfOursLemma
<1>3. \A i \in OfOurs(t) : i + 1 \in OfOurs(s) \ {1}
  BY <1>1 DEF OfOurs
<1>4. \A j \in OfOurs(s) \ {1} : j - 1 \in OfOurs(t) /\ (j - 1) + 1 = j
  BY <1>1 DEF OfOurs
<1>5. OfOurs(t) \subseteq Nat
  BY DEF OfOurs
<1>6. shift \in Bijection(OfOurs(t), OfOurs(s) \ {1})
  <2>1. shift \in [OfOurs(t) -> OfOurs(s) \ {1}]
    BY <1>3
  <2>2. \A a, b \in OfOurs(t) : shift[a] = shift[b] => a = b
    BY <1>5
  <2>3. \A j \in OfOurs(s) \ {1} : \E i \in OfOurs(t) : shift[i] = j
    BY <1>4
  <2> HIDE DEF shift
  <2> QED
    BY <2>1, <2>2, <2>3 DEF Bijection, Injection, Surjection, IsInjective
<1>7. Cardinality(OfOurs(s) \ {1}) = Cardinality(OfOurs(t))
  BY <1>2, <1>6, FS_Bijection DEF ExistsBijection
<1>8. /\ IsFiniteSet(OfOurs(s) \ {1}) /\ 1 \notin OfOurs(s) \ {1}
      /\ OfOurs(s) = IF IsOurPrefix(Head(s)) THEN (OfOurs(s) \ {1}) \cup {1}
                     ELSE OfOurs(s) \ {1}
  <2>1. IsFiniteSet(OfOurs(s) \ {1})
    BY <1>2, FS_RemoveElement
  <2>2. 1 \in OfOurs(s) <=> IsOurPrefix(Head(s))
    BY <1>1 DEF OfOurs
  <2> QED
    BY <2>1, <2>2
<1>9. Cardinality((OfOurs(s) \ {1}) \cup {1}) = Cardinality(OfOurs(s) \ {1}) + 1
  BY <1>8, FS_AddElement
<1>10. CASE IsOurPrefix(Head(s))
  <2>1. OfOurs(s) = (OfOurs(s) \ {1}) \cup {1}
    BY <1>8, <1>10
  <2>2. Cardinality(OfOurs(s)) = Cardinality(OfOurs(s) \ {1}) + 1
    BY <1>9, <2>1
  <2> QED
    BY <1>7, <1>10, <2>2 DEF One, t
<1>11. CASE ~IsOurPrefix(Head(s))
  <2>1. OfOurs(s) = OfOurs(s) \ {1}
    BY <1>8, <1>11
  <2>2. Cardinality(OfOurs(s)) = Cardinality(OfOurs(t))
    BY <1>7, <2>1
  <2> QED
    BY <1>2, <1>11, <2>2 DEF One, t
<1> QED
  BY <1>10, <1>11

-----------------------------------------------------------------------------
(* The inductive invariant *)

LEMMA InitInv == Init => Inv
<1> SUFFICES ASSUME Init PROVE Inv
  OBVIOUS
<1> USE CallbackAssumption DEF Init
<1>1. StreamInv
  BY DEF StreamInv
<1>2. BufferInv
  BY DEF BufferInv, Buffers
<1>3. QueuesInv
  BY DEF QueuesInv
<1>4. BrokerInv
  BY DEF BrokerInv
<1>5. MeansTheMessage
  BY DEF MeansTheMessage, Nothing
<1>6. EchoesDoNotMultiply
  <2>1. ToItself = {} /\ Len(echoes) = 0 /\ ~SelfSigned(incoming.topic)
    BY NoMessageLemma DEF ToItself
  <2> QED
    BY <2>1, FS_EmptySet DEF EchoesDoNotMultiply, GoingRound
<1> QED
  BY <1>1, <1>2, <1>3, <1>4, <1>5, <1>6 DEF Inv

\* What a callback leaves; the answers to ourselves are counted below.
LEMMA CallbackInv ==
    ASSUME Inv, NEW n \in 0 .. MaxFragment, Callback(n)
    PROVE  /\ StreamInv' /\ BufferInv' /\ QueuesInv' /\ BrokerInv' /\ MeansTheMessage'
           /\ \/ incoming' = incoming /\ results' = results
              \/ incoming' = NoMessage
                   /\ results' \in {results, Append(results, ResultTopic(incoming.topic))}
<1> DEFINE base == IF got = 0 THEN Started(incoming) ELSE buffer
           b == Appended(base, Fragment(n))
           done == got + n = incoming.size
<1>1. /\ incoming \in Received /\ got \in Nat /\ n \in Nat /\ parity \in {0, 1}
      /\ incoming.size \in Nat /\ incoming.longTopic \in BOOLEAN
      /\ PayloadMax \in Nat \ {0} /\ parity' = parity
  <2>1. incoming \in Received
    BY DEF Inv, StreamInv, Callback
  <2> QED
    BY <2>1, ReceivedLemma, CallbackAssumption DEF Inv, StreamInv, Callback
<1>2. base \in Buffers /\ Holds(base, incoming, got)
  <2>1. CASE got = 0
    <3>1. Held(0) = 0 /\ Prefix(0) = << >>
      BY <1>1 DEF Held, Prefix
    <3> QED
      BY <1>1, <2>1, <3>1 DEF Started, Buffers, Holds
  <2>2. CASE got > 0
    BY <1>1, <2>2 DEF Inv, BufferInv
  <2> QED
    BY <1>1, <2>1, <2>2
<1> HIDE DEF base
<1>3. b \in Buffers /\ Holds(b, incoming, got + n) /\ Len(b.payload) = Held(got + n)
  BY <1>1, <1>2, FragmentLemma
<1>4. /\ buffer' = b /\ got + n <= incoming.size
      /\ done => Complete(b) /\ incoming' = NoMessage /\ got' = 0
      /\ ~done => /\ UNCHANGED <<jobs, results, last>>
                  /\ incoming' = incoming /\ got' = got + n
  BY DEF Callback, base
<1> HIDE DEF b
<1>5. StreamInv'
  BY <1>1, <1>4 DEF StreamInv
<1>6. BufferInv'
  <2>1. Len(b.payload) < PayloadMax
    BY <1>1, <1>3 DEF Held
  <2>2. CASE done
    BY <1>3, <1>4, <2>1, <2>2 DEF BufferInv
  <2>3. CASE ~done
    <3>1. /\ b.topic = incoming.topic /\ b.topicOverflow = incoming.longTopic
          /\ b.payload = [i \in 1 .. Held(got + n) |-> <<parity, i>>]
          /\ b.payloadOverflow <=> got + n >= PayloadMax
      BY <1>3 DEF Holds, Prefix
    <3>2. (got > 0 => Holds(buffer, incoming, got))'
      BY <1>1, <1>4, <2>3, <3>1 DEF Holds, Prefix, Held
    <3> QED
      BY <1>3, <1>4, <2>1, <3>2 DEF BufferInv
  <2> QED
    BY <2>2, <2>3
<1>7. BrokerInv'
  BY DEF Callback, broker, Inv, BrokerInv
<1>8. CASE ~done
  BY <1>4, <1>5, <1>6, <1>7, <1>8 DEF Inv, QueuesInv, MeansTheMessage
<1>9. CASE done
  <2>1. Holds(b, incoming, incoming.size)
    BY <1>3, <1>9
  <2>2. Outcome(b) = IF incoming.longTopic THEN "silent"
                     ELSE IF ~(incoming.size < PayloadMax
                               /\ Parse(incoming.topic, incoming.payload) = "valid") THEN "error"
                     ELSE IF Len(jobs) < DeviceLength THEN "job" ELSE "busy"
    BY <1>1, <2>1, OutcomeLemma
  <2>3. Complete(b) /\ b.topic = incoming.topic
    BY <1>4, <1>9, <2>1 DEF Holds
  <2>4. MeansTheMessage'
    BY <1>1, <2>2, <2>3 DEF Complete, MeansTheMessage
  <2>5. jobs' \in Seq(Accepted)
    <3>1. Outcome(b) = "job" => ParsedJob(incoming.topic, incoming.payload) \in Accepted
      BY <1>1, <2>2 DEF Commands, Accepted
    <3> QED
      BY <2>3, <3>1 DEF Complete, Inv, QueuesInv
  <2>6. results' \in {results, Append(results, ResultTopic(incoming.topic))}
    BY <2>3 DEF Complete, Reply
  <2>7. results' \in Seq(Answers)
    BY <1>1, <2>6, ResultLemma DEF Inv, QueuesInv
  <2> QED
    BY <1>4, <1>5, <1>6, <1>7, <1>9, <2>4, <2>5, <2>6, <2>7 DEF QueuesInv
<1> QED
  BY <1>8, <1>9

\* The answer to a whole message takes its place; no other message is answered to us.
LEMMA CallbackEchoes ==
    ASSUME Inv, NEW n \in 0 .. MaxFragment, Callback(n)
    PROVE  EchoesDoNotMultiply'
<1> DEFINE topic == ResultTopic(incoming.topic)
<1>1. /\ results \in Seq(Answers) /\ Cardinality(ToItself) \in Nat
      /\ Len(echoes) \in Nat /\ selfSigned \in Nat
      /\ GoingRound <= selfSigned /\ UNCHANGED <<echoes, selfSigned>>
  <2>1. results \in Seq(Answers) /\ OfOurs(results) = ToItself
    BY DEF Inv, QueuesInv, OfOurs, ToItself
  <2> QED
    BY <2>1, OfOursLemma DEF Inv, BrokerInv, EchoesDoNotMultiply, Callback, broker
<1>2. CASE incoming' = incoming /\ results' = results
  BY <1>1, <1>2 DEF EchoesDoNotMultiply, GoingRound, ToItself
<1>3. CASE /\ incoming' = NoMessage
           /\ results' \in {results, Append(results, topic)}
  <2>1. incoming \in Received
    BY DEF Callback, Inv, StreamInv
  <2>2. topic \in Answers /\ (IsOurPrefix(topic) => SelfSigned(incoming.topic))
    BY <2>1, ResultLemma
  <2>3. Cardinality(OfOurs(Append(results, topic)))
          = Cardinality(OfOurs(results)) + One(IsOurPrefix(topic))
    BY <1>1, <2>2, AppendOfOurs
  <2> HIDE DEF topic
  <2>4. OfOurs(results) = ToItself /\ OfOurs(results') = ToItself'
    BY DEF OfOurs, ToItself
  <2>5. /\ Cardinality(ToItself') \in Nat
        /\ Cardinality(ToItself') <= Cardinality(ToItself) + One(SelfSigned(incoming.topic))
    <3>1. CASE results' = results
      BY <1>1, <2>4, <3>1 DEF One
    <3>2. CASE results' = Append(results, topic)
      <4>1. Cardinality(ToItself') = Cardinality(ToItself) + One(IsOurPrefix(topic))
        BY <2>3, <2>4, <3>2
      <4> QED
        BY <1>1, <2>2, <4>1 DEF One
    <3> QED
      BY <1>3, <3>1, <3>2 DEF topic
  <2>6. ~SelfSigned(incoming'.topic)
    BY <1>3, NoMessageLemma
  <2> QED
    BY <1>1, <2>5, <2>6 DEF EchoesDoNotMultiply, GoingRound, One
<1> QED
  BY <1>2, <1>3, CallbackInv

LEMMA StepInv == Inv /\ [Next]_vars => Inv'
<1> SUFFICES ASSUME Inv, [Next]_vars PROVE Inv'
  OBVIOUS
<1>1. /\ StreamInv /\ BufferInv /\ QueuesInv /\ BrokerInv
      /\ MeansTheMessage /\ EchoesDoNotMultiply
      /\ Cardinality(ToItself) \in Nat /\ OfOurs(results) = ToItself
  <2>1. results \in Seq(Answers) /\ OfOurs(results) = ToItself
    BY DEF Inv, QueuesInv, OfOurs, ToItself
  <2> QED
    BY <2>1, OfOursLemma DEF Inv
<1>2. /\ Len(echoes) \in Nat /\ selfSigned \in Nat
      /\ Cardinality(ToItself) + Len(echoes) + One(SelfSigned(incoming.topic)) <= selfSigned
  BY <1>1 DEF BrokerInv, EchoesDoNotMultiply, GoingRound, One
<1>3. ASSUME NEW n \in 0 .. MaxFragment, Callback(n)
      PROVE  Inv'
  BY <1>3, CallbackInv, CallbackEchoes DEF Inv
<1>4. ASSUME NEW message \in Received, Deliver(message)
      PROVE  StreamInv' /\ BufferInv' /\ QueuesInv' /\ MeansTheMessage'
  <2>1. StreamInv'
    BY <1>1, <1>4 DEF Deliver, StreamInv
  <2>2. BufferInv'
    BY <1>1, <1>4 DEF Deliver, BufferInv
  <2>3. MeansTheMessage'
    BY <1>4 DEF Deliver, MeansTheMessage, Nothing
  <2> QED
    BY <1>1, <1>4, <2>1, <2>2, <2>3 DEF Deliver, QueuesInv
<1>5. ASSUME NEW message \in Messages, Arrive(message)
      PROVE  Inv'
  <2>1. StreamInv' /\ BufferInv' /\ QueuesInv' /\ MeansTheMessage'
    BY <1>4, <1>5 DEF Arrive, Received
  <2>2. BrokerInv'
    BY <1>1, <1>5 DEF Arrive, BrokerInv
  <2>3. EchoesDoNotMultiply'
    <3>1. ToItself' = ToItself /\ echoes' = echoes /\ incoming' = message
      BY <1>5 DEF Arrive, Deliver, ToItself
    <3>2. selfSigned' = selfSigned + One(SelfSigned(message.topic))
      BY <1>2, <1>5 DEF Arrive, One
    <3>3. ~SelfSigned(incoming.topic)
      BY <1>5, NoMessageLemma DEF Arrive, Deliver
    <3> QED
      BY <1>1, <1>2, <3>1, <3>2, <3>3 DEF EchoesDoNotMultiply, GoingRound, One
  <2> QED
    BY <2>1, <2>2, <2>3 DEF Inv
<1>6. ASSUME NEW n \in 1 .. PayloadMax - 1, EchoArrives(n)
      PROVE  Inv'
  <2>1. /\ echoes \in Seq(Echoed) /\ echoes # << >> /\ echoes' = Tail(echoes)
        /\ Deliver(Echo(Head(echoes), n)) /\ selfSigned' = selfSigned
    BY <1>1, <1>6 DEF EchoArrives, BrokerInv
  <2>2. Head(echoes) \in Echoed /\ Tail(echoes) \in Seq(Echoed)
        /\ Len(Tail(echoes)) = Len(echoes) - 1
    BY <2>1, HeadTailProperties
  <2>3. n \in Nat
    BY CallbackAssumption
  <2>4. Echo(Head(echoes), n) \in Received
    BY <2>2, <2>3 DEF Received
  <2>5. StreamInv' /\ BufferInv' /\ QueuesInv' /\ MeansTheMessage'
    BY <1>4, <2>1, <2>4
  <2>6. BrokerInv'
    BY <1>1, <2>1, <2>2 DEF BrokerInv
  <2>7. EchoesDoNotMultiply'
    <3>1. ToItself' = ToItself /\ incoming = NoMessage
      BY <2>1 DEF Deliver, ToItself
    <3> QED
      BY <1>1, <1>2, <2>1, <2>2, <3>1, NoMessageLemma
      DEF EchoesDoNotMultiply, GoingRound, One
  <2> QED
    BY <2>5, <2>6, <2>7 DEF Inv
<1>7. CASE SessionEnds
  <2>1. StreamInv' /\ BufferInv'
    BY <1>1, <1>7 DEF SessionEnds, StreamInv, BufferInv
  <2>2. QueuesInv' /\ BrokerInv' /\ MeansTheMessage'
    BY <1>1, <1>7 DEF SessionEnds, QueuesInv, BrokerInv, MeansTheMessage
  <2>3. EchoesDoNotMultiply'
    <3>1. ToItself' = {} /\ Len(echoes') = 0 /\ selfSigned' = 0
      BY <1>7 DEF SessionEnds, ToItself
    <3>2. ~SelfSigned(incoming'.topic)
      BY <1>7, NoMessageLemma DEF SessionEnds
    <3> QED
      BY <3>1, <3>2, FS_EmptySet DEF EchoesDoNotMultiply, GoingRound
  <2> QED
    BY <2>1, <2>2, <2>3 DEF Inv
<1>8. ASSUME UNCHANGED <<stream, buffer, last, selfSigned>>
      PROVE  StreamInv' /\ BufferInv' /\ MeansTheMessage'
  <2>1. UNCHANGED <<incoming, parity, got, buffer, last>>
    BY <1>8 DEF stream
  <2>2. StreamInv' /\ MeansTheMessage'
    BY <1>1, <2>1 DEF StreamInv, MeansTheMessage
  <2>3. (got > 0 => Holds(buffer, incoming, got))'
    BY <1>1, <2>1 DEF BufferInv, Holds, Prefix
  <2> QED
    BY <1>1, <2>1, <2>2, <2>3 DEF BufferInv
<1>9. CASE TakeJob
  <2>1. UNCHANGED <<stream, buffer, last, selfSigned, results, echoes, incoming>>
    BY <1>9 DEF TakeJob, broker, stream
  <2>2. QueuesInv' /\ BrokerInv'
    BY <1>1, <1>9, <2>1, TailLemma DEF TakeJob, QueuesInv, BrokerInv
  <2>3. EchoesDoNotMultiply'
    BY <1>1, <2>1 DEF EchoesDoNotMultiply, GoingRound, ToItself
  <2> QED
    BY <1>8, <2>1, <2>2, <2>3 DEF Inv
<1>10. CASE PublishResult
  <2>1. /\ UNCHANGED <<stream, buffer, last, selfSigned, jobs, incoming>>
        /\ results \in Seq(Answers) /\ results # << >> /\ results' = Tail(results)
    BY <1>1, <1>10 DEF PublishResult, stream, QueuesInv
  <2>2. Head(results) \in Answers /\ Tail(results) \in Seq(Answers)
    BY <2>1, HeadTailProperties
  <2>3. /\ echoes' \in Seq(Echoed)
        /\ Len(echoes') <= Len(echoes) + One(IsOurPrefix(Head(results)))
    <3>1. CASE IsOurPrefix(Head(results)) /\ echoes' = Append(echoes, Head(results))
      <4>1. Head(results) \in Echoed
        BY <2>2, <3>1 DEF Echoed
      <4> QED
        BY <1>1, <3>1, <4>1, AppendProperties DEF BrokerInv, One
    <3>2. CASE echoes' = echoes
      BY <1>1, <1>2, <3>2 DEF BrokerInv, One
    <3> QED
      BY <1>10, <3>1, <3>2 DEF PublishResult
  <2>4. QueuesInv' /\ BrokerInv'
    BY <1>1, <2>1, <2>2, <2>3 DEF QueuesInv, BrokerInv
  <2>5. EchoesDoNotMultiply'
    <3>1. Cardinality(ToItself) = Cardinality(ToItself') + One(IsOurPrefix(Head(results)))
      <4>1. OfOurs(Tail(results)) = ToItself'
        BY <2>1 DEF OfOurs, ToItself
      <4> QED
        BY <1>1, <2>1, <4>1, TailOfOurs
    <3>2. Cardinality(ToItself') \in Nat /\ Len(echoes') \in Nat
      <4>1. OfOurs(Tail(results)) = ToItself'
        BY <2>1 DEF OfOurs, ToItself
      <4>2. Cardinality(OfOurs(Tail(results))) \in Nat
        BY <2>2, OfOursLemma
      <4>3. Len(echoes') \in Nat
        BY <2>3
      <4> QED
        BY <4>1, <4>2, <4>3
    <3> QED
      BY <1>1, <1>2, <2>1, <2>3, <3>1, <3>2 DEF EchoesDoNotMultiply, GoingRound, One
  <2> QED
    BY <1>8, <2>1, <2>4, <2>5 DEF Inv
<1>11. CASE UNCHANGED vars
  <2>1. UNCHANGED <<stream, buffer, last, selfSigned, jobs, results, echoes, incoming>>
    BY <1>11 DEF vars, stream, broker
  <2>2. QueuesInv' /\ BrokerInv' /\ EchoesDoNotMultiply'
    BY <1>1, <2>1 DEF QueuesInv, BrokerInv, EchoesDoNotMultiply, GoingRound, ToItself
  <2> QED
    BY <1>8, <2>1, <2>2 DEF Inv
<1> QED
  BY <1>3, <1>5, <1>6, <1>7, <1>9, <1>10, <1>11 DEF Next

\* The invariant holds whatever messages arrive, however they are cut, and
\* wherever sessions end.
THEOREM Invariant == Spec => []Inv
BY InitInv, StepInv, PTL DEF Spec

-----------------------------------------------------------------------------
(* What follows *)

\* The buffer holds at most the payload and its zero, and at every moment the
\* bytes of one message only: message_callback, message_new, append_payload.
THEOREM OneMessageAtATime == Spec => []BufferOK
<1>1. Inv => BufferOK
  <2> SUFFICES ASSUME Inv PROVE BufferOK
    OBVIOUS
  <2>1. Len(buffer.payload) < PayloadMax
    BY DEF Inv, BufferInv
  <2>2. ASSUME got > 0
        PROVE  /\ buffer.topic = incoming.topic
               /\ \A i \in 1 .. Len(buffer.payload) : buffer.payload[i] = <<parity, i>>
    <3>1. Holds(buffer, incoming, got)
      BY <2>2 DEF Inv, BufferInv
    <3>2. Held(got) \in Nat
      BY CallbackAssumption DEF Held, Inv, StreamInv
    <3> QED
      BY <3>1, <3>2 DEF Holds, Prefix
  <2> QED
    BY <2>1, <2>2 DEF BufferOK
<1> QED
  BY <1>1, Invariant, PTL

\* What becomes of a message depends on the message and the room for its job
\* alone, however it was cut and whatever came before it.
THEOREM FragmentsDoNotMatter == Spec => []MeansTheMessage
<1>1. Inv => MeansTheMessage
  BY DEF Inv
<1> QED
  BY <1>1, Invariant, PTL

\* Every job in the device queue has a value that the device does not refuse and
\* that survives each narrowing on its way there, but for a light's timer above 255
\* minutes, of which the frame 77F8 carries the lower byte only.
THEOREM DevicesAcceptJobs == Spec => []JobsUsable
<1>1. Inv => JobsUsable
  <2> SUFFICES ASSUME Inv, NEW i \in 1 .. Len(jobs) PROVE Usable(jobs[i])
    BY DEF JobsUsable
  <2>1. PICK m \in Commands : jobs[i] = ParsedJob(m.topic, m.payload)
    BY DEF Inv, QueuesInv, Accepted
  <2> QED
    BY <2>1, AcceptedLemma DEF Commands
<1> QED
  BY <1>1, Invariant, PTL

\* No more answers of the program to itself go round than clients have signed messages
\* of the session with one of its topics, whoever sends what.
THEOREM AnswersToItself == Spec => []EchoesDoNotMultiply
<1>1. Inv => EchoesDoNotMultiply
  BY DEF Inv
<1> QED
  BY <1>1, Invariant, PTL
=============================================================================
