-------------------------- MODULE TuyaClientProofs --------------------------
(***************************************************************************)
(* Proofs about TuyaClient for every value of its constants: the types, the *)
(* refinement of SwitchService, the stability of a confirmed command and    *)
(* the bound on the steps of a job.                                         *)
(***************************************************************************)
EXTENDS TuyaClient, TLAPS

(* What the operations on the frames of a connection keep *)

\* PlugReads, SendFinish, SkipFrame: the tail keeps the type and the frames.
LEMMA TailFrames ==
    ASSUME NEW S, NEW s \in Seq(S), s # << >>
    PROVE  /\ Head(s) \in S /\ Tail(s) \in Seq(S)
           /\ Head(s) = s[1] /\ 1 \in 1 .. Len(s)
           /\ \A i \in 1 .. Len(Tail(s)) : i + 1 \in 1 .. Len(s) /\ Tail(s)[i] = s[i + 1]
  OBVIOUS

\* Send, PlugReads, PlugPushes: one frame more, at the end.
LEMMA AppendFrame ==
    ASSUME NEW S, NEW s \in Seq(S), NEW e \in S
    PROVE  /\ Append(s, e) \in Seq(S)
           /\ \A i \in 1 .. Len(Append(s, e)) :
                \/ Append(s, e)[i] = e
                \/ i \in 1 .. Len(s) /\ Append(s, e)[i] = s[i]
  OBVIOUS

\* Pushes, Answers: what the plug may send is a frame, and a status true.
LEMMA FramesOfThePlug ==
    ASSUME power \in Relay, NEW kind
    PROVE  \A frame \in Pushes \cup Answers(kind) :
             frame \in ClientFrames /\ (frame.kind = "status" => frame.value = power)
  <1>1. \A frame \in Pushes :
          frame \in ClientFrames /\ (frame.kind = "status" => frame.value = power)
    BY DEF Pushes, Frame, Plain, ClientFrames
  <1>2. \A k \in {"plain", "error", "nonce"} :
          Plain(k) \in ClientFrames /\ Plain(k).kind # "status"
    BY DEF Frame, Plain, ClientFrames
  <1>3. QED
    BY <1>1, <1>2 DEF Answers

\* Close keeps the commands of the session for the plug to execute.
LEMMA CommandsAreTheJobs ==
    ASSUME FramesOK PROVE Commands(toPlug) \subseteq {job} \cap Relay
  BY DEF FramesOK, Commands

\* SendStart, SendFinish, SendRequest
LEMMA SendKeepsFrames ==
    ASSUME FramesOK, NEW frame \in PlugFrames, Send(frame), UNCHANGED job,
           frame.kind = "control" => frame.value \in {job} \cap Relay
    PROVE  /\ toPlug' \in Seq(PlugFrames)
           /\ \A i \in 1 .. Len(toPlug') :
                toPlug'[i].kind = "control" => toPlug'[i].value \in {job'} \cap Relay
  BY AppendFrame DEF FramesOK, Send

\* SendFinish, SkipFrame
LEMMA ReadKeepsFrames ==
    ASSUME FramesOK, toClient # << >>, toClient' = Tail(toClient)
    PROVE  /\ toClient' \in Seq(ClientFrames)
           /\ \A i \in 1 .. Len(toClient') :
                toClient'[i].kind = "status" => toClient'[i].value \in Relay
  BY TailFrames DEF FramesOK

-----------------------------------------------------------------------------
(* Types *)

LEMMA TypeInit == Init => TypeOK
  <1>1. << >> \in Seq(PlugFrames) /\ << >> \in Seq(ClientFrames)
    OBVIOUS
  <1>2. Len(<< >>) = 0
    OBVIOUS
  <1>3. Unknown \in [power : Relay, valid : BOOLEAN]
    BY DEF Unknown, Relay
  <1>4. ASSUME Init PROVE DriverTypeOK
    <2>1. skipped \in Nat /\ attempt \in {1, 2}
      BY <1>4 DEF Init
    <2>2. known \in [power : Relay, valid : BOOLEAN]
      BY <1>3, <1>4 DEF Init
    <2>3. contested \in BOOLEAN
      BY <1>4 DEF Init
    <2>4. /\ pc \in {"idle"} /\ job \in {"none"} /\ phase \in {"verify"}
          /\ settled \in {"none"}
      BY <1>4 DEF Init
    <2> QED BY <2>1, <2>2, <2>3, <2>4 DEF DriverTypeOK
  <1>5. ASSUME Init PROVE FramesOK
    <2>1. toPlug = << >> /\ toClient = << >>
      BY <1>5 DEF Init
    <2> QED BY <1>1, <1>2, <2>1 DEF FramesOK
  <1>6. Init => PlugTypeOK /\ PhaseOK
    BY DEF Init, PlugTypeOK, PhaseOK, Relay
  <1>7. QED
    BY <1>4, <1>5, <1>6 DEF TypeOK

LEMMA FramesStep == TypeOK /\ [Next]_vars => FramesOK'
  <1> SUFFICES ASSUME TypeOK, [Next]_vars PROVE FramesOK'
    OBVIOUS
  <1> USE DEF TypeOK
  <1>1. ASSUME UNCHANGED <<toPlug, toClient, job>> PROVE FramesOK'
    BY <1>1 DEF FramesOK
  <1>2. ASSUME toPlug' = << >>, toClient' = << >> PROVE FramesOK'
    <2>1. << >> \in Seq(PlugFrames) /\ << >> \in Seq(ClientFrames)
      OBVIOUS
    <2>2. Len(<< >>) = 0
      OBVIOUS
    <2> QED BY <1>2, <2>1, <2>2 DEF FramesOK
  <1>3. ASSUME NEW request \in Requests, Begin(request) PROVE FramesOK'
    BY <1>2, <1>3 DEF Begin, network, PhaseOK
  <1>4. CASE SendStart
    <2>1. Plain("start") \in PlugFrames /\ Plain("start").kind # "control"
      BY DEF Plain, Frame, PlugFrames
    <2> QED BY <1>4, <2>1, SendKeepsFrames DEF SendStart, FramesOK
  <1>5. CASE SendFinish
    <2>1. Plain("finish") \in PlugFrames /\ Plain("finish").kind # "control"
      BY DEF Plain, Frame, PlugFrames
    <2> QED BY <1>5, <2>1, SendKeepsFrames, ReadKeepsFrames
            DEF SendFinish, Arrived, FramesOK
  <1>6. CASE SendRequest
    <2>1. Request \in PlugFrames /\ (Request.kind = "control" => Request.value \in {job} \cap Relay)
      BY DEF Request, Plain, Frame, PlugFrames, PhaseOK
    <2> QED BY <1>6, <2>1, SendKeepsFrames DEF SendRequest, FramesOK
  <1>7. CASE SkipFrame
    BY <1>7, ReadKeepsFrames DEF SkipFrame, Arrived, FramesOK
  <1>8. CASE PlugReads
    <2>1. toPlug \in Seq(PlugFrames)
      BY DEF FramesOK
    <2>2. /\ toPlug' \in Seq(PlugFrames)
          /\ \A i \in 1 .. Len(toPlug') :
               toPlug'[i].kind = "control" => toPlug'[i].value \in {job'} \cap Relay
      BY <1>8, <2>1, TailFrames DEF PlugReads, FramesOK, client
    <2>3. power \in Relay
      BY DEF PlugTypeOK
    <2>4. /\ toClient' \in Seq(ClientFrames)
          /\ \A i \in 1 .. Len(toClient') :
               toClient'[i].kind = "status" => toClient'[i].value \in Relay
      <3>1. CASE toClient' = toClient
        BY <3>1 DEF FramesOK
      <3>2. ASSUME NEW frame \in Answers(Head(toPlug).kind),
                   toClient' = Append(toClient, frame)
            PROVE  <2>4!1 /\ <2>4!2
        BY <3>2, <2>3, FramesOfThePlug, AppendFrame DEF FramesOK
      <3> QED BY <1>8, <3>1, <3>2 DEF PlugReads
    <2> QED BY <2>2, <2>4 DEF FramesOK
  <1>9. CASE PlugPushes
    <2>1. power \in Relay
      BY DEF PlugTypeOK
    <2>2. PICK frame \in Pushes : toClient' = Append(toClient, frame)
      BY <1>9 DEF PlugPushes
    <2> QED BY <1>9, <2>1, <2>2, FramesOfThePlug, AppendFrame
            DEF PlugPushes, FramesOK, client
  <1>10. CASE PlugCloses
    BY <1>10 DEF PlugCloses, FramesOK, client
  <1>11. CASE UNCHANGED vars \/ Connect \/ OrphanEnds \/ Button
    BY <1>1, <1>11 DEF vars, Connect, OrphanEnds, Button, client, network
  <1>12. CASE CommandOver \/ Verified \/ Retry \/ GiveUp
    BY <1>2, <1>12 DEF CommandOver, Verified, Retry, GiveUp, Close
  <1>13. QED
    BY <1>3, <1>4, <1>5, <1>6, <1>7, <1>8, <1>9, <1>10, <1>11, <1>12
       DEF Next, DriverStep, PlugStep

LEMMA PhaseStep == TypeOK /\ [Next]_vars => PhaseOK'
  <1> SUFFICES ASSUME TypeOK, [Next]_vars PROVE PhaseOK'
    OBVIOUS
  <1> USE DEF TypeOK, PhaseOK, Relay, Requests
  <1>1. CASE UNCHANGED vars \/ OrphanEnds \/ Button
    BY <1>1 DEF vars, OrphanEnds, Button, client, network
  <1>2. ASSUME NEW request \in Requests, Begin(request) PROVE PhaseOK'
    BY <1>2 DEF Begin, FirstPhase, network
  <1>3. CASE Connect
    BY <1>3 DEF Connect
  <1>4. CASE SendStart \/ SendFinish \/ SkipFrame
    BY <1>4 DEF SendStart, SendFinish, SkipFrame
  <1>10. CASE SendRequest
    BY <1>10 DEF SendRequest, DriverTypeOK
  <1>5. CASE CommandOver
    BY <1>5 DEF CommandOver, Close
  <1>6. CASE Verified \/ GiveUp
    BY <1>6 DEF Verified, ReadingAccepted, GiveUp, AttemptFails, Finish, Close
  <1>7. CASE Retry
    BY <1>7 DEF Retry, AttemptFails, FirstPhase, Close, SessionFails,
                Waiting, DriverTypeOK
  <1>8. CASE PlugReads \/ PlugPushes \/ PlugCloses
    BY <1>8 DEF PlugReads, PlugPushes, PlugCloses, client
  <1>9. QED
    BY <1>1, <1>2, <1>3, <1>4, <1>5, <1>6, <1>7, <1>8, <1>10
       DEF Next, DriverStep, PlugStep

LEMMA DriverTypeStep == TypeOK /\ [Next]_vars => DriverTypeOK'
  <1> SUFFICES ASSUME TypeOK, [Next]_vars PROVE DriverTypeOK'
    OBVIOUS
  <1> USE DEF TypeOK, DriverTypeOK
  <1>2. ASSUME NEW request \in Requests, Begin(request) PROVE DriverTypeOK'
    BY <1>2 DEF Begin, FirstPhase
  <1>3. CASE Connect \/ SendStart \/ SendFinish \/ SendRequest \/ SkipFrame
    BY <1>3 DEF Connect, SendStart, SendFinish, SendRequest, SkipFrame, Waiting,
                history
  <1>4. CASE CommandOver
    BY <1>4 DEF CommandOver, Close
  <1>5. CASE Verified
    <2>1. Reading \in Relay
      BY <1>5, TailFrames DEF Verified, ReadingAccepted, Arrived, Reading, FramesOK
    <2>2. known' \in [power : Relay, valid : BOOLEAN]
      BY <1>5, <2>1 DEF Verified
    <2> QED BY <1>5, <2>2 DEF Verified, Finish, Requests, Relay
  <1>6. CASE Retry
    BY <1>6 DEF Retry, FirstPhase
  <1>7. CASE GiveUp
    <2>1. Unknown \in [power : Relay, valid : BOOLEAN]
      BY DEF Unknown, Relay
    <2> QED BY <1>7, <2>1 DEF GiveUp, Finish, history
  <1>8. CASE PlugReads \/ PlugPushes \/ PlugCloses \/ OrphanEnds \/ UNCHANGED vars
    BY <1>8 DEF PlugReads, PlugPushes, PlugCloses, OrphanEnds, vars, client, history
  <1>9. CASE Button
    BY <1>9 DEF Button, client
  <1>10. QED
    BY <1>2, <1>3, <1>4, <1>5, <1>6, <1>7, <1>8, <1>9 DEF Next, DriverStep, PlugStep

LEMMA PlugTypeStep == TypeOK /\ [Next]_vars => PlugTypeOK'
  <1> SUFFICES ASSUME TypeOK, [Next]_vars PROVE PlugTypeOK'
    OBVIOUS
  <1> USE DEF TypeOK, PlugTypeOK
  <1>1. ASSUME UNCHANGED <<power, orphans>>, window' = window \/ window' = {power}
        PROVE  PlugTypeOK'
    BY <1>1
  <1>2. ASSUME NEW request \in Requests, Begin(request) PROVE PlugTypeOK'
    BY <1>1, <1>2 DEF Begin
  <1>3. CASE \/ Connect \/ SendStart \/ SendFinish \/ SendRequest \/ SkipFrame
             \/ PlugPushes \/ PlugCloses \/ UNCHANGED vars
    BY <1>1, <1>3 DEF Connect, SendStart, SendFinish, SendRequest, SkipFrame,
                      PlugPushes, PlugCloses, vars, history
  <1>4. CASE CommandOver \/ Verified \/ Retry \/ GiveUp
    <2>1. orphans' \subseteq Relay
      BY <1>4, CommandsAreTheJobs DEF CommandOver, Verified, Retry, GiveUp, Close
    <2> QED BY <1>4, <2>1 DEF CommandOver, Verified, Retry, GiveUp, history
  <1>5. CASE PlugReads
    <2>1. Head(toPlug).kind = "control" => Head(toPlug).value \in Relay
      BY <1>5, TailFrames DEF PlugReads, FramesOK
    <2> QED BY <1>5, <2>1 DEF PlugReads, Set
  <1>6. CASE OrphanEnds
    BY <1>6 DEF OrphanEnds, Set
  <1>7. CASE Button
    BY <1>7 DEF Button, Set
  <1>8. QED
    BY <1>2, <1>3, <1>4, <1>5, <1>6, <1>7 DEF Next, DriverStep, PlugStep

\* The variables have their types, a session is open only while the driver is
\* busy, and every command under way is that of the job.
THEOREM TypeCorrect == Spec => []TypeOK
  <1>1. TypeOK /\ [Next]_vars => TypeOK'
    BY FramesStep, PhaseStep, DriverTypeStep, PlugTypeStep DEF TypeOK
  <1>2. QED
    BY TypeInit, <1>1, PTL DEF Spec
-----------------------------------------------------------------------------
(* Refinement *)

\* A status on its way in the session that verifies is a state the plug had since.
Fresh == phase = "verify" =>
           \A i \in 1 .. Len(toClient) :
             toClient[i].kind = "status" => toClient[i].value \in window

LEMMA FreshStep == TypeOK /\ Fresh /\ [Next]_vars => Fresh'
  <1> SUFFICES ASSUME TypeOK, Fresh, [Next]_vars PROVE Fresh'
    OBVIOUS
  <1> USE DEF TypeOK
  <1>0. Len(<< >>) = 0
    OBVIOUS
  <1>1. ASSUME toClient' = << >> PROVE Fresh'
    BY <1>0, <1>1 DEF Fresh
  <1>2. ASSUME UNCHANGED <<phase, toClient>>, window \subseteq window' PROVE Fresh'
    BY <1>2 DEF Fresh
  <1>3. ASSUME NEW request \in Requests, Begin(request) PROVE Fresh'
    BY <1>1, <1>3 DEF Begin, network, PhaseOK
  <1>4. CASE \/ Connect \/ SendStart \/ SendRequest \/ PlugCloses \/ OrphanEnds
             \/ Button \/ UNCHANGED vars
    BY <1>2, <1>4 DEF Connect, SendStart, SendRequest, PlugCloses, OrphanEnds,
                      Button, Set, vars, client, network, history
  <1>5. CASE SendFinish \/ SkipFrame
    <2>1. toClient # << >> /\ toClient' = Tail(toClient)
      BY <1>5 DEF SendFinish, SkipFrame, Arrived
    <2>2. UNCHANGED <<phase, window>>
      BY <1>5 DEF SendFinish, SkipFrame, history
    <2> QED BY <2>1, <2>2, TailFrames DEF Fresh, FramesOK
  <1>6. CASE CommandOver \/ Verified \/ Retry \/ GiveUp
    BY <1>1, <1>6 DEF CommandOver, Verified, Retry, GiveUp, Close
  <1>7. CASE PlugReads \/ PlugPushes
    <2>1. UNCHANGED phase /\ window \subseteq window'
      BY <1>7 DEF PlugReads, PlugPushes, Set, client, history
    <2>2. CASE toClient' = toClient
      BY <1>2, <2>1, <2>2
    <2>3. ASSUME NEW frame \in Pushes \cup Answers(Head(toPlug).kind),
                 toClient' = Append(toClient, frame)
          PROVE  Fresh'
      <3>1. frame \in ClientFrames /\ (frame.kind = "status" => frame.value = power)
        BY FramesOfThePlug DEF PlugTypeOK
      <3> QED BY <2>1, <2>3, <3>1, AppendFrame DEF Fresh, FramesOK, PlugTypeOK
    <2> QED BY <1>7, <2>2, <2>3 DEF PlugReads, PlugPushes
  <1>8. QED
    BY <1>3, <1>4, <1>5, <1>6, <1>7 DEF Next, DriverStep, PlugStep

LEMMA ServiceInit == Init => Service!Init
  BY DEF Init, Service!Init, Unknown, Service!Unknown, Relay, Service!Relay

LEMMA ServiceStep == TypeOK /\ TypeOK' /\ Fresh /\ [Next]_vars =>
                       [Service!Next]_(Service!vars)
  <1> SUFFICES ASSUME TypeOK, TypeOK', Fresh, [Next]_vars
               PROVE  [Service!Next]_(Service!vars)
    OBVIOUS
  <1> USE DEF TypeOK, Service!vars
  <1>1. ASSUME NEW request \in Requests, Begin(request)
        PROVE  Service!Begin(request)
    BY <1>1 DEF Begin, Service!Begin, PhaseOK
  <1>2. CASE \/ Connect \/ SendStart \/ SendFinish \/ SendRequest \/ SkipFrame
             \/ PlugPushes \/ PlugCloses \/ UNCHANGED vars
    BY <1>2 DEF Connect, SendStart, SendFinish, SendRequest, SkipFrame, PlugPushes,
                PlugCloses, vars, client, history
  <1>3. CASE CommandOver
    <2>1. job # "none"
      BY <1>3 DEF CommandOver, PhaseOK, Relay
    <2> QED BY <1>3, <2>1 DEF CommandOver, Service!Verify, Service!Next
  <1>4. CASE Retry
    <2>1. job # "none"
      BY <1>4 DEF Retry, AttemptFails, SessionFails, PhaseOK, Waiting
    <2> QED BY <1>4, <2>1 DEF Retry, Service!Verify, Service!Next
  <1>5. CASE GiveUp
    <2>1. job # "none"
      BY <1>5 DEF GiveUp, AttemptFails, SessionFails, PhaseOK, Waiting
    <2>2. Service!Fail
      BY <1>5, <2>1 DEF GiveUp, Finish, Service!Fail, Unknown, Service!Unknown, history
    <2> QED BY <2>2 DEF Service!Next
  <1>6. CASE Verified
    <2>1. job # "none" /\ phase = "verify"
      BY <1>6 DEF Verified, ReadingAccepted, PhaseOK
    <2>2. Reading \in window
      BY <1>6, <2>1, TailFrames
         DEF Verified, ReadingAccepted, Arrived, Reading, Fresh, FramesOK
    <2>3. Service!Succeed
      BY <1>6, <2>1, <2>2 DEF Verified, ReadingAccepted, Finish, Wanted,
                              Service!Succeed, Service!Wanted
    <2> QED BY <2>3 DEF Service!Next
  <1>7. CASE PlugReads \/ OrphanEnds \/ Button
    <2>1. UNCHANGED <<job, known>>
      BY <1>7 DEF PlugReads, OrphanEnds, Button, client
    <2>2. UNCHANGED <<power, window>> \/ window' = window \cup {power'}
      BY <1>7 DEF PlugReads, OrphanEnds, Button, Set
    <2>3. power' \in Service!Relay
      BY DEF PlugTypeOK, Relay, Service!Relay
    <2> QED BY <2>1, <2>2, <2>3 DEF Service!Change, Service!Next
  <1>8. QED
    BY <1>1, <1>2, <1>3, <1>4, <1>5, <1>6, <1>7
       DEF Next, DriverStep, PlugStep, Requests, Service!Next

LEMMA FreshAlways == Spec => []Fresh
  <1>1. ASSUME Init PROVE Fresh
    <2>1. toClient = << >> /\ Len(<< >>) = 0
      BY <1>1 DEF Init
    <2> QED BY <2>1 DEF Fresh
  <1>2. QED
    BY <1>1, FreshStep, TypeCorrect, PTL DEF Spec

\* The driver keeps its promise: whatever is pushed, late, lost or left over, a
\* job that succeeds reports what the plug was since its state was asked for.
THEOREM VerifiedStateIsAuthoritative == Spec => Authoritative
  BY FreshAlways, TypeCorrect, ServiceInit, ServiceStep, PTL
     DEF Spec, Authoritative, Service!Spec

-----------------------------------------------------------------------------
(* A confirmed command stays *)

\* While only the job's own commands can move the relay, it leaves the state
\* they ask for no more once it was in it, and commands left over ask for it too.
Uncontested ==
    ~contested =>
      /\ job \in Relay => orphans \subseteq {job} /\ (job \in window => power = job)
      /\ settled \in Relay => /\ job \notin Relay
                               /\ orphans \subseteq {settled} /\ power = settled

LEMMA UncontestedStep == TypeOK /\ Fresh /\ Uncontested /\ [Next]_vars => Uncontested'
  <1> SUFFICES ASSUME TypeOK, Fresh, Uncontested, [Next]_vars PROVE Uncontested'
    OBVIOUS
  <1> USE DEF TypeOK
  <1>1. CASE UNCHANGED <<job, orphans, power, window, settled, contested>>
    BY <1>1 DEF Uncontested
  <1>2. ASSUME NEW request \in Requests, Begin(request) PROVE Uncontested'
    <2>1. CASE request = "state"
      BY <1>2, <2>1 DEF Begin, Uncontested, Relay
    <2>2. CASE request \in Relay
      BY <1>2, <2>2 DEF Begin, Uncontested, Wanted, Relay, PlugTypeOK
    <2> QED BY <2>1, <2>2 DEF Requests, Relay
  <1>3. CASE \/ Connect \/ SendStart \/ SendFinish \/ SendRequest \/ SkipFrame
             \/ PlugPushes \/ PlugCloses \/ UNCHANGED vars
    BY <1>1, <1>3 DEF Connect, SendStart, SendFinish, SendRequest, SkipFrame,
                      PlugPushes, PlugCloses, vars, client, history
  <1>4. CASE CommandOver \/ Retry \/ Verified \/ GiveUp
    <2>1. orphans' \subseteq orphans \cup ({job} \cap Relay)
      BY <1>4, CommandsAreTheJobs DEF CommandOver, Retry, Verified, GiveUp, Close
    <2>2. CASE CommandOver \/ Retry
      BY <2>1, <2>2 DEF CommandOver, Retry, Uncontested
    <2>3. CASE Verified
      <3>1. Reading \in window /\ Wanted(job, Reading)
        BY <2>3, TailFrames
           DEF Verified, ReadingAccepted, Arrived, Reading, Fresh, FramesOK, PhaseOK
      <3>2. CASE job = "state"
        BY <2>1, <2>3, <3>2 DEF Verified, Finish, Uncontested, Relay
      <3>3. CASE job \in Relay
        <4>1. ~contested => power = job
          BY <3>1, <3>3 DEF Wanted, Relay, Uncontested
        <4> QED BY <2>1, <2>3, <3>3, <4>1 DEF Verified, Finish, Uncontested, Relay
      <3> QED BY <2>3, <3>2, <3>3
              DEF Verified, ReadingAccepted, PhaseOK, DriverTypeOK, Requests, Relay
    <2>4. CASE GiveUp
      BY <2>1, <2>4 DEF GiveUp, Finish, Uncontested, Relay, history
    <2> QED BY <1>4, <2>2, <2>3, <2>4
  <1>5. CASE PlugReads
    <2>1. CASE Head(toPlug).kind # "control"
      BY <1>1, <1>5, <2>1 DEF PlugReads, client
    <2>2. CASE Head(toPlug).kind = "control"
      <3>1. Head(toPlug).value = job /\ job \in Relay
        BY <1>5, <2>2, TailFrames DEF PlugReads, FramesOK
      <3> QED BY <1>5, <2>2, <3>1 DEF PlugReads, Set, client, Uncontested
    <2> QED BY <2>1, <2>2
  <1>6. CASE OrphanEnds
    BY <1>6 DEF OrphanEnds, Set, client, Uncontested, PlugTypeOK
  <1>7. CASE Button
    BY <1>7 DEF Button, Uncontested
  <1>8. QED
    BY <1>2, <1>3, <1>4, <1>5, <1>6, <1>7 DEF Next, DriverStep, PlugStep

\* A power command reported done stays done, although the commands of its failed
\* attempts may be executed late, unless somebody else moves the relay.
THEOREM ConfirmedStays == Spec => []StaysAsConfirmed
  <1>1. Init => Uncontested
    BY DEF Init, Uncontested, Relay
  <1>2. TypeOK /\ Uncontested => StaysAsConfirmed
    BY DEF TypeOK, DriverTypeOK, Uncontested, StaysAsConfirmed
  <1>3. QED
    BY <1>1, <1>2, UncontestedStep, FreshAlways, TypeCorrect, PTL DEF Spec

-----------------------------------------------------------------------------
(* A job is a bounded number of steps *)

\* What the measure needs: frames are counted in the session that reads back, from
\* zero and below the limit.
SkippedInv == /\ pc \in {"negotiate", "nonce", "request"} => skipped = 0
              /\ pc = "status" => skipped < MaxSkipped

LEMMA SkippedStep == TypeOK /\ SkippedInv /\ [Next]_vars => SkippedInv'
  <1> SUFFICES ASSUME TypeOK, SkippedInv, [Next]_vars PROVE SkippedInv'
    OBVIOUS
  <1> USE TuyaAssumption DEF SkippedInv
  <1>1. ASSUME NEW request \in Requests, Begin(request) PROVE SkippedInv'
    BY <1>1 DEF Begin
  <1>2. CASE Connect \/ SendStart \/ SendFinish \/ SendRequest
    BY <1>2 DEF Connect, SendStart, SendFinish, SendRequest
  <1>3. CASE SkipFrame
    BY <1>3 DEF SkipFrame
  <1>4. CASE CommandOver \/ Verified \/ Retry \/ GiveUp
    BY <1>4 DEF CommandOver, Verified, Retry, GiveUp, Finish
  <1>5. CASE PlugStep \/ UNCHANGED vars
    BY <1>5 DEF PlugStep, PlugReads, PlugPushes, PlugCloses, OrphanEnds, Button, client, vars
  <1>6. QED
    BY <1>1, <1>2, <1>3, <1>4, <1>5 DEF Next, DriverStep

\* The measure is a number, and one of a session's steps is always left.
LEMMA StepsAreLeft ==
    ASSUME TypeOK, SkippedInv
    PROVE  /\ StepsInSession \in 0 .. SessionSteps /\ SessionSteps \in Nat
           /\ pc # "idle" => StepsInSession >= 1
  <1>1. MaxSkipped \in Nat /\ MaxSkipped >= 1 /\ skipped \in Nat
    BY TuyaAssumption DEF TypeOK, DriverTypeOK
  <1>2. pc \in {"idle", "connect", "negotiate", "request", "nonce", "ack", "status"}
    BY DEF TypeOK, DriverTypeOK, Waiting
  <1>3. QED
    BY <1>1, <1>2 DEF StepsInSession, SessionSteps, SkippedInv

\* A step within a session.
LEMMA SessionAdvances ==
    ASSUME TypeOK, SkippedInv, Connect \/ SendStart \/ SendFinish \/ SendRequest \/ SkipFrame
    PROVE  StepsLeft' < StepsLeft
  <1>1. MaxSkipped \in Nat /\ MaxSkipped >= 1 /\ skipped \in Nat
    BY TuyaAssumption DEF TypeOK, DriverTypeOK
  <1>2. UNCHANGED <<phase, attempt>> /\ pc # "idle" /\ pc' # "idle"
    BY DEF Connect, SendStart, SendFinish, SendRequest, SkipFrame
  <1>3. StepsInSession' \in Nat /\ StepsInSession \in Nat /\ StepsInSession' < StepsInSession
    <2>1. CASE Connect
      BY <1>1, <2>1 DEF Connect, StepsInSession, SessionSteps
    <2>2. CASE SendStart \/ SendFinish
      BY <1>1, <2>2 DEF SendStart, SendFinish, StepsInSession, SessionSteps
    <2>3. CASE SendRequest
      BY <1>1, <2>3 DEF SendRequest, StepsInSession, SessionSteps, SkippedInv
    <2>4. CASE SkipFrame
      BY <1>1, <2>4 DEF SkipFrame, StepsInSession, SessionSteps, SkippedInv
    <2>5. QED
      BY <2>1, <2>2, <2>3, <2>4
  <1> DEFINE later == (IF phase = "command" THEN SessionSteps ELSE 0)
                        + (IF attempt = 1 THEN 2 * SessionSteps ELSE 0)
  <1>4. later \in Nat
    BY <1>1 DEF SessionSteps
  <1>5. StepsLeft = StepsInSession + later /\ StepsLeft' = StepsInSession' + later
    BY <1>1, <1>2, <1>3, <1>4 DEF StepsLeft, SessionSteps
  <1> HIDE DEF later
  <1>6. \A a, b, c \in Nat : a < b => a + c < b + c
    OBVIOUS
  <1>7. StepsInSession' + later < StepsInSession + later
    BY <1>3, <1>4, <1>6
  <1>8. QED
    BY <1>5, <1>7

\* Every switch job is over after a number of steps of the driver that the limit of
\* skipped frames bounds, whatever the plug does: what JobReturns rests on, apart
\* from the scheduler and the receive timeout.
THEOREM DriverStepsAreBounded == Spec => DriverShrinks
  <1>1. ASSUME TypeOK, SkippedInv, [Next]_vars
        PROVE  [IF pc = "idle" THEN StepsLeft' <= 4 * SessionSteps
                ELSE StepsLeft' < StepsLeft]_client
    <2> USE DEF SessionSteps, StepsLeft
    <2>1. MaxSkipped \in Nat /\ MaxSkipped >= 1
      BY TuyaAssumption
    <2>2. attempt \in {1, 2} /\ StepsInSession \in Nat
          /\ (pc # "idle" => StepsInSession >= 1)
      BY <1>1, StepsAreLeft DEF TypeOK, DriverTypeOK
    <2>3. ASSUME NEW request \in Requests, Begin(request)
          PROVE  pc = "idle" /\ StepsLeft' <= 4 * SessionSteps
      <3>1. pc = "idle" /\ pc' = "connect"
        BY <2>3 DEF Begin
      <3>2. StepsInSession' = SessionSteps
        BY <3>1 DEF StepsInSession
      <3>3. QED
        BY <2>1, <3>1, <3>2
    <2>4. CASE Connect \/ SendStart \/ SendFinish \/ SendRequest \/ SkipFrame
      BY <1>1, <2>4, SessionAdvances
         DEF Connect, SendStart, SendFinish, SendRequest, SkipFrame
    <2>5. CASE CommandOver \/ Retry
      <3>1. /\ pc' = "connect" /\ pc # "idle"
            /\ \/ phase = "command" /\ phase' = "verify" /\ attempt' = attempt
               \/ phase = "verify" /\ attempt = 1 /\ attempt' = 2
        BY <2>5 DEF CommandOver, Retry, AttemptFails, SessionFails, Waiting
      <3>2. StepsInSession' = SessionSteps
        BY <3>1 DEF StepsInSession
      <3>3. QED
        BY <2>1, <2>2, <3>1, <3>2
    <2>6. CASE Verified \/ GiveUp
      <3>1. pc' = "idle" /\ pc # "idle"
        BY <2>6 DEF Verified, ReadingAccepted, GiveUp, AttemptFails, SessionFails, Waiting,
           Finish
      <3>2. QED
        BY <2>1, <2>2, <3>1
    <2>7. CASE PlugStep \/ UNCHANGED vars
      BY <2>7 DEF PlugStep, PlugReads, PlugPushes, PlugCloses, OrphanEnds, Button, vars
    <2>8. QED
      BY <1>1, <2>3, <2>4, <2>5, <2>6, <2>7 DEF Next, DriverStep
  <1>2. Init => SkippedInv
    BY DEF Init, SkippedInv
  <1>3. QED
    BY <1>1, <1>2, SkippedStep, TypeCorrect, PTL DEF Spec, DriverShrinks
=============================================================================
