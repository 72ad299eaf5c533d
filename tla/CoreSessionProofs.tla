------------------------- MODULE CoreSessionProofs -------------------------
(***************************************************************************)
(* Safety of CoreSession for every set of operations, every bound on       *)
(* frames, on responses and on the pipe.                                   *)
(***************************************************************************)
EXTENDS CoreSession, TLAPS

-----------------------------------------------------------------------------
(* What the functions of the server do. *)

\* A reply is addressed to the request it is made for.
LEMMA AnswerMade ==
  ASSUME NEW m, m.id \in 0..MaxFrames, NEW code \in Code,
         NEW n \in Sizes \union {1}, Answer(m, code, n)
  PROVE  /\ reply' \in Response /\ reply'.id = m.id /\ reply'.code = code
         /\ pc' = "writing"
  BY DEF Answer, Response

\* The reply that is being made accepts the handshake m.
Accepts(m, r) == m.frame.method = "core.handshake" /\ r.code = "OK"

ReplyId(m) == IF m.frame.kind = "malformed" THEN 0 ELSE m.id

\* A payload is either passed on to an operation of an open session, or it is
\* answered, and only the first valid handshake is accepted.
LEMMA Handled ==
  ASSUME NEW m \in Message, shaken \in BOOLEAN, Handle(m)
  PROVE  \/ /\ pc' = "operating" /\ shaken
            /\ m.frame.kind = "request" /\ m.frame.method \in Operation
            /\ UNCHANGED <<reply, shaken>>
         \/ /\ pc' = "writing" /\ reply' \in Response /\ reply'.id = ReplyId(m)
            /\ \/ ~Accepts(m, reply') /\ UNCHANGED shaken
               \/ /\ Accepts(m, reply') /\ m.frame.params = "valid"
                  /\ ~shaken /\ shaken'
  <1> DEFINE anonymous == [m EXCEPT !.id = 0]
  <1>1. m.id \in 0..MaxFrames /\ anonymous.id = 0
    BY SizeAssumption DEF Message
  <1>2. 1 \in Sizes \union {1}
    OBVIOUS
  <1>3. CASE m.frame.kind = "malformed"
    <2>1. Answer(anonymous, "INVALID_REQUEST", 1) /\ UNCHANGED shaken
      BY <1>3 DEF Handle
    <2>2. /\ reply' \in Response /\ reply'.id = 0
          /\ reply'.code = "INVALID_REQUEST" /\ pc' = "writing"
      <3> HIDE DEF anonymous
      <3>1. anonymous.id \in 0..MaxFrames
        BY <1>1, SizeAssumption
      <3>2. QED
        BY <1>1, <2>1, <3>1, AnswerMade DEF Code
    <2>3. QED
      BY <1>3, <2>1, <2>2 DEF Accepts, ReplyId
  <1>4. CASE m.frame.kind = "request"
    <2> DEFINE Said(code) == Answer(m, code, 1)
    <2>1. \A code \in Code : Said(code) =>
            /\ reply' \in Response /\ reply'.id = ReplyId(m)
            /\ reply'.code = code /\ pc' = "writing"
      BY <1>1, <1>2, <1>4, AnswerMade DEF ReplyId
    <2>2. HandleRequest(m)
      BY <1>4 DEF Handle
    <2>3. CASE shaken
      <3>1. UNCHANGED shaken
        BY <2>2, <2>3 DEF HandleRequest, Dispatch
      <3>2. \/ m.frame.method = "core.handshake" /\ Said("INVALID_REQUEST")
            \/ /\ m.frame.method # "core.handshake"
               /\ \E code \in Code : Said(code)
            \/ m.frame.method \in Operation /\ pc' = "operating" /\ UNCHANGED reply
        BY <2>2, <2>3 DEF HandleRequest, Dispatch, Code
      <3> HIDE DEF Said
      <3>3. QED
        BY <1>4, <2>1, <2>3, <3>1, <3>2 DEF Accepts, Code
    <2>4. CASE ~shaken
      <3>1. \/ \E code \in Code \ {"OK"} : Said(code) /\ UNCHANGED shaken
            \/ /\ m.frame.method = "core.handshake" /\ m.frame.params = "valid"
               /\ Said("OK") /\ shaken' = TRUE
        BY <2>2, <2>4 DEF HandleRequest, HandleHandshake, Code
      <3> HIDE DEF Said
      <3>2. QED
        BY <2>1, <2>4, <3>1 DEF Accepts, Code
    <2>5. QED
      BY <2>3, <2>4
  <1>5. QED
    BY <1>3, <1>4 DEF Handle

-----------------------------------------------------------------------------
(* Type correctness. *)

\* What the process is at work on.
AtWork ==
  /\ pc = "operating" => /\ current \in Message /\ shaken
                         /\ current.frame.kind = "request"
                         /\ current.frame.method \in Operation
  /\ pc = "writing" => current \in Message /\ reply \in Response

TypeInv == TypeOK /\ AtWork

\* An operation answers its request and never looks like a handshake.
LEMMA Performed ==
  ASSUME TypeInv, Perform
  PROVE  /\ pc = "operating" /\ pc' = "writing"
         /\ reply' \in Response /\ reply'.id = current.id
         /\ ~Accepts(current, reply')
         /\ performed' \in {performed, performed \union {current.id}}
         /\ UNCHANGED <<pipes, shaken, current, written, taken, replies>>
  <1>1. PICK ok \in BOOLEAN, n \in Sizes : PerformAs(ok, n)
    BY DEF Perform
  <1>2. /\ pc = "operating" /\ current \in Message
        /\ current.frame.method \in Operation
    BY <1>1 DEF PerformAs, TypeInv, AtWork
  <1>3. current.id \in 0..MaxFrames /\ n \in Sizes \union {1} /\ 1 \in Sizes \union {1}
    BY <1>2, SizeAssumption DEF Message
  <1>4. \E code \in Code, k \in Sizes \union {1} : Answer(current, code, k)
    BY <1>1, <1>3 DEF PerformAs, Code
  <1>5. reply' \in Response /\ reply'.id = current.id /\ pc' = "writing"
    BY <1>3, <1>4, AnswerMade
  <1>6. QED
    BY <1>1, <1>2, <1>5, MethodAssumption DEF PerformAs, Accepts

\* Sending a frame.
SendStep ==
  /\ sent < MaxFrames /\ sent' = sent + 1
  /\ \E f \in Frame : toCore' = Append(toCore, [id |-> sent + 1, frame |-> f])

\* A step that neither takes a frame nor completes a reply.
Quiet ==
  /\ UNCHANGED <<taken, replies, performed, shaken, current, reply>>
  /\ \/ pc' = pc
     \/ pc \notin Ended /\ pc' \in Ended
     \/ pc = "opening" /\ pc' = "reading"
  /\ UNCHANGED <<toCore, sent>> \/ SendStep

\* The last unit of a reply.
Complete ==
  /\ pc = "writing" /\ pc' = "reading"
  /\ replies' = Append(replies, reply)
  /\ UNCHANGED <<toCore, sent, taken, performed, shaken, current, reply>>

LEMMA StepKinds ==
  TypeInv /\ [Next]_vars => Quiet \/ ReadFrame \/ Perform \/ Complete \/ Spawn
  <1> SUFFICES ASSUME TypeInv, [Next]_vars
               PROVE  Quiet \/ ReadFrame \/ Perform \/ Complete \/ Spawn
    OBVIOUS
  <1>1. CASE Open
    BY <1>1 DEF Open, Quiet, Ended, pipes, history
  <1>2. CASE ReadEOF
    BY <1>2 DEF ReadEOF, Quiet, Ended, pipes, history
  <1>3. CASE WriteFrame
    BY <1>3 DEF WriteFrame, PutUnit, Quiet, Complete, Ended
  <1>4. CASE \E f \in Frame : Send(f)
    BY <1>4 DEF Send, Quiet, SendStep, core, history
  <1>5. CASE CloseInput \/ Drain \/ CloseOutput
    BY <1>5 DEF CloseInput, Drain, CloseOutput, Quiet, core, history
  <1>6. CASE Kill
    BY <1>6 DEF Kill, Quiet, Ended, pipes, history
  <1>7. CASE UNCHANGED vars
    BY <1>7 DEF vars, Quiet, pipes, core, history
  <1>8. QED
    BY <1>1, <1>2, <1>3, <1>4, <1>5, <1>6, <1>7 DEF Next, CoreStep

\* What a session that has not begun looks like.
LEMMA EmptyTypes ==
  /\ <<>> \in Seq(Message) /\ <<>> \in Seq(Response)
  /\ <<>> \in Seq(Unit) /\ Len(<<>>) <= Capacity
  /\ 0 \in 0..MaxFrames
  <1>1. Capacity \in Nat /\ MaxFrames \in Nat
    BY SizeAssumption
  <1>2. QED
    BY <1>1

LEMMA TypeInit == Init => TypeInv
  <1> SUFFICES ASSUME Init PROVE TypeInv
    OBVIOUS
  <1>1. TypeOK
    BY EmptyTypes DEF Init, TypeOK, Ended
  <1>2. AtWork
    BY DEF Init, AtWork
  <1>3. QED
    BY <1>1, <1>2 DEF TypeInv

LEMMA TypeStep == TypeInv /\ [Next]_vars => TypeInv'
  <1> SUFFICES ASSUME TypeInv, [Next]_vars PROVE TypeInv'
    OBVIOUS
  <1> USE SizeAssumption
  <1> USE DEF TypeInv, TypeOK, AtWork, Ended
  <1>1. CASE Open
    BY <1>1 DEF Open, pipes, history
  <1>2. CASE ReadFrame
    <2>1. Head(toCore) \in Message /\ toCore' \in Seq(Message)
      BY <1>2 DEF ReadFrame
    <2>2. current' = Head(toCore) /\ taken' \in Seq(Message) /\ written' \in Nat
      BY <1>2, <2>1 DEF ReadFrame
    <2>3. \/ pc' \in Ended /\ UNCHANGED <<shaken, reply>>
          \/ Handle(Head(toCore))
      BY <1>2 DEF ReadFrame, EndOf
    <2>4. /\ pc' \in {"operating", "writing"} \union Ended
          /\ shaken' \in BOOLEAN /\ reply' \in Response \union {None}
          /\ pc' = "operating" => /\ shaken'
                                  /\ Head(toCore).frame.kind = "request"
                                  /\ Head(toCore).frame.method \in Operation
          /\ pc' = "writing" => reply' \in Response
      BY <2>1, <2>3, Handled
    <2>5. QED
      BY <1>2, <2>1, <2>2, <2>4 DEF ReadFrame
  <1>3. CASE ReadEOF
    BY <1>3 DEF ReadEOF, pipes, history
  <1>4. CASE Perform
    <2>1. current \in Message /\ current.id \in 1..MaxFrames
      BY <1>4, Performed DEF Message
    <2>2. QED
      BY <1>4, <2>1, Performed DEF pipes
  <1>5. CASE WriteFrame
    <2>1. CASE PutUnit
      <3>1. [reply |-> reply, part |-> written + 1] \in Unit
        BY <1>5 DEF WriteFrame, Unit
      <3>2. fromCore' \in Seq(Unit) /\ written' \in Nat
        BY <2>1, <3>1 DEF PutUnit
      <3>3. Len(fromCore') <= Capacity
        BY <1>5, <2>1 DEF WriteFrame, PutUnit
      <3>4. replies' \in Seq(Response) /\ pc' \in {"writing", "reading"}
        <4>1. replies \in Seq(Response) /\ reply \in Response /\ pc = "writing"
          BY <1>5 DEF WriteFrame
        <4>2. \/ replies' = Append(replies, reply) /\ pc' = "reading"
              \/ UNCHANGED <<replies, pc>>
          BY <2>1 DEF PutUnit
        <4>3. Append(replies, reply) \in Seq(Response)
          BY <4>1
        <4>4. CASE replies' = Append(replies, reply) /\ pc' = "reading"
          BY <4>3, <4>4
        <4>5. CASE UNCHANGED <<replies, pc>>
          BY <4>1, <4>5
        <4>6. QED
          BY <4>2, <4>4, <4>5
      <3>5. QED
        BY <1>5, <3>2, <3>3, <3>4 DEF WriteFrame
    <2>2. CASE pc' = "failed" /\ UNCHANGED <<fromCore, written, replies>>
      BY <1>5, <2>2 DEF WriteFrame
    <2>3. QED
      BY <1>5, <2>1, <2>2 DEF WriteFrame
  <1>6. CASE Spawn
    <2>1. TypeOK'
      BY <1>6, EmptyTypes DEF Spawn, Reset
    <2>2. AtWork'
      BY <1>6 DEF Spawn, Reset
    <2>3. QED
      BY <2>1, <2>2
  <1>7. ASSUME NEW f \in Frame, Send(f) PROVE TypeInv'
    <2>1. sent + 1 \in 1..MaxFrames
      BY <1>7 DEF Send
    <2>2. [id |-> sent + 1, frame |-> f] \in Message
      BY <2>1 DEF Message
    <2>3. toCore' \in Seq(Message)
      BY <1>7, <2>2 DEF Send
    <2>4. QED
      BY <1>7, <2>1, <2>3 DEF Send, core, history
  <1>8. CASE CloseInput \/ CloseOutput
    BY <1>8 DEF CloseInput, CloseOutput, core, history
  <1>9. CASE Drain
    <2>1. Head(fromCore) \in Unit /\ fromCore' \in Seq(Unit) /\ Len(fromCore') <= Capacity
      BY <1>9 DEF Drain
    <2>2. received' \in Seq(Unit)
      BY <1>9, <2>1 DEF Drain
    <2>3. QED
      BY <1>9, <2>1, <2>2 DEF Drain, core, history
  <1>10. CASE Kill
    BY <1>10 DEF Kill, pipes, history
  <1>11. CASE UNCHANGED vars
    BY <1>11 DEF vars, pipes, core, history
  <1>12. QED
    BY <1>1, <1>2, <1>3, <1>4, <1>5, <1>6, <1>7, <1>8, <1>9, <1>10, <1>11
    DEF Next, CoreStep

\* Every variable of the session keeps its type, the pipe never holds more
\* than its capacity (Serve, WriteFrame, ReadFrame).
THEOREM SessionTyped == Spec => []TypeOK
  <1>1. TypeInv => TypeOK
    BY DEF TypeInv
  <1>2. QED
    BY <1>1, TypeInit, TypeStep, PTL DEF Spec

-----------------------------------------------------------------------------
(* Faults. *)

LEMMA FaultStep ==
  TypeInv /\ FaultEndsSession /\ [Next]_vars => FaultEndsSession'
  <1> SUFFICES ASSUME TypeInv, FaultEndsSession, [Next]_vars
               PROVE  FaultEndsSession'
    OBVIOUS
  <1> USE DEF FaultEndsSession, Ended
  <1>1. CASE Quiet
    BY <1>1 DEF Quiet
  <1>2. CASE ReadFrame
    <2> DEFINE m == Head(toCore)
    <2>1. pc = "reading" /\ taken' = Append(taken, m) /\ taken \in Seq(Message)
      BY <1>2 DEF ReadFrame, TypeInv, TypeOK
    <2>2. m.frame.kind \in FramingFault => pc' \in Ended
      <3>1. m.frame.kind \in FramingFault => pc' = EndOf(m.frame.kind) \/ Handle(m)
        BY <1>2 DEF ReadFrame
      <3>2. m.frame.kind \in FramingFault => ~Handle(m)
        BY DEF Handle, FramingFault, Truncated
      <3>3. QED
        BY <3>1, <3>2 DEF EndOf
    <2>3. \A k \in 1..Len(taken) : taken[k].frame.kind \notin FramingFault
      BY <2>1
    <2> HIDE DEF m
    <2>4. QED
      BY <2>1, <2>2, <2>3
  <1>3. CASE Perform
    BY <1>3, Performed
  <1>4. CASE Complete
    BY <1>4 DEF Complete
  <1>5. CASE Spawn
    BY <1>5 DEF Spawn, Reset
  <1>6. QED
    BY <1>1, <1>2, <1>3, <1>4, <1>5, StepKinds

\* After a framing fault nothing more is read: the loop of Serve returns on
\* every error of ReadFrame.
THEOREM FaultsEnd == Spec => []FaultEndsSession
  <1>1. Init => FaultEndsSession
    BY DEF Init, FaultEndsSession
  <1>2. QED
    BY <1>1, TypeInit, TypeStep, FaultStep, PTL DEF Spec

-----------------------------------------------------------------------------
(* Order. *)

\* Frames are numbered as they are sent.
Numbered ==
  /\ sent = Len(taken) + Len(toCore)
  /\ \A k \in 1..Len(taken) : taken[k].id = k
  /\ \A k \in 1..Len(toCore) : toCore[k].id = Len(taken) + k

\* One frame at most is without its response, and it is the current one.
InTurn ==
  /\ Len(replies) <= Len(taken) /\ Len(taken) <= Len(replies) + 1
  /\ pc \in {"opening", "reading"} => Len(taken) = Len(replies)
  /\ pc \in {"operating", "writing"} =>
       Len(taken) = Len(replies) + 1 /\ current = taken[Len(taken)]
  /\ pc = "writing" => reply.id = ReplyId(current)

OrderInv == Numbered /\ InTurn /\ AnswersInOrder

LEMMA NumberedStep == TypeInv /\ Numbered /\ [Next]_vars => Numbered'
  <1> SUFFICES ASSUME TypeInv, Numbered, [Next]_vars PROVE Numbered'
    OBVIOUS
  <1> USE DEF Numbered
  <1>0. /\ toCore \in Seq(Message) /\ taken \in Seq(Message)
        /\ sent \in Nat /\ Len(taken) \in Nat /\ Len(toCore) \in Nat
    BY SizeAssumption DEF TypeInv, TypeOK
  <1>1. CASE Quiet
    <2>1. CASE UNCHANGED <<toCore, sent>>
      BY <1>1, <2>1 DEF Quiet
    <2>2. CASE SendStep
      <3>1. PICK f \in Frame : toCore' = Append(toCore, [id |-> sent + 1, frame |-> f])
        BY <2>2 DEF SendStep
      <3>2. /\ Len(toCore') = Len(toCore) + 1
            /\ \A k \in 1..Len(toCore) : toCore'[k] = toCore[k]
            /\ toCore'[Len(toCore) + 1].id = sent + 1
        <4> DEFINE message == [id |-> sent + 1, frame |-> f]
        <4>1. sent + 1 \in 1..MaxFrames
          BY <1>0, <2>2, SizeAssumption DEF SendStep
        <4>2. message \in Message /\ message.id = sent + 1
          BY <4>1 DEF Message
        <4>3. toCore' = Append(toCore, message)
          BY <3>1
        <4> HIDE DEF message
        <4>4. /\ Len(toCore') = Len(toCore) + 1
              /\ \A k \in 1..Len(toCore) : toCore'[k] = toCore[k]
              /\ toCore'[Len(toCore) + 1] = message
          BY <1>0, <4>2, <4>3
        <4>5. QED
          BY <4>2, <4>4
      <3>3. sent' = sent + 1 /\ taken' = taken
        BY <1>1, <2>2 DEF Quiet, SendStep
      <3>4. \A k \in 1..Len(toCore') : toCore'[k].id = Len(taken') + k
        <4> SUFFICES ASSUME NEW k \in 1..Len(toCore') PROVE toCore'[k].id = Len(taken') + k
          OBVIOUS
        <4>1. CASE k = Len(toCore) + 1
          BY <1>0, <3>2, <3>3, <4>1
        <4>2. CASE k \in 1..Len(toCore)
          BY <1>0, <3>2, <3>3, <4>2
        <4>3. QED
          BY <1>0, <3>2, <4>1, <4>2
      <3>5. QED
        BY <1>0, <3>2, <3>3, <3>4
    <2>3. QED
      BY <1>1, <2>1, <2>2 DEF Quiet
  <1>2. CASE ReadFrame
    <2>1. /\ toCore # <<>> /\ toCore' = Tail(toCore) /\ sent' = sent
          /\ taken' = Append(taken, Head(toCore))
      BY <1>2 DEF ReadFrame
    <2>2. /\ Len(toCore') = Len(toCore) - 1 /\ Len(toCore) > 0
          /\ \A k \in 1..Len(toCore') : toCore'[k] = toCore[k + 1]
          /\ Head(toCore) = toCore[1]
      BY <1>0, <2>1
    <2>3. /\ Len(taken') = Len(taken) + 1
          /\ \A k \in 1..Len(taken) : taken'[k] = taken[k]
          /\ taken'[Len(taken) + 1] = toCore[1]
      BY <1>0, <2>1, <2>2
    <2>4. toCore[1].id = Len(taken) + 1
      BY <1>0, <2>2
    <2>5. \A k \in 1..Len(taken') : taken'[k].id = k
      BY <1>0, <2>3, <2>4
    <2>6. \A k \in 1..Len(toCore') : toCore'[k].id = Len(taken') + k
      <3> SUFFICES ASSUME NEW k \in 1..Len(toCore') PROVE toCore'[k].id = Len(taken') + k
        OBVIOUS
      <3>1. k + 1 \in 1..Len(toCore) /\ toCore'[k] = toCore[k + 1]
        BY <1>0, <2>2
      <3>2. toCore[k + 1].id = Len(taken) + (k + 1)
        BY <3>1
      <3>3. QED
        BY <1>0, <2>3, <3>1, <3>2
    <2>7. QED
      BY <1>0, <2>1, <2>2, <2>3, <2>5, <2>6
  <1>3. CASE Perform
    BY <1>3, Performed DEF pipes
  <1>4. CASE Complete
    BY <1>4 DEF Complete
  <1>5. CASE Spawn
    BY <1>5 DEF Spawn, Reset
  <1>6. QED
    BY <1>1, <1>2, <1>3, <1>4, <1>5, StepKinds

\* What is read of ReadFrame when the order of the session is at stake.
LEMMA Taking ==
  ASSUME TypeInv, ReadFrame
  PROVE  /\ pc = "reading" /\ Head(toCore) \in Message
         /\ taken' = Append(taken, Head(toCore)) /\ current' = Head(toCore)
         /\ UNCHANGED <<replies, performed>>
         /\ \/ pc' \in Ended /\ UNCHANGED <<shaken, reply>>
            \/ Handle(Head(toCore))
  <1>1. toCore \in Seq(Message) /\ toCore # <<>>
    BY DEF TypeInv, TypeOK, ReadFrame
  <1>2. Head(toCore) \in Message
    BY <1>1
  <1>3. QED
    BY <1>2 DEF ReadFrame, EndOf, Ended

LEMMA OrderStep == TypeInv /\ OrderInv /\ [Next]_vars => OrderInv'
  <1> SUFFICES ASSUME TypeInv, OrderInv, [Next]_vars PROVE (InTurn /\ AnswersInOrder)'
    BY NumberedStep DEF OrderInv
  <1>0. /\ taken \in Seq(Message) /\ replies \in Seq(Response)
        /\ Len(taken) \in Nat /\ Len(replies) \in Nat
    BY DEF TypeInv, TypeOK
  <1> USE DEF OrderInv, InTurn, AnswersInOrder, Ended
  <1>1. CASE Quiet
    BY <1>1 DEF Quiet
  <1>2. CASE ReadFrame
    <2> DEFINE m == Head(toCore)
    <2>1. /\ pc = "reading" /\ taken' = Append(taken, m) /\ current' = m
          /\ m \in Message /\ replies' = replies
      BY <1>2, Taking
    <2>2. /\ pc' \in {"operating", "writing"} \union Ended
          /\ pc' = "writing" => reply'.id = ReplyId(m)
      BY <1>2, Taking, Handled DEF TypeInv, TypeOK
    <2> HIDE DEF m
    <2>3. /\ Len(taken') = Len(taken) + 1 /\ taken'[Len(taken')] = m
          /\ \A k \in 1..Len(taken) : taken'[k] = taken[k]
      BY <1>0, <2>1
    <2>4. Len(taken) = Len(replies)
      BY <2>1
    <2>5. QED
      BY <1>0, <2>1, <2>2, <2>3, <2>4 DEF ReplyId
  <1>3. CASE Perform
    <2>1. ReplyId(current) = current.id
      BY <1>3, Performed DEF TypeInv, AtWork, ReplyId
    <2>2. QED
      BY <1>3, <2>1, Performed DEF ReplyId
  <1>4. CASE Complete
    <2>1. /\ pc = "writing" /\ pc' = "reading" /\ replies' = Append(replies, reply)
          /\ taken' = taken /\ current' = current
      BY <1>4 DEF Complete
    <2>2. reply \in Response
      BY <2>1 DEF TypeInv, AtWork
    <2>3. /\ Len(replies') = Len(replies) + 1 /\ replies'[Len(replies) + 1] = reply
          /\ \A k \in 1..Len(replies) : replies'[k] = replies[k]
      BY <1>0, <2>1, <2>2
    <2>4. taken[Len(taken)].id = Len(taken) /\ Len(taken) = Len(replies) + 1
          /\ reply.id = ReplyId(taken[Len(replies) + 1])
      BY <1>0, <2>1 DEF Numbered
    <2>5. QED
      BY <1>0, <2>1, <2>3, <2>4 DEF ReplyId
  <1>5. CASE Spawn
    BY <1>5 DEF Spawn, Reset
  <1>6. QED
    BY <1>1, <1>2, <1>3, <1>4, <1>5, StepKinds

LEMMA OrderInit == Init => OrderInv
  BY DEF Init, OrderInv, Numbered, InTurn, AnswersInOrder

\* Responses leave in the order of the frames, one for each, with its id
\* (the loop of Serve).
THEOREM AnswersAreInOrder == Spec => []AnswersInOrder
  <1>1. OrderInv => AnswersInOrder
    BY DEF OrderInv
  <1>2. QED
    BY <1>1, TypeInit, TypeStep, OrderInit, OrderStep, PTL DEF Spec

-----------------------------------------------------------------------------
(* The handshake. *)

Accepted(k) == Shook(k) /\ taken[k].frame.params = "valid"

\* The acceptance of a handshake is being written.
Accepting == pc = "writing" /\ Accepts(current, reply)

\* An open session has sent the acceptance or is about to; a session that is
\* not open has not; and there is never a second one.
Opened ==
  shaken /\ pc \notin Ended =>
    \/ \E k \in 1..Len(replies) : Accepted(k)
    \/ Accepting /\ current.frame.params = "valid"

Unopened == ~shaken => ~Accepting /\ \A k \in 1..Len(replies) : ~Shook(k)

Once == Accepting => \A k \in 1..Len(replies) : ~Shook(k)

GateInv == Opened /\ Unopened /\ Once /\ HandshakeFirst /\ SingleHandshake

\* As long as the process lives, what has been exchanged stays.
LEMMA ExchangesStay ==
  ASSUME TypeInv, OrderInv, Quiet \/ ReadFrame \/ Perform \/ Complete
  PROVE  /\ Len(replies) \in Nat /\ Len(replies') \in {Len(replies), Len(replies) + 1}
         /\ \A k \in 1..Len(replies) : /\ Shook(k)' <=> Shook(k)
                                       /\ Accepted(k)' <=> Accepted(k)
  <1>0. /\ taken \in Seq(Message) /\ replies \in Seq(Response)
        /\ Len(taken) \in Nat /\ Len(replies) \in Nat /\ Len(replies) <= Len(taken)
    BY DEF TypeInv, TypeOK, OrderInv, InTurn
  <1>1. CASE Quiet
    BY <1>0, <1>1 DEF Quiet, Shook, Accepted
  <1>2. CASE ReadFrame
    <2>1. /\ \A k \in 1..Len(taken) : taken'[k] = taken[k]
          /\ replies' = replies
      BY <1>0, <1>2, Taking
    <2>2. QED
      BY <1>0, <2>1 DEF Shook, Accepted
  <1>3. CASE Perform
    BY <1>0, <1>3, Performed DEF Shook, Accepted
  <1>4. CASE Complete
    <2>1. reply \in Response /\ replies' = Append(replies, reply) /\ taken' = taken
      BY <1>4 DEF Complete, TypeInv, AtWork
    <2>2. /\ Len(replies') = Len(replies) + 1
          /\ \A k \in 1..Len(replies) : replies'[k] = replies[k]
      BY <1>0, <2>1
    <2>3. QED
      BY <1>0, <2>1, <2>2 DEF Shook, Accepted
  <1>5. QED
    BY <1>1, <1>2, <1>3, <1>4

LEMMA GateStep == TypeInv /\ OrderInv /\ GateInv /\ [Next]_vars => GateInv'
  <1> SUFFICES ASSUME TypeInv, OrderInv, GateInv, [Next]_vars PROVE GateInv'
    OBVIOUS
  <1> USE DEF GateInv, Opened, Unopened, Once, HandshakeFirst, SingleHandshake, Accepting
  <1>1. CASE Quiet
    <2>1. /\ pc' \notin Ended => pc \notin Ended
          /\ pc' = "writing" <=> pc = "writing" /\ pc' = pc
          /\ Len(replies') = Len(replies)
          /\ UNCHANGED <<shaken, current, reply, performed>>
      BY <1>1 DEF Quiet, Ended
    <2>2. \A k \in 1..Len(replies) : (Shook(k)' <=> Shook(k)) /\ (Accepted(k)' <=> Accepted(k))
      BY <1>1, ExchangesStay
    <2>3. pc = "writing" /\ pc' # pc => pc' \in Ended
      BY <1>1 DEF Quiet
    <2>4. Opened'
      BY <2>1, <2>2, <2>3
    <2>5. Unopened' /\ Once'
      BY <2>1, <2>2
    <2>6. (HandshakeFirst /\ SingleHandshake)'
      BY <1>1 DEF Quiet, Shook
    <2>7. QED
      BY <2>4, <2>5, <2>6
  <1>2. CASE ReadFrame
    <2> DEFINE m == Head(toCore)
    <2>1. /\ pc = "reading" /\ m \in Message /\ current' = m
          /\ replies' = replies /\ performed' = performed /\ shaken \in BOOLEAN
      BY <1>2, Taking DEF TypeInv, TypeOK
    <2>2. /\ \A k \in 1..Len(replies) : (Shook(k)' <=> Shook(k)) /\ (Accepted(k)' <=> Accepted(k))
      BY <1>2, ExchangesStay
    <2>3. \/ pc' \in Ended /\ UNCHANGED shaken
          \/ pc' = "operating" /\ UNCHANGED shaken
          \/ pc' = "writing" /\ ~Accepts(m, reply') /\ UNCHANGED shaken
          \/ /\ pc' = "writing" /\ Accepts(m, reply') /\ m.frame.params = "valid"
             /\ ~shaken /\ shaken'
      BY <1>2, <2>1, Taking, Handled
    <2>4. pc \notin Ended /\ ~Accepting
      BY <2>1 DEF Ended
    <2> HIDE DEF m
    <2>5. Opened'
      BY <2>1, <2>2, <2>3, <2>4
    <2>6. Unopened' /\ Once'
      BY <2>1, <2>2, <2>3, <2>4 DEF Ended
    <2>7. \A n \in performed : \E k \in 1..Len(replies) : k < n /\ Accepted(k)
      BY DEF Accepted
    <2>8. \A n \in performed' : \E k \in 1..Len(replies') : k < n /\ Accepted(k)'
      BY <2>1, <2>2, <2>7
    <2>9. HandshakeFirst'
      BY <2>8 DEF Accepted
    <2>10. SingleHandshake'
      BY <2>1, <2>2
    <2>11. QED
      BY <2>5, <2>6, <2>9, <2>10
  <1>3. CASE Perform
    <2>1. /\ pc = "operating" /\ pc' = "writing" /\ ~Accepts(current, reply')
          /\ performed' \in {performed, performed \union {current.id}}
          /\ UNCHANGED <<shaken, current, taken, replies>>
      BY <1>3, Performed
    <2>2. /\ current.id = Len(replies) + 1 /\ Len(replies) \in Nat
      BY <2>1 DEF OrderInv, Numbered, InTurn, TypeInv, TypeOK
    <2>3. shaken /\ pc \notin Ended /\ ~Accepting
      BY <2>1 DEF TypeInv, AtWork, Ended
    <2>4. \E k \in 1..Len(replies) : Accepted(k)
      BY <2>3
    <2>5. \A n \in performed' : \E k \in 1..Len(replies) : k < n /\ Accepted(k)
      BY <2>1, <2>2, <2>4 DEF Accepted
    <2>6. HandshakeFirst'
      BY <2>1, <2>5 DEF Accepted, Shook
    <2>7. Opened'
      BY <2>1, <2>4 DEF Accepted, Shook
    <2>8. Unopened' /\ Once' /\ SingleHandshake'
      BY <2>1, <2>3 DEF Shook
    <2>9. QED
      BY <2>6, <2>7, <2>8
  <1>4. CASE Complete
    <2>0. PICK last \in Nat : last = Len(replies) + 1
      BY ExchangesStay, <1>4
    <2>1. /\ pc = "writing" /\ pc' = "reading" /\ taken' = taken
          /\ replies' = Append(replies, reply) /\ reply \in Response
          /\ UNCHANGED <<shaken, performed>>
      BY <1>4 DEF Complete, TypeInv, AtWork
    <2>2. replies \in Seq(Response) /\ Len(replies) \in Nat
      BY DEF TypeInv, TypeOK
    <2>3. Len(replies') = last /\ replies'[last] = reply /\ current = taken[last]
      BY <2>0, <2>1, <2>2 DEF OrderInv, InTurn
    <2>4. /\ Shook(last)' <=> Accepting
          /\ Accepted(last)' <=> Accepting /\ current.frame.params = "valid"
      BY <2>1, <2>3 DEF Shook, Accepted, Accepts
    <2>5. \A k \in 1..Len(replies) : (Shook(k)' <=> Shook(k)) /\ (Accepted(k)' <=> Accepted(k))
      BY <1>4, ExchangesStay
    <2>6. 1..Len(replies') = 1..Len(replies) \union {last}
      BY <2>0, <2>2, <2>3
    <2>7. pc \notin Ended /\ ~Accepting'
      BY <2>1 DEF Ended
    <2>8. Opened'
      BY <2>1, <2>4, <2>5, <2>6, <2>7
    <2>9. Unopened' /\ Once' /\ SingleHandshake'
      BY <2>1, <2>4, <2>5, <2>6, <2>7
    <2>10. \A n \in performed : \E k \in 1..Len(replies) : k < n /\ Accepted(k)
      BY DEF Accepted
    <2>11. \A n \in performed' : \E k \in 1..Len(replies') : k < n /\ Accepted(k)'
      BY <2>1, <2>5, <2>6, <2>10
    <2>12. HandshakeFirst'
      BY <2>11 DEF Accepted
    <2>13. QED
      BY <2>8, <2>9, <2>12
  <1>5. CASE Spawn
    BY <1>5 DEF Spawn, Reset, Shook
  <1>6. QED
    BY <1>1, <1>2, <1>3, <1>4, <1>5, StepKinds

LEMMA SessionInvariants == Spec => [](TypeInv /\ OrderInv /\ GateInv)
  <1>1. Init => GateInv
    BY DEF Init, GateInv, Opened, Unopened, Once, HandshakeFirst, SingleHandshake,
           Accepting, Ended
  <1>2. QED
    BY <1>1, TypeInit, TypeStep, OrderInit, OrderStep, GateStep, PTL DEF Spec

\* No operation is carried out before the acceptance of a valid handshake has
\* been written completely (Server.handle).
THEOREM HandshakeGates == Spec => []HandshakeFirst
  BY SessionInvariants, PTL DEF GateInv

\* A process accepts one handshake in its life.
THEOREM HandshakeOnce == Spec => []SingleHandshake
  BY SessionInvariants, PTL DEF GateInv

\* One handshake first, and nothing after a framing fault (Serve).
THEOREM ProtocolIsKept == Spec => []SessionProtocol
  BY HandshakeGates, HandshakeOnce, FaultsEnd, PTL DEF SessionProtocol
-----------------------------------------------------------------------------
(* The output. *)

\* What has left the process since its start, read or not.
Stream == received \o fromCore

\* A unit begins a response after a whole one or goes on with the last.
Follows(u, v) ==
  IF u.part = u.reply.size THEN v.part = 1 ELSE v = [u EXCEPT !.part = @ + 1]

Linked(s) ==
  \A i \in 1..Len(s) : (i = 1 => s[i].part = 1) /\ (i > 1 => Follows(s[i-1], s[i]))

Whole(s) == s # <<>> => s[Len(s)].part = s[Len(s)].reply.size

\* The last unit is the latest one of the response that is being written.
InPart(s) ==
  /\ s # <<>> /\ s[Len(s)] = [reply |-> reply, part |-> written]
  /\ written # reply.size /\ reply.size <= MaxResponse

\* A response is cut only where the process was killed or its pipe was closed.
OutputInv ==
  /\ Linked(Stream)
  /\ pc \notin {"writing", "failed", "killed"} \/ (pc = "failed" /\ outputOpen) => Whole(Stream)
  /\ pc = "operating" => written = 0
  /\ pc = "writing" => IF written = 0 THEN Whole(Stream) ELSE InPart(Stream)

LEMMA StreamGrows ==
  ASSUME NEW s \in Seq(Unit), NEW u \in Unit, Linked(s),
         IF s = <<>> THEN u.part = 1 ELSE Follows(s[Len(s)], u)
  PROVE  Linked(Append(s, u)) /\ Append(s, u) # <<>> /\ Append(s, u)[Len(Append(s, u))] = u
  <1> DEFINE t == Append(s, u)
  <1>1. /\ Len(t) = Len(s) + 1 /\ Len(s) \in Nat /\ t[Len(s) + 1] = u
        /\ \A i \in 1..Len(s) : t[i] = s[i]
        /\ s # <<>> <=> Len(s) >= 1
        /\ t # <<>> /\ t[Len(t)] = u
    OBVIOUS
  <1> HIDE DEF t
  <1>2. Linked(t)
    <2> SUFFICES ASSUME NEW i \in 1..Len(t)
                 PROVE  (i = 1 => t[i].part = 1) /\ (i > 1 => Follows(t[i-1], t[i]))
      BY DEF Linked
    <2>1. CASE i \in 1..Len(s)
      BY <1>1, <2>1 DEF Linked
    <2>2. CASE i = Len(s) + 1
      BY <1>1, <2>2
    <2>3. QED
      BY <1>1, <2>1, <2>2
  <1>3. QED
    BY <1>1, <1>2 DEF t

LEMMA StreamTyped ==
  TypeInv => Stream \in Seq(Unit) /\ received \in Seq(Unit) /\ fromCore \in Seq(Unit)
  BY DEF TypeInv, TypeOK, Stream

\* A unit put into the pipe, by the response that is being written.
LEMMA UnitWritten ==
  ASSUME TypeInv, OutputInv, pc = "writing", reply.size <= MaxResponse, PutUnit,
         UNCHANGED <<received, reply, outputOpen>>
  PROVE  OutputInv'
  <1> DEFINE u == [reply |-> reply, part |-> written + 1]
  <1>1. /\ u \in Unit /\ u.part = written + 1 /\ u.reply = reply /\ written \in Nat
        /\ Stream \in Seq(Unit) /\ received \in Seq(Unit) /\ fromCore \in Seq(Unit)
    BY StreamTyped DEF TypeInv, TypeOK, AtWork, Unit
  <1>2. Stream' = Append(Stream, u)
    <2>1. fromCore' = Append(fromCore, u) /\ received' = received
      BY DEF PutUnit
    <2> HIDE DEF u
    <2>2. received \o Append(fromCore, u) = Append(received \o fromCore, u)
      BY <1>1
    <2>3. QED
      BY <2>1, <2>2 DEF Stream
  <1>3. IF Stream = <<>> THEN u.part = 1 ELSE Follows(Stream[Len(Stream)], u)
    <2>1. CASE written = 0
      BY <1>1, <2>1 DEF OutputInv, Whole, Follows
    <2>2. CASE written # 0
      <3>1. InPart(Stream)
        BY <2>2 DEF OutputInv
      <3>2. QED
        BY <3>1 DEF InPart, Follows
    <2>3. QED
      BY <2>1, <2>2
  <1>4. Linked(Stream') /\ Stream' # <<>> /\ Stream'[Len(Stream')] = u
    <2> HIDE DEF u
    <2>1. QED
      BY <1>1, <1>2, <1>3, StreamGrows DEF OutputInv
  <1>5. CASE written + 1 = reply.size
    <2>1. pc' = "reading"
      BY <1>5 DEF PutUnit
    <2>2. Whole(Stream)'
      BY <1>4, <1>5 DEF Whole
    <2>3. QED
      BY <1>4, <2>1, <2>2 DEF OutputInv
  <1>6. CASE written + 1 # reply.size
    <2>1. pc' = "writing" /\ written' = written + 1 /\ written' # 0
      BY <1>1, <1>6 DEF PutUnit
    <2>2. InPart(Stream)'
      BY <1>4, <1>6, <2>1 DEF InPart
    <2>3. QED
      BY <1>4, <2>1, <2>2 DEF OutputInv
  <1>7. QED
    BY <1>5, <1>6

LEMMA OutputStep == TypeInv /\ OutputInv /\ [Next]_vars => OutputInv'
  <1> SUFFICES ASSUME TypeInv, OutputInv, [Next]_vars PROVE OutputInv'
    OBVIOUS
  <1> USE DEF Ended
  <1>1. CASE Open \/ ReadEOF \/ Kill
    BY <1>1 DEF Open, ReadEOF, Kill, OutputInv, Stream, Linked, Whole, InPart, pipes, history
  <1>2. CASE ReadFrame
    <2>1. /\ pc = "reading" /\ written' = 0 /\ UNCHANGED <<received, fromCore, outputOpen>>
          /\ pc' \in {"operating", "writing"} \union Ended
      <3>1. pc' \in Ended \/ Handle(Head(toCore))
        BY <1>2, Taking
      <3>2. Head(toCore) \in Message /\ shaken \in BOOLEAN
        BY <1>2, Taking DEF TypeInv, TypeOK
      <3>3. QED
        BY <1>2, <3>1, <3>2, Handled DEF ReadFrame
    <2>2. Stream' = Stream /\ Whole(Stream) /\ Linked(Stream)
      BY <2>1 DEF OutputInv, Stream
    <2>3. QED
      BY <2>1, <2>2 DEF OutputInv, Whole, Linked
  <1>3. CASE Perform
    <2>1. /\ pc = "operating" /\ pc' = "writing" /\ UNCHANGED <<received, fromCore, outputOpen, written>>
      BY <1>3, Performed DEF pipes
    <2>2. QED
      BY <2>1 DEF OutputInv, Stream, Whole, Linked
  <1>4. CASE WriteFrame
    <2>1. CASE reply.size <= MaxResponse /\ PutUnit
      BY <1>4, <2>1, UnitWritten DEF WriteFrame
    <2>2. CASE /\ reply.size > MaxResponse \/ ~outputOpen
               /\ pc' = "failed" /\ UNCHANGED <<fromCore, written, replies>>
      <3>1. /\ pc = "writing" /\ UNCHANGED <<received, outputOpen>> /\ Stream' = Stream
        BY <1>4, <2>2 DEF WriteFrame, Stream
      <3>2. outputOpen => Whole(Stream)
        <4>1. outputOpen => reply.size > MaxResponse
          BY <2>2
        <4>2. reply.size \in Nat /\ MaxResponse \in Nat
          <5>1. reply \in Response
            BY <3>1 DEF TypeInv, AtWork
          <5>2. reply.size \in Sizes \union {1} /\ Sizes \subseteq Nat /\ MaxResponse \in Nat
            BY <5>1, SizeAssumption DEF Response
          <5>3. 1 \in Nat
            OBVIOUS
          <5>4. QED
            BY <5>2, <5>3, Zenon
        <4>3. outputOpen => written = 0
          BY <3>1, <4>1, <4>2 DEF OutputInv, InPart
        <4>4. QED
          BY <3>1, <4>3 DEF OutputInv
      <3>3. QED
        BY <2>2, <3>1, <3>2 DEF OutputInv, Whole, Linked
    <2>3. QED
      BY <1>4, <2>1, <2>2 DEF WriteFrame
  <1>5. CASE Spawn
    <2>1. Stream' = <<>> /\ pc' = "opening"
      BY <1>5 DEF Spawn, Reset, Stream
    <2>2. QED
      BY <2>1 DEF OutputInv, Whole, Linked
  <1>6. CASE Drain
    <2>1. Stream' = Stream
      <3>1. /\ received \in Seq(Unit) /\ fromCore \in Seq(Unit) /\ fromCore # <<>>
            /\ received' = Append(received, Head(fromCore)) /\ fromCore' = Tail(fromCore)
        BY <1>6, StreamTyped DEF Drain
      <3>2. Append(received, Head(fromCore)) \o Tail(fromCore) = received \o fromCore
        BY <3>1
      <3>3. QED
        BY <3>1, <3>2 DEF Stream
    <2>2. QED
      BY <1>6, <2>1 DEF Drain, OutputInv, Whole, Linked, InPart, core
  <1>7. CASE CloseInput \/ CloseOutput \/ UNCHANGED vars \/ \E f \in Frame : Send(f)
    <2>1. UNCHANGED <<received, fromCore, pc, reply, written>> /\ outputOpen' \in {FALSE, outputOpen}
      BY <1>7 DEF CloseInput, CloseOutput, Send, vars, pipes, core, TypeInv, TypeOK
    <2>2. Stream' = Stream
      BY <2>1 DEF Stream
    <2>3. Linked(Stream') <=> Linked(Stream)
      BY <2>2
    <2>4. (Whole(Stream)' <=> Whole(Stream)) /\ (InPart(Stream)' <=> InPart(Stream))
      BY <2>1, <2>2 DEF Whole, InPart
    <2>5. outputOpen' => outputOpen
      BY <2>1
    <2>6. QED
      BY <2>1, <2>2, <2>3, <2>4, <2>5 DEF OutputInv
  <1>8. QED
    BY <1>1, <1>2, <1>3, <1>4, <1>5, <1>6, <1>7 DEF Next, CoreStep

\* What leaves a process that was not killed, into a pipe that was not closed,
\* are whole responses: an oversized one fails before its first byte
\* (WriteFrame, Serve).
THEOREM OutputIsClean == Spec => []CleanOutput
  <1>1. Init => OutputInv
    <2> SUFFICES ASSUME Init PROVE OutputInv
      OBVIOUS
    <2>1. Stream = <<>> /\ pc = "exited"
      BY DEF Init, Stream
    <2>2. QED
      BY <2>1 DEF OutputInv, Whole, Linked
  <1>2. TypeInv /\ OutputInv => CleanOutput
    <2> SUFFICES ASSUME TypeInv, OutputInv, pc \in {"reading", "exited", "failed"}, outputOpen
                 PROVE  CleanOutput
      BY DEF CleanOutput
    <2>1. Linked(Stream) /\ Whole(Stream)
      BY DEF OutputInv
    <2>2. Stream \in Seq(Unit) /\ Stream = received \o fromCore
      BY StreamTyped DEF Stream
    <2> DEFINE s == Stream
    <2>3. \A i \in 1..Len(s) :
            /\ i = 1 => s[i].part = 1
            /\ i > 1 => Follows(s[i-1], s[i])
            /\ i = Len(s) => s[i].part = s[i].reply.size
      BY <2>1, <2>2 DEF Linked, Whole
    <2> HIDE DEF s
    <2>4. QED
      BY <2>2, <2>3 DEF CleanOutput, Follows, s
  <1>3. QED
    BY <1>1, <1>2, TypeInit, TypeStep, OutputStep, PTL DEF Spec
=============================================================================
