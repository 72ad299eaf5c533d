---------------------------- MODULE CoreSession ----------------------------
(***************************************************************************)
(* One atlas-core child process serving one protocol session over its      *)
(* standard input and output (internal/protocol, cmd/atlas-core), and a    *)
(* client that may send anything, close either pipe or kill the process at *)
(* any time.                                                               *)
(*                                                                         *)
(* Input is a sequence of frames: a frame is a request, a payload that     *)
(* DecodeRequest refuses, or one of the framing faults of ReadFrame.       *)
(* Output is a sequence of units, the pieces of a response that fit in the *)
(* pipe one at a time; the pipe holds Capacity of them and the process     *)
(* waits while it is full.                                                 *)
(*                                                                         *)
(* Simplifications.  The n-th frame of a session has id n, and 0 stands    *)
(* for the empty id.  What the operations compute is abstracted to their   *)
(* success and the size of the encoded response.                           *)
(***************************************************************************)
EXTENDS Naturals, Sequences

CONSTANTS
  Operation,     \* methods of the operational allowlist
  Sizes,         \* units an encoded operation result may have
  MaxResponse,   \* MaxResponsePayload, in units
  Capacity,      \* units the output pipe holds
  MaxFrames,     \* bound on the frames a client sends in a session
  None

ASSUME MethodAssumption ==
  Operation \intersect {"core.handshake", "core.status", "unlisted"} = {}

ASSUME SizeAssumption ==
  /\ Sizes \subseteq Nat \ {0}
  /\ {MaxResponse, Capacity} \subseteq Nat \ {0}
  /\ MaxFrames \in Nat

Method == {"core.handshake", "core.status", "unlisted"} \union Operation

\* The stream ends inside the header, right after it, or inside the payload.
Truncated == {"short header", "no payload", "short payload"}

FramingFault == Truncated \union {"zero", "oversized"}

\* "unsupported" is a handshake for another protocol or version.
Frame ==
  [kind : {"request"}, method : Method, params : {"valid", "invalid"}]
  \union [kind : {"request"}, method : {"core.handshake"},
          params : {"unsupported"}]
  \union [kind : {"malformed"} \union FramingFault, method : {"unlisted"},
          params : {"invalid"}]

Message == [id : 1..MaxFrames, frame : Frame]

Code == {"OK", "INVALID_REQUEST", "HANDSHAKE_REQUIRED", "UNSUPPORTED_VERSION",
         "METHOD_NOT_FOUND", "OPERATION_ERROR"}

Response == [id : 0..MaxFrames, code : Code, size : Sizes \union {1}]

\* The part-th unit of a response.
Unit == [reply : Response, part : Nat]

VARIABLES
  \* pipes
  toCore,      \* frames in the input pipe
  inputOpen,   \* the client has not closed its end
  fromCore,    \* units in the output pipe
  outputOpen,  \* the client has not closed its end
  received,    \* units the client has read
  sent,        \* number of frames sent in this session
  \* atlas-core
  pc,
  shaken,      \* sessionState.handshakeComplete
  current,     \* message being handled, or None
  reply,       \* response being written, or None
  written,     \* units of it already in the pipe
  \* history
  taken,       \* messages read, in order
  replies,     \* responses written completely, in order
  performed    \* ids of the operations carried out

pipes   == <<toCore, inputOpen, fromCore, outputOpen, received, sent>>
core    == <<pc, shaken, current, reply, written>>
history == <<taken, replies, performed>>
vars    == <<pipes, core, history>>

Ended == {"exited", "failed", "killed"}

TypeOK ==
  /\ toCore \in Seq(Message)
  /\ fromCore \in Seq(Unit) /\ Len(fromCore) <= Capacity
  /\ received \in Seq(Unit)
  /\ inputOpen \in BOOLEAN /\ outputOpen \in BOOLEAN
  /\ sent \in 0..MaxFrames
  /\ pc \in {"opening", "reading", "operating", "writing"} \union Ended
  /\ shaken \in BOOLEAN
  /\ current \in Message \union {None}
  /\ reply \in Response \union {None}
  /\ written \in Nat
  /\ taken \in Seq(Message)
  /\ replies \in Seq(Response)
  /\ performed \subseteq 1..MaxFrames

\* No process has been started yet: as after one that has exited.
Init ==
  /\ toCore = <<>> /\ fromCore = <<>> /\ received = <<>>
  /\ inputOpen = FALSE /\ outputOpen = FALSE
  /\ sent = 0
  /\ pc = "exited"
  /\ shaken = FALSE /\ current = None /\ reply = None /\ written = 0
  /\ taken = <<>> /\ replies = <<>> /\ performed = {}

-----------------------------------------------------------------------------
(* The server. *)

\* The process opens the runtime before it reads anything, and exits with a
\* failure if that fails.
Open ==
  /\ pc = "opening"
  /\ pc' \in {"reading", "failed"}
  /\ UNCHANGED <<pipes, shaken, current, reply, written, history>>

Answer(m, code, n) ==
  reply' = [id |-> m.id, code |-> code, size |-> n] /\ pc' = "writing"

\* The handshake is complete only when every check has passed.
HandleHandshake(m) ==
  \/ m.frame.params = "invalid" /\ Answer(m, "INVALID_REQUEST", 1) /\ UNCHANGED shaken
  \/ m.frame.params = "unsupported" /\ Answer(m, "UNSUPPORTED_VERSION", 1) /\ UNCHANGED shaken
  \/ m.frame.params = "valid" /\ Answer(m, "OK", 1) /\ shaken' = TRUE

Dispatch_Again(m) ==
  \/ m.frame.method = "core.handshake" /\ HandleHandshake(m)
  \/ /\ m.frame.method \in Operation
     /\ pc' = "operating"
     /\ UNCHANGED <<reply, shaken>>
Dispatch(m) ==
  /\ UNCHANGED shaken
  /\ \/ m.frame.method = "core.handshake" /\ Answer(m, "INVALID_REQUEST", 1)
     \/ /\ m.frame.method = "core.status"
        /\ Answer(m, IF m.frame.params = "valid" THEN "OK" ELSE "INVALID_REQUEST", 1)
     \/ m.frame.method = "unlisted" /\ Answer(m, "METHOD_NOT_FOUND", 1)
     \/ m.frame.method \in Operation /\ pc' = "operating" /\ UNCHANGED reply

HandleRequest(m) ==
  IF shaken THEN Dispatch(m)
  ELSE IF m.frame.method = "core.handshake" THEN HandleHandshake(m)
  ELSE Answer(m, "HANDSHAKE_REQUIRED", 1) /\ UNCHANGED shaken

\* A payload that is refused is answered with the empty id.
Handle_Silent(m) ==
  \/ m.frame.kind = "malformed" /\ pc' = "reading" /\ UNCHANGED <<shaken, reply>>
  \/ m.frame.kind = "request" /\ HandleRequest(m)
Handle(m) ==
  \/ /\ m.frame.kind = "malformed"
     /\ Answer([m EXCEPT !.id = 0], "INVALID_REQUEST", 1)
     /\ UNCHANGED shaken
  \/ m.frame.kind = "request" /\ HandleRequest(m)

\* A stream that ends right after a header looks like a clean end of input:
\* the error of ReadFrame wraps io.EOF.
EndOf(kind) == IF kind = "no payload" THEN "exited" ELSE "failed"

ReadFrame ==
  /\ pc = "reading" /\ toCore # <<>>
  /\ LET m == Head(toCore)
     IN /\ toCore' = Tail(toCore)
        /\ taken' = Append(taken, m)
        /\ current' = m
        /\ written' = 0
        /\ \/ /\ m.frame.kind \in FramingFault
              /\ pc' = EndOf(m.frame.kind)
              /\ UNCHANGED <<shaken, reply>>
           \/ m.frame.kind \notin FramingFault /\ Handle(m)
  /\ UNCHANGED <<inputOpen, fromCore, outputOpen, received, sent, replies, performed>>

ReadEOF ==
  /\ pc = "reading" /\ toCore = <<>> /\ ~inputOpen
  /\ pc' = "exited"
  /\ UNCHANGED <<pipes, shaken, current, reply, written, history>>

\* Runtime.Handle refuses invalid params before it does anything; a read that
\* has no model to read from does not even look at them.
PerformAs(ok, n) ==
  /\ pc = "operating"
  /\ LET valid == current.frame.params = "valid"
     IN /\ IF ~ok THEN Answer(current, "OPERATION_ERROR", 1)
           ELSE IF valid THEN Answer(current, "OK", n)
           ELSE Answer(current, "INVALID_REQUEST", 1)
        /\ performed' = IF valid THEN performed \union {current.id} ELSE performed
  /\ UNCHANGED <<pipes, shaken, current, written, taken, replies>>

Perform == \E ok \in BOOLEAN, n \in Sizes : PerformAs(ok, n)

PutUnit ==
  /\ fromCore' = Append(fromCore, [reply |-> reply, part |-> written + 1])
  /\ written' = written + 1
  /\ IF written + 1 = reply.size
     THEN replies' = Append(replies, reply) /\ pc' = "reading"
     ELSE UNCHANGED <<replies, pc>>

\* An oversized response is refused before its first byte; both that and a
\* broken pipe end the session and the process.
WriteFrame_Unbounded ==
  /\ pc = "writing" /\ reply.size <= MaxResponse /\ PutUnit
  /\ UNCHANGED <<toCore, inputOpen, outputOpen, received, sent, shaken, current,
                 reply, taken, performed>>
WriteFrame_HeaderFirst ==
  /\ pc = "writing"
  /\ \/ /\ (written = 1 /\ reply.size > MaxResponse) \/ ~outputOpen
        /\ pc' = "failed"
        /\ UNCHANGED <<fromCore, written, replies>>
     \/ /\ outputOpen /\ Len(fromCore) < Capacity
        /\ written = 1 => reply.size <= MaxResponse
        /\ PutUnit
  /\ UNCHANGED <<toCore, inputOpen, outputOpen, received, sent, shaken, current,
                 reply, taken, performed>>
WriteFrame ==
  /\ pc = "writing"
  /\ \/ /\ reply.size > MaxResponse \/ ~outputOpen
        /\ pc' = "failed"
        /\ UNCHANGED <<fromCore, written, replies>>
     \/ /\ reply.size <= MaxResponse /\ outputOpen
        /\ Len(fromCore) < Capacity
        /\ PutUnit
  /\ UNCHANGED <<toCore, inputOpen, outputOpen, received, sent, shaken, current,
                 reply, taken, performed>>

CoreStep == Open \/ ReadFrame \/ ReadEOF \/ Perform \/ WriteFrame

-----------------------------------------------------------------------------
(* The client.  It owns the process: it may start a new one, with new       *)
(* pipes, once the previous one has ended.                                  *)

Reset(phase, open) ==
  /\ toCore' = <<>> /\ fromCore' = <<>> /\ received' = <<>>
  /\ inputOpen' = open /\ outputOpen' = open
  /\ sent' = 0
  /\ pc' = phase
  /\ shaken' = FALSE /\ current' = None /\ reply' = None /\ written' = 0
  /\ taken' = <<>> /\ replies' = <<>> /\ performed' = {}

Spawn == pc \in Ended /\ Reset("opening", TRUE)

\* The client is done with a process, dead or alive, and its pipes: the
\* process is killed if it still runs.
Dispose == Reset("exited", FALSE)

\* A truncated frame is the last thing that is sent.
Send(f) ==
  /\ pc \notin Ended /\ inputOpen
  /\ sent < MaxFrames
  /\ sent' = sent + 1
  /\ toCore' = Append(toCore, [id |-> sent + 1, frame |-> f])
  /\ inputOpen' = (f.kind \notin Truncated)
  /\ UNCHANGED <<fromCore, outputOpen, received, core, history>>

CloseInput ==
  /\ inputOpen
  /\ inputOpen' = FALSE
  /\ UNCHANGED <<toCore, fromCore, outputOpen, received, sent, core, history>>

\* Data left in the pipe can be read after the process has ended.
Drain ==
  /\ outputOpen /\ fromCore # <<>>
  /\ received' = Append(received, Head(fromCore))
  /\ fromCore' = Tail(fromCore)
  /\ UNCHANGED <<toCore, inputOpen, outputOpen, sent, core, history>>

CloseOutput ==
  /\ outputOpen
  /\ outputOpen' = FALSE
  /\ UNCHANGED <<toCore, inputOpen, fromCore, received, sent, core, history>>

Kill ==
  /\ pc \notin Ended
  /\ pc' = "killed"
  /\ UNCHANGED <<pipes, shaken, current, reply, written, history>>

Next ==
  \/ CoreStep
  \/ Spawn \/ CloseInput \/ Drain \/ CloseOutput \/ Kill
  \/ \E f \in Frame : Send(f)

Spec == Init /\ [][Next]_vars

\* The process runs while it can, and a client that has not closed the output
\* pipe goes on reading it.  Nothing obliges the client to send, close or kill.
FairSpec == Spec /\ WF_vars(CoreStep) /\ WF_vars(Drain)

-----------------------------------------------------------------------------
(* Safety. *)

\* The k-th response answers the k-th frame, by its id where it has one, and
\* at most one frame is without its response: no frame is skipped, answered
\* twice or answered after a later one.
AnswersInOrder ==
  /\ Len(replies) <= Len(taken) /\ Len(taken) <= Len(replies) + 1
  /\ \A k \in 1..Len(replies) :
       replies[k].id = IF taken[k].frame.kind = "malformed" THEN 0 ELSE taken[k].id

\* The k-th exchange of the session was an accepted handshake.
Shook(k) ==
  taken[k].frame.method = "core.handshake" /\ replies[k].code = "OK"

\* No operation is carried out before the client has been sent the acceptance
\* of a handshake of the exact protocol and version.
HandshakeFirst ==
  \A n \in performed :
    \E k \in 1..Len(replies) :
      k < n /\ Shook(k) /\ taken[k].frame.params = "valid"

\* A process accepts one handshake in its life.
SingleHandshake ==
  \A j, k \in 1..Len(replies) : Shook(j) /\ Shook(k) => j = k

\* After a framing fault nothing more is read or carried out.
FaultEndsSession ==
  \A k \in 1..Len(taken) :
    taken[k].frame.kind \in FramingFault => k = Len(taken) /\ pc \in Ended

\* A session is one handshake, operations, and an end that is kept: nothing
\* is carried out before the one, repeated in it, or done after the other
\* (Serve, Server.handle).
SessionProtocol == HandshakeFirst /\ SingleHandshake /\ FaultEndsSession

\* What the client has read and what is left in the pipe are whole responses,
\* in order, unless the process was killed or the client closed the pipe: no
\* error of the session, an oversized response included, cuts a frame.
CleanOutput ==
  LET stream == received \o fromCore
      Starts(i) == stream[i].part = 1
      Ends(i)   == stream[i].part = stream[i].reply.size
  IN pc \in {"reading", "exited", "failed"} /\ outputOpen =>
       \A i \in 1..Len(stream) :
         /\ i = 1 => Starts(i)
         /\ i > 1 => IF Ends(i-1) THEN Starts(i)
                     ELSE stream[i] = [stream[i-1] EXCEPT !.part = @ + 1]
         /\ i = Len(stream) => Ends(i)

(* Liveness. *)

\* Once the client has closed the input, or broken the stream, the process
\* ends by itself.
SessionEnds == ~inputOpen ~> pc \in Ended

\* Every frame that is sent is answered, or the process ends.
EveryFrameAnswered ==
  \A n \in 1..MaxFrames : sent >= n ~> Len(replies) >= n \/ pc \in Ended

\* A client that sends, reads and closes gets every answer and the end of the
\* process (Serve).
SessionCompletes == SessionEnds /\ EveryFrameAnswered
=============================================================================
