------------------------ MODULE DesktopSessionProofs ------------------------
(***************************************************************************)
(* Safety of DesktopSession for every set of generations, every bound on   *)
(* commands under way, on responses and on the pipe.                       *)
(*                                                                         *)
(* The invariant says how far the one child has come with the one command  *)
(* that the host runs (Exchange), who is in the locked section (Owned,     *)
(* Waiting), and what the page is told of the store and may yet be told    *)
(* (Foreseen, Reported).                                                   *)
(***************************************************************************)
EXTENDS DesktopSession, TLAPS

Answer == [command : Command, ok : BOOLEAN, view : View \union {None}]

TypeOK ==
  /\ fromCore \in Seq(Core!Unit) /\ received \in Seq(Core!Unit)
  /\ reply \in Core!Response \union {None} /\ written \in Nat
  /\ active \in Generation /\ {target, pending} \subseteq Generation \union {None}
  /\ lock \in {"free", "taken"}
  /\ section \in {"outside", "locked", "changed"}
  /\ result \in View \union {None} /\ commits \in Nat
  /\ hostPc \in {"idle", "write", "poll", "check", "collect"}
  /\ queue \in Seq(Command) /\ answers \in Seq(Answer)
  /\ page \in [panel : View \union {None}, success : BOOLEAN]

\* Only the operation of an action is in the locked section.
Owned == section # "outside" => Operating(Action)

\* The host runs the head of the queue, goes on when its child has ended, and
\* starts the next one afresh.
Waiting ==
  /\ hostPc # "idle" => queue # <<>>
  /\ hostPc \in {"idle", "collect"} => pc \in Core!Ended
  /\ hostPc = "idle" => commits = 0

Request(n, m) ==
  [id |-> n, frame |-> [kind |-> "request", method |-> m, params |-> "valid"]]

Fresh(view) == view \in View /\ view.active = active /\ view.rollback = RollbackAvailable

\* A success that answers the command was one: an action has made its one
\* change, a status shows the store as it is.
Truthful(r) ==
  r.id = 2 /\ r.code = "OK" =>
    /\ Head(queue).method \in Action => commits = 1
    /\ Head(queue).method = "pack.status" => Fresh(result)

NothingSaid == \A k \in DOMAIN fromCore : fromCore[k].reply.id # 2

Untouched == section = "outside" /\ commits = 0 /\ NothingSaid

\* The child has not read anything, has read the handshake, has read the command.
Silent ==
  /\ toCore = (IF hostPc = "write" THEN <<>> ELSE Wire)
  /\ pc \in {"opening", "reading"} \union Core!Ended
  /\ Untouched

Shaking ==
  /\ hostPc # "write" /\ toCore = <<Request(2, Head(queue).method)>>
  /\ pc \in {"reading", "writing"} \union Core!Ended
  /\ pc = "writing" => reply \in Core!Response /\ reply.id = 1
  /\ Untouched

Carrying ==
  /\ hostPc # "write" /\ toCore = <<>>
  /\ pc # "opening"
  /\ IF pc = "operating"
     THEN /\ current = Request(2, Head(queue).method)
          /\ commits = (IF section = "changed" THEN 1 ELSE 0)
          /\ NothingSaid
     ELSE /\ section = "outside"
          /\ pc = "writing" => reply \in Core!Response /\ Truthful(reply)
          /\ \A k \in DOMAIN fromCore : Truthful(fromCore[k].reply)

Exchange == hostPc # "idle" => received = <<>> /\ (Silent \/ Shaking \/ Carrying)

\* A status that the page has not seen yet is current, or an action after it
\* is under way.
Queued == \E k \in DOMAIN queue : queue[k].method \in Action
Foreseen ==
  \A k \in DOMAIN answers :
    answers[k].ok /\ answers[k].command.method = "pack.status" =>
      \/ Fresh(answers[k].view)
      \/ Queued
      \/ \E j \in DOMAIN answers : j > k /\ answers[j].command.method \in Action

Reported ==
  page.success => Fresh(page.panel) \/ ActionsUnderWay

IInv == TypeOK /\ Owned /\ Waiting /\ Exchange /\ Foreseen /\ Reported
-----------------------------------------------------------------------------
LEMMA Initially == Init => IInv
  BY DesktopAssumption DEF Init, IInv, TypeOK, Owned, Waiting, Exchange, Foreseen, Reported, Core!Init, Core!Ended

-----------------------------------------------------------------------------
(* What a step leaves alone. *)

\* What is promised of the answers survives whatever leaves the store and the
\* page's side alone.
LEMMA PromisesKept ==
  ASSUME Foreseen, Reported, UNCHANGED <<active, target, queue, answers, page>>
  PROVE  Foreseen' /\ Reported'
  BY DEF Foreseen, Reported, Fresh, RollbackAvailable, Queued, ActionsUnderWay

\* A command that is appended leaves the one that runs where it is.
LEMMA HeadKept ==
  ASSUME NEW q \in Seq(Command), NEW c \in Command
  PROVE  /\ Append(q, c) \in Seq(Command) /\ Append(q, c) # <<>>
         /\ q # <<>> => Head(Append(q, c)) = Head(q)
         /\ \A k \in DOMAIN q : k \in DOMAIN Append(q, c) /\ Append(q, c)[k] = q[k]
         /\ \E k \in DOMAIN Append(q, c) : Append(q, c)[k] = c
  OBVIOUS

\* The exchange only depends on the child, the store, the host and the command
\* that runs.
LEMMA ExchangeKept ==
  ASSUME Exchange, UNCHANGED <<child, active, target, section, result, commits>>,
         hostPc' # "idle" => hostPc # "idle" /\ Head(queue') = Head(queue),
         hostPc' = "write" <=> hostPc = "write"
  PROVE  Exchange'
  <1> SUFFICES ASSUME hostPc' # "idle" PROVE Exchange'
    BY DEF Exchange
  <1>1. hostPc # "idle" /\ Head(queue') = Head(queue) /\ Wire' = Wire
    BY DEF Wire
  <1>2. Untouched' <=> Untouched
    BY DEF Untouched, NothingSaid, child
  <1>3. \A r : Truthful(r)' <=> Truthful(r)
    BY <1>1 DEF Truthful, Fresh, RollbackAvailable
  <1>4. Silent => Silent'
    BY <1>1, <1>2 DEF Silent, child, core
  <1>5. Shaking => Shaking'
    BY <1>1, <1>2 DEF Shaking, child, core
  <1>6. Carrying => Carrying'
    BY <1>1, <1>3 DEF Carrying, child, core, NothingSaid
  <1>7. QED
    BY <1>1, <1>4, <1>5, <1>6 DEF Exchange, child
-----------------------------------------------------------------------------
(* The page. *)

\* A command that the page adds at the end disturbs nothing.
LEMMA InvokeKeeps ==
  ASSUME IInv, NEW m \in Operation, NEW purpose \in {"ask", "confirm"}, Invoke(m, purpose),
         UNCHANGED <<child, store, hostPc>>
  PROVE  /\ queue' \in Seq(Command) /\ Owned' /\ Waiting' /\ Exchange'
         /\ Queued => Queued'
         /\ (\E k \in DOMAIN queue : Acts(queue[k])) => \E k \in DOMAIN queue' : Acts(queue'[k])
         /\ purpose = "confirm" => \E k \in DOMAIN queue' : Acts(queue'[k])
  <1> DEFINE c == [method |-> m, purpose |-> purpose]
  <1>1. c \in Command /\ c.purpose = purpose /\ queue \in Seq(Command) /\ queue' = Append(queue, c)
    BY DEF Command, IInv, TypeOK, Invoke
  <1> HIDE DEF c
  <1>2. /\ queue' \in Seq(Command) /\ queue' # <<>>
        /\ queue # <<>> => Head(queue') = Head(queue)
        /\ \A k \in DOMAIN queue : k \in DOMAIN queue' /\ queue'[k] = queue[k]
        /\ \E k \in DOMAIN queue' : queue'[k] = c
    BY <1>1, HeadKept
  <1>3. Owned' /\ Waiting'
    BY <1>2 DEF IInv, Owned, Waiting, Operating, child, core, store, pack
  <1>4. Exchange'
    BY <1>2, ExchangeKept DEF IInv, Waiting, store, pack
  <1>5. QED
    BY <1>1, <1>2, <1>3, <1>4 DEF Queued, Acts

LEMMA ClickKeeps == ASSUME IInv, Click PROVE IInv'
  <1>1. PICK m \in Operation : Invoke(m, "ask")
    BY DEF Click, Operation
  <1>2. /\ queue' \in Seq(Command) /\ Owned' /\ Waiting' /\ Exchange'
        /\ Queued => Queued'
        /\ (\E k \in DOMAIN queue : Acts(queue[k])) => \E k \in DOMAIN queue' : Acts(queue'[k])
    BY <1>1, InvokeKeeps DEF Click
  <1>3. TypeOK'
    BY <1>2 DEF Click, IInv, TypeOK, child, core, store, pack
  <1>4. Foreseen' /\ Reported'
    BY <1>2 DEF Click, IInv, Foreseen, Reported, Fresh, RollbackAvailable, ActionsUnderWay, store, pack
  <1>5. QED
    BY <1>2, <1>3, <1>4 DEF IInv

\* The first answer goes; what is promised of the others is not about it.
LEMMA TailKept ==
  ASSUME NEW S, NEW q \in Seq(S), q # <<>>
  PROVE  /\ Tail(q) \in Seq(S) /\ Head(q) \in S /\ Head(q) = q[1] /\ 1 \in DOMAIN q
         /\ \A k \in DOMAIN Tail(q) : k + 1 \in DOMAIN q /\ Tail(q)[k] = q[k+1]
         /\ \A k \in DOMAIN q : k > 1 => k - 1 \in DOMAIN Tail(q) /\ Tail(q)[k-1] = q[k]
         /\ \A k \in DOMAIN q : k \in Nat /\ k >= 1
         /\ \A k \in DOMAIN Tail(q) : k \in Nat
  OBVIOUS

LEMMA ResolveKeeps == ASSUME IInv, Resolve PROVE IInv'
  <1> DEFINE a == Head(answers)
  <1>1. /\ answers # <<>> /\ answers \in Seq(Answer) /\ answers' = Tail(answers)
        /\ UNCHANGED <<child, store, hostPc, late>>
    BY DEF IInv, TypeOK, Resolve
  <1>2. /\ answers' \in Seq(Answer) /\ a \in Answer /\ a = answers[1] /\ 1 \in DOMAIN answers
        /\ \A k \in DOMAIN answers' : k + 1 \in DOMAIN answers /\ answers'[k] = answers[k+1]
        /\ \A k \in DOMAIN answers : k > 1 => k - 1 \in DOMAIN answers' /\ answers'[k-1] = answers[k]
        /\ \A k \in DOMAIN answers : k \in Nat /\ k >= 1
        /\ \A k \in DOMAIN answers' : k \in Nat
    BY <1>1, TailKept
  <1>3. /\ Queued => Queued'
        /\ Owned' /\ Waiting' /\ Exchange' /\ queue' \in Seq(Command)
        /\ (\E k \in DOMAIN queue : Acts(queue[k])) => \E k \in DOMAIN queue' : Acts(queue'[k])
    <2>1. CASE UNCHANGED queue
      <3>1. Exchange'
        BY <1>1, <2>1, ExchangeKept DEF IInv, store, pack
      <3>2. Owned' /\ Waiting'
        BY <1>1, <2>1 DEF IInv, Owned, Waiting, Operating, child, core, store, pack
      <3>3. QED
        BY <2>1, <3>1, <3>2 DEF IInv, TypeOK, Queued
    <2>2. CASE Confirmed(a)
      BY <1>1, <2>2, InvokeKeeps DEF Confirmed, Operation
    <2>3. QED
      BY <2>1, <2>2 DEF Resolve
  <1>4. Foreseen'
    <2> SUFFICES ASSUME NEW k \in DOMAIN answers',
                        answers'[k].ok, answers'[k].command.method = "pack.status"
                 PROVE  \/ Fresh(answers[k].view)' \/ Queued'
                        \/ \E j \in DOMAIN answers' : j > k /\ answers'[j].command.method \in Action
      BY DEF Foreseen
    <2>1. k + 1 \in DOMAIN answers /\ answers'[k] = answers[k+1] /\ k \in Nat
      BY <1>2
    <2>2. \/ Fresh(answers[k+1].view) \/ Queued
          \/ \E j \in DOMAIN answers : j > k + 1 /\ answers[j].command.method \in Action
      BY <2>1 DEF IInv, Foreseen
    <2>3. CASE Fresh(answers[k+1].view)
      BY <1>1, <2>1, <2>3 DEF Fresh, RollbackAvailable, store, pack
    <2>4. CASE \E j \in DOMAIN answers : j > k + 1 /\ answers[j].command.method \in Action
      BY <1>2, <2>1, <2>4
    <2>5. QED
      BY <1>3, <2>2, <2>3, <2>4
  <1>5. page' \in [panel : View \union {None}, success : BOOLEAN]
    <2>1. /\ page \in [panel : View \union {None}, success : BOOLEAN]
          /\ a.view \in View \union {None}
      BY <1>2 DEF IInv, TypeOK, Answer
    <2>2. (page.success \/ a.command.purpose = "confirm") \in BOOLEAN
      BY <2>1
    <2>3. \/ UNCHANGED page
          \/ Notify(page.panel, FALSE)
          \/ Notify(a.view, page.success \/ a.command.purpose = "confirm")
      BY DEF Resolve, Confirmed
    <2>4. \A v \in View \union {None}, b \in BOOLEAN :
            Notify(v, b) => page' \in [panel : View \union {None}, success : BOOLEAN]
      BY DEF Notify
    <2>5. page.panel \in View \union {None}
      BY <2>1
    <2>6. QED
      BY <2>1, <2>2, <2>3, <2>4, <2>5, Zenon
  <1>6. Reported'
    <2> SUFFICES ASSUME page'.success
                 PROVE  Fresh(page.panel)' \/ ActionsUnderWay'
      BY DEF Reported
    <2>0. \A v : Fresh(v)' <=> Fresh(v)
      BY <1>1 DEF Fresh, RollbackAvailable, store, pack
    <2>01. (\E k \in DOMAIN queue : Acts(queue[k])) \/ Queued => ActionsUnderWay'
      BY <1>3 DEF Queued, ActionsUnderWay, Acts
    <2>02. (\E j \in DOMAIN answers : j > 1 /\ Acts(answers[j].command)) => ActionsUnderWay'
      BY <1>2 DEF ActionsUnderWay
    <2>1. CASE a.ok /\ a.command.method \in Action
      <3>1. Confirmed(a)
        BY <2>1 DEF Resolve, Action
      <3>2. \E k \in DOMAIN queue' : Acts(queue'[k])
        BY <1>1, <3>1, InvokeKeeps DEF Confirmed, Operation
      <3>3. QED
        BY <3>2 DEF ActionsUnderWay
    <2>2. CASE a.ok /\ a.command.method = "pack.status"
      <3>1. Fresh(a.view) \/ ActionsUnderWay'
        BY <1>2, <2>2, <2>01, <2>02 DEF IInv, Foreseen, Acts
      <3>2. page'.panel = a.view
        BY <2>2 DEF Resolve, Notify, Action
      <3>3. QED
        BY <2>0, <3>1, <3>2
    <2>3. CASE ~a.ok
      <3>1. ~page'.success
        BY <2>3 DEF Resolve, Notify
      <3>2. QED
        BY <3>1
    <2>4. CASE a.ok /\ a.command.method = "search.query"
      <3>1. ~page'.success
        BY <2>4 DEF Resolve, Notify, Action
      <3>2. QED
        BY <3>1
    <2>5. QED
      BY <2>1, <2>2, <2>3, <2>4 DEF Resolve
  <1>7. TypeOK'
    BY <1>1, <1>2, <1>3, <1>5 DEF IInv, TypeOK, child, core, store, pack
  <1>8. QED
    BY <1>3, <1>4, <1>6, <1>7 DEF IInv
-----------------------------------------------------------------------------
(* The child reads and writes. *)

LEMMA WireIs ==
  /\ Wire = <<Request(1, "core.handshake"), Request(2, Head(queue).method)>>
  /\ Wire # <<>> /\ Head(Wire) = Request(1, "core.handshake")
  /\ Tail(Wire) = <<Request(2, Head(queue).method)>>
  BY DEF Wire, Request

LEMMA AnswerMade ==
  ASSUME NEW n \in 1..2, NEW method, NEW code \in Core!Code, NEW size \in Sizes \union {1},
         Core!Answer(Request(n, method), code, size)
  PROVE  reply' \in Core!Response /\ reply'.id = n /\ reply'.code = code /\ pc' = "writing"
  BY DEF Core!Answer, Core!Response, Request, MaxFrames

\* The handshake is answered, the command is carried out or refused.
LEMMA HandshakeHandled ==
  ASSUME Core!Handle(Request(1, "core.handshake"))
  PROVE  reply' \in Core!Response /\ reply'.id = 1 /\ pc' = "writing"
  <1> DEFINE m == Request(1, "core.handshake")
  <1>1. m.frame.kind = "request" /\ m.frame.method = "core.handshake"
    BY DEF Request
  <1>2. PICK code \in Core!Code : Core!Answer(m, code, 1)
    BY <1>1 DEF Core!Handle, Core!HandleRequest, Core!HandleHandshake, Core!Dispatch, Core!Code, Operation
  <1>3. QED
    BY <1>2, AnswerMade

LEMMA CommandHandled ==
  ASSUME NEW method \in Operation, Core!Handle(Request(2, method))
  PROVE  \/ pc' = "operating" /\ UNCHANGED reply
         \/ pc' = "writing" /\ reply' \in Core!Response /\ reply'.id = 2 /\ reply'.code # "OK"
  <1> DEFINE m == Request(2, method)
  <1>1. m.frame.kind = "request" /\ m.frame.method = method
        /\ method \notin {"core.handshake", "core.status", "unlisted"}
    BY DEF Request, Operation
  <1>2. \/ pc' = "operating" /\ UNCHANGED reply
        \/ Core!Answer(m, "HANDSHAKE_REQUIRED", 1)
    BY <1>1 DEF Core!Handle, Core!HandleRequest, Core!Dispatch
  <1>3. QED
    BY <1>2, AnswerMade DEF Core!Code

LEMMA RequestKind ==
  ASSUME NEW n, NEW method
  PROVE  Request(n, method).frame.kind = "request" /\ Request(n, method).frame.method = method
         /\ "request" \notin Core!FramingFault
  BY DEF Request, Core!FramingFault, Core!Truncated

\* What has been promised and said stays so while the store stays.
LEMMA SaidKept ==
  ASSUME UNCHANGED <<store, host, answers, page>>
  PROVE  /\ \A r : Truthful(r)' <=> Truthful(r)
         /\ Wire' = Wire /\ Head(queue') = Head(queue)
         /\ UNCHANGED <<active, target, section, commits, result, lock, pending, hostPc, queue>>
  BY DEF Truthful, Fresh, RollbackAvailable, Wire, store, pack, host

LEMMA OpenKeeps ==
  ASSUME IInv, Core!Open, UNCHANGED <<store, host, answers, page>>
  PROVE  IInv'
  <1>1. /\ pc = "opening" /\ pc' \in {"reading", "failed"}
        /\ UNCHANGED <<toCore, inputOpen, fromCore, received, current, reply, written>>
    BY DEF Core!Open, Core!pipes, Core!history
  <1>2. Exchange'
    <2>1. hostPc # "idle" => Silent
      BY <1>1 DEF IInv, Exchange, Silent, Shaking, Carrying, Core!Ended
    <2>2. Silent => Silent'
      BY <1>1, SaidKept DEF Silent, Untouched, NothingSaid, Core!Ended
    <2>3. QED
      BY <1>1, <2>1, <2>2, SaidKept DEF IInv, Exchange
  <1>3. TypeOK' /\ Owned' /\ Waiting'
    BY <1>1, SaidKept DEF IInv, TypeOK, Owned, Waiting, Operating, Core!Ended
  <1>4. QED
    BY <1>2, <1>3, SaidKept, PromisesKept DEF IInv

LEMMA ReadEOFKeeps ==
  ASSUME IInv, Core!ReadEOF, UNCHANGED <<store, host, answers, page>>
  PROVE  IInv'
  <1>1. /\ pc = "reading" /\ pc' = "exited" /\ toCore = <<>>
        /\ UNCHANGED <<toCore, fromCore, received, current, reply, written>>
    BY DEF Core!ReadEOF, Core!pipes, Core!history
  <1>2. Exchange'
    <2>1. Silent => Silent'
      BY <1>1, SaidKept DEF Silent, Untouched, NothingSaid, Core!Ended
    <2>2. Carrying => Carrying'
      BY <1>1, SaidKept DEF Carrying
    <2>3. ~Shaking
      BY <1>1 DEF Shaking
    <2>4. QED
      BY <1>1, <2>1, <2>2, <2>3, SaidKept DEF IInv, Exchange
  <1>3. TypeOK' /\ Owned' /\ Waiting'
    BY <1>1, SaidKept DEF IInv, TypeOK, Owned, Waiting, Operating, Core!Ended
  <1>4. QED
    BY <1>2, <1>3, SaidKept, PromisesKept DEF IInv

LEMMA ReadFrameKeeps ==
  ASSUME IInv, Core!ReadFrame, UNCHANGED <<store, host, answers, page>>
  PROVE  IInv'
  <1> DEFINE m == Head(toCore)
  <1>1. /\ pc = "reading" /\ toCore # <<>> /\ toCore' = Tail(toCore) /\ current' = m
        /\ written' = 0 /\ UNCHANGED <<fromCore, received>>
        /\ m.frame.kind \notin Core!FramingFault => Core!Handle(m)
    BY DEF Core!ReadFrame
  <1>2. hostPc \notin {"idle", "collect"}
    BY <1>1 DEF IInv, Waiting, Core!Ended
  <1>3. /\ Exchange' /\ reply' \in Core!Response \union {None} /\ (section = "outside")
        /\ pc' \notin Core!Ended
    <2>1. CASE Silent
      <3>1. hostPc # "write" /\ m = Request(1, "core.handshake")
            /\ toCore' = <<Request(2, Head(queue).method)>>
        BY <1>1, <2>1, WireIs DEF Silent
      <3>2. reply' \in Core!Response /\ reply'.id = 1 /\ pc' = "writing"
        BY <1>1, <3>1, RequestKind, HandshakeHandled
      <3>3. Shaking'
        BY <1>1, <2>1, <3>1, <3>2, SaidKept DEF Silent, Shaking, Untouched, NothingSaid
      <3>4. Exchange'
        BY <1>1, <1>2, <3>3 DEF IInv, Exchange
      <3>5. section = "outside" /\ pc' \notin Core!Ended
        BY <2>1, <3>2 DEF Silent, Untouched, Core!Ended
      <3>6. QED
        BY <3>2, <3>4, <3>5
    <2>2. CASE Shaking
      <3>1. m = Request(2, Head(queue).method) /\ toCore' = <<>>
        BY <1>1, <2>2 DEF Shaking
      <3>2. Head(queue).method \in Operation
        <4>1. queue \in Seq(Command) /\ queue # <<>>
          BY <1>2 DEF IInv, TypeOK, Waiting
        <4>2. Head(queue) \in Command
          BY <4>1
        <4>3. QED
          BY <4>2 DEF Command
      <3>3. \/ pc' = "operating" /\ UNCHANGED reply
            \/ pc' = "writing" /\ reply' \in Core!Response /\ reply'.id = 2 /\ reply'.code # "OK"
        BY <1>1, <3>1, <3>2, RequestKind, CommandHandled
      <3>4. \A k \in DOMAIN fromCore : Truthful(fromCore[k].reply)
        BY <2>2 DEF Shaking, Untouched, NothingSaid, Truthful
      <3>5. Carrying'
        <4>1. CASE pc' = "operating"
          BY <1>1, <2>2, <3>1, <4>1, SaidKept DEF Shaking, Carrying, Untouched, NothingSaid
        <4>2. CASE pc' = "writing" /\ reply' \in Core!Response /\ reply'.id = 2 /\ reply'.code # "OK"
          <5>1. Truthful(reply)'
            BY <4>2 DEF Truthful
          <5>2. QED
            BY <1>1, <2>2, <3>1, <3>4, <4>2, <5>1, SaidKept DEF Shaking, Carrying, Untouched
        <4>3. QED
          BY <3>3, <4>1, <4>2
      <3>6. Exchange'
        BY <1>1, <1>2, <3>5 DEF IInv, Exchange
      <3>7. section = "outside" /\ pc' \notin Core!Ended
        BY <2>2, <3>3 DEF Shaking, Untouched, Core!Ended
      <3>8. QED
        BY <3>3, <3>6, <3>7 DEF IInv, TypeOK
    <2>3. QED
      BY <1>1, <1>2, <2>1, <2>2 DEF IInv, Exchange, Carrying
  <1>4. TypeOK'
    BY <1>1, <1>3, SaidKept DEF IInv, TypeOK
  <1>5. Owned' /\ Waiting'
    BY <1>2, <1>3, SaidKept DEF IInv, Owned, Waiting
  <1>6. QED
    BY <1>3, <1>4, <1>5, SaidKept, PromisesKept DEF IInv

\* What is said is said once more than before, by the reply being written.
LEMMA UnitPut ==
  ASSUME IInv, Core!PutUnit, pc = "writing", reply \in Core!Response
  PROVE  /\ fromCore' \in Seq(Core!Unit) /\ written' \in Nat /\ pc' \in {"writing", "reading"}
         /\ \A k \in DOMAIN fromCore' :
              fromCore'[k].reply = reply \/ (k \in DOMAIN fromCore /\ fromCore'[k] = fromCore[k])
  <1> DEFINE unit == [reply |-> reply, part |-> written + 1]
  <1>1. unit \in Core!Unit /\ unit.reply = reply
    BY DEF IInv, TypeOK, Core!Unit
  <1>2. fromCore' = Append(fromCore, unit) /\ fromCore \in Seq(Core!Unit)
    BY DEF IInv, TypeOK, Core!PutUnit
  <1> HIDE DEF unit
  <1>3. /\ fromCore' \in Seq(Core!Unit)
        /\ \A k \in DOMAIN fromCore' :
              fromCore'[k] = unit \/ (k \in DOMAIN fromCore /\ fromCore'[k] = fromCore[k])
    BY <1>1, <1>2
  <1>4. QED
    BY <1>1, <1>3 DEF Core!PutUnit, IInv, TypeOK

LEMMA WriteFrameKeeps ==
  ASSUME IInv, Core!WriteFrame, UNCHANGED <<store, host, answers, page>>
  PROVE  IInv'
  <1>1. pc = "writing" /\ UNCHANGED <<toCore, received, current, reply>>
    BY DEF Core!WriteFrame
  <1>2. hostPc # "idle" /\ (Shaking \/ Carrying) /\ reply \in Core!Response
    BY <1>1 DEF IInv, Waiting, Exchange, Silent, Shaking, Carrying, Core!Ended
  <1>3. /\ fromCore' \in Seq(Core!Unit) /\ written' \in Nat
        /\ pc' \in {"writing", "reading", "failed"}
        /\ \A k \in DOMAIN fromCore' :
             fromCore'[k].reply = reply \/ (k \in DOMAIN fromCore /\ fromCore'[k] = fromCore[k])
    BY <1>1, <1>2, UnitPut DEF Core!WriteFrame, IInv, TypeOK
  <1>4. Exchange'
    <2>1. CASE Shaking
      <3>1. Shaking'
        BY <1>1, <1>2, <1>3, <2>1, SaidKept DEF Shaking, Untouched, NothingSaid, Core!Ended
      <3>2. QED
        BY <1>1, <3>1, SaidKept DEF IInv, Exchange
    <2>2. CASE Carrying
      <3>1. \A k \in DOMAIN fromCore' : Truthful(fromCore'[k].reply)
        BY <1>1, <1>3, <2>2 DEF Carrying
      <3>2. Carrying'
        BY <1>1, <1>2, <1>3, <2>2, <3>1, SaidKept DEF Carrying
      <3>3. QED
        BY <1>1, <3>2, SaidKept DEF IInv, Exchange
    <2>3. QED
      BY <1>2, <2>1, <2>2
  <1>5. TypeOK' /\ Owned' /\ Waiting'
    BY <1>1, <1>2, <1>3, SaidKept DEF IInv, TypeOK, Owned, Waiting, Operating, Exchange, Core!Ended
  <1>6. QED
    BY <1>4, <1>5, SaidKept, PromisesKept DEF IInv
-----------------------------------------------------------------------------
(* The child operates on the store. *)

LEMMA OperatingIs ==
  ASSUME IInv, NEW methods, Operating(methods)
  PROVE  /\ pc = "operating" /\ hostPc \in {"poll", "check"} /\ received = <<>>
         /\ toCore = <<>> /\ current = Request(2, Head(queue).method)
         /\ current.frame.method = Head(queue).method /\ Head(queue).method \in methods
         /\ commits = (IF section = "changed" THEN 1 ELSE 0) /\ NothingSaid
         /\ queue # <<>> /\ Head(queue) \in Command
  <1>1. pc = "operating" /\ current.frame.method \in methods
    BY DEF Operating
  <1>2. hostPc \in {"write", "poll", "check"}
    BY <1>1 DEF IInv, TypeOK, Waiting, Core!Ended
  <1>3. Carrying /\ received = <<>>
    BY <1>1, <1>2 DEF IInv, Exchange, Silent, Shaking, Core!Ended
  <1>4. queue \in Seq(Command) /\ queue # <<>>
    BY <1>2 DEF IInv, TypeOK, Waiting
  <1>5. Head(queue) \in Command
    BY <1>4
  <1>6. current = Request(2, Head(queue).method)
    BY <1>1, <1>3 DEF Carrying
  <1>7. current.frame.method = Head(queue).method
    BY <1>6 DEF Request
  <1>8. QED
    BY <1>1, <1>2, <1>3, <1>4, <1>5, <1>6, <1>7 DEF Carrying

LEMMA Performed ==
  ASSUME NEW method, current = Request(2, method), NEW ok \in BOOLEAN,
         NEW n \in Sizes, Core!PerformAs(ok, n)
  PROVE  /\ reply' \in Core!Response /\ reply'.id = 2 /\ pc' = "writing"
         /\ reply'.code = (IF ok THEN "OK" ELSE "OPERATION_ERROR")
         /\ UNCHANGED <<toCore, inputOpen, fromCore, received, current, written>>
  <1>1. current.frame.params = "valid"
    BY DEF Request
  <1>2. Core!Answer(current, IF ok THEN "OK" ELSE "OPERATION_ERROR", IF ok THEN n ELSE 1)
    BY <1>1 DEF Core!PerformAs
  <1>3. reply' \in Core!Response /\ reply'.id = 2 /\ pc' = "writing"
        /\ reply'.code = (IF ok THEN "OK" ELSE "OPERATION_ERROR")
    BY <1>2, AnswerMade DEF Core!Code
  <1>4. QED
    BY <1>3 DEF Core!PerformAs, Core!pipes

\* A child that has something true to say, and nothing said yet.
LEMMA SaidNow ==
  ASSUME IInv, Operating(Operation), UNCHANGED <<toCore, fromCore, received, current, host>>,
         pc' = "writing", section' = "outside", reply' \in Core!Response, Truthful(reply)'
  PROVE  Exchange' /\ Waiting'
  <1>1. /\ hostPc \in {"poll", "check"} /\ received = <<>> /\ toCore = <<>> /\ NothingSaid
        /\ queue # <<>>
    BY OperatingIs
  <1>2. \A k \in DOMAIN fromCore' : Truthful(fromCore[k].reply)'
    BY <1>1 DEF NothingSaid, Truthful
  <1>3. Carrying'
    BY <1>1, <1>2 DEF Carrying, host
  <1>4. QED
    BY <1>1, <1>3 DEF Exchange, Waiting, host

LEMMA ReadKeeps == ASSUME IInv, Read PROVE IInv'
  <1>1. /\ Operating({"search.query", "pack.status"})
        /\ result' = (IF current.frame.method = "pack.status" THEN PanelView ELSE None)
        /\ UNCHANGED <<active, target, pending, lock, section, commits, host, answers, page>>
    BY DEF Read, pack
  <1>2. Operating(Operation)
    BY <1>1 DEF Operating, Operation
  <1>3. PICK ok \in BOOLEAN, n \in Sizes : Core!PerformAs(ok, n)
    BY DEF Read
  <1>4. /\ reply' \in Core!Response /\ reply'.id = 2 /\ pc' = "writing"
        /\ UNCHANGED <<toCore, inputOpen, fromCore, received, current, written>>
    BY <1>1, <1>3, OperatingIs, Performed
  <1>5. PanelView \in View /\ PanelView.active = active /\ PanelView.rollback = RollbackAvailable
    BY DEF IInv, TypeOK, PanelView, View, RollbackAvailable
  <1>6. section = "outside"
    BY <1>1 DEF IInv, Owned, Operating, Action
  <1>7. Truthful(reply)'
    <2>1. Head(queue').method \notin Action
      BY <1>1, OperatingIs DEF Action, host
    <2>2. Head(queue').method = "pack.status" => result' = PanelView
      BY <1>1, OperatingIs DEF host
    <2>3. QED
      BY <1>1, <1>5, <2>1, <2>2 DEF Truthful, Fresh, RollbackAvailable
  <1>8. Exchange' /\ Waiting'
    BY <1>1, <1>2, <1>4, <1>6, <1>7, SaidNow
  <1>9. TypeOK' /\ Owned'
    BY <1>1, <1>4, <1>5, <1>6 DEF IInv, TypeOK, Owned, host
  <1>10. QED
    BY <1>1, <1>8, <1>9, PromisesKept DEF IInv, host

LEMMA RefusedKeeps == ASSUME IInv, Refused PROVE IInv'
  <1>1. /\ Operating(Action) /\ section = "outside" /\ Core!PerformAs(FALSE, 1)
        /\ UNCHANGED <<active, target, pending, lock, section, result, commits, host, answers, page>>
    BY DEF Refused, store, pack
  <1>2. Operating(Operation)
    BY <1>1 DEF Operating, Operation, Action
  <1>3. /\ reply' \in Core!Response /\ reply'.code = "OPERATION_ERROR" /\ pc' = "writing"
        /\ UNCHANGED <<toCore, inputOpen, fromCore, received, current, written>>
    BY <1>1, OperatingIs, Performed, DesktopAssumption
  <1>4. Exchange' /\ Waiting'
    BY <1>1, <1>2, <1>3, SaidNow DEF Truthful
  <1>5. TypeOK' /\ Owned'
    BY <1>1, <1>3 DEF IInv, TypeOK, Owned, host
  <1>6. QED
    BY <1>1, <1>4, <1>5, PromisesKept DEF IInv, host

LEMMA EnterKeeps == ASSUME IInv, Enter PROVE IInv'
  <1>1. /\ Operating(Action) /\ section = "outside" /\ lock' = "taken" /\ section' = "locked"
        /\ UNCHANGED <<child, active, target, pending, result, commits, host, answers, page>>
    BY DEF Enter
  <1>2. /\ pc = "operating" /\ hostPc \in {"poll", "check"} /\ received = <<>> /\ toCore = <<>>
        /\ current = Request(2, Head(queue).method) /\ NothingSaid /\ queue # <<>> /\ commits = 0
    BY <1>1, OperatingIs
  <1>3. Carrying'
    BY <1>1, <1>2 DEF Carrying, NothingSaid, child, core, host
  <1>4. Exchange' /\ Waiting'
    BY <1>1, <1>2, <1>3 DEF Exchange, Waiting, child, core, host
  <1>5. TypeOK' /\ Owned'
    BY <1>1 DEF IInv, TypeOK, Owned, Operating, child, core, host
  <1>6. QED
    BY <1>1, <1>4, <1>5, PromisesKept DEF IInv, host

LEMMA GiveUpKeeps == ASSUME IInv, GiveUp PROVE IInv'
  <1>1. /\ Operating(Action) /\ section' = "outside" /\ Core!PerformAs(FALSE, 1)
        /\ lock' = "free" \/ lock' = lock
        /\ UNCHANGED <<active, target, pending, result, commits, host, answers, page>>
    BY DEF GiveUp, Leave
  <1>2. Operating(Operation)
    BY <1>1 DEF Operating, Operation, Action
  <1>3. /\ reply' \in Core!Response /\ reply'.code = "OPERATION_ERROR" /\ pc' = "writing"
        /\ UNCHANGED <<toCore, inputOpen, fromCore, received, current, written>>
    BY <1>1, OperatingIs, Performed, DesktopAssumption
  <1>4. Exchange' /\ Waiting'
    BY <1>1, <1>2, <1>3, SaidNow DEF Truthful
  <1>5. TypeOK' /\ Owned'
    BY <1>1, <1>3 DEF IInv, TypeOK, Owned, host
  <1>6. QED
    BY <1>1, <1>4, <1>5, PromisesKept DEF IInv, host

\* While an action runs, every promise can wait for it.
LEMMA ActionExcuses ==
  ASSUME IInv, Operating(Action), UNCHANGED <<queue, answers, page>>
  PROVE  Foreseen' /\ Reported'
  <1>1. 1 \in DOMAIN queue /\ queue[1].method \in Action
    <2>1. queue \in Seq(Command) /\ queue # <<>> /\ Head(queue).method \in Action
      BY OperatingIs DEF IInv, TypeOK
    <2>2. QED
      BY <2>1
  <1>2. Queued' /\ ActionsUnderWay'
    BY <1>1 DEF Queued, ActionsUnderWay, Acts
  <1>3. QED
    BY <1>2 DEF Foreseen, Reported

LEMMA ChangeKeeps == ASSUME IInv, Change PROVE IInv'
  <1>1. /\ Operating(Action) /\ section = "locked" /\ section' = "changed" /\ commits' = commits + 1
        /\ UNCHANGED <<child, pending, lock, result, host, answers, page>>
        /\ \/ pending # None /\ Ledger!Update(pending)
           \/ Ledger!Rollback
    BY DEF Change
  <1>2. /\ pc = "operating" /\ hostPc \in {"poll", "check"} /\ received = <<>> /\ toCore = <<>>
        /\ current = Request(2, Head(queue).method) /\ NothingSaid /\ queue # <<>> /\ commits = 0
    BY <1>1, OperatingIs
  <1>3. Carrying'
    BY <1>1, <1>2 DEF Carrying, NothingSaid, child, core, host
  <1>4. Exchange' /\ Waiting'
    BY <1>1, <1>2, <1>3 DEF Exchange, Waiting, child, core, host
  <1>5. active' \in Generation /\ target' \in Generation \union {None}
    BY <1>1 DEF IInv, TypeOK, Ledger!Update, Ledger!Rollback
  <1>6. TypeOK' /\ Owned'
    BY <1>1, <1>2, <1>5 DEF IInv, TypeOK, Owned, Operating, child, core, host
  <1>7. QED
    BY <1>1, <1>4, <1>6, ActionExcuses DEF IInv, host

LEMMA FinishKeeps == ASSUME IInv, Finish PROVE IInv'
  <1>1. /\ Operating(Action) /\ section = "changed" /\ section' = "outside"
        /\ lock' = "free" \/ lock' = lock
        /\ pending' \in {pending, None}
        /\ UNCHANGED <<result, host, answers, page>>
    BY DEF Finish, Leave
  <1>2. \/ Core!PerformAs(TRUE, 1) /\ UNCHANGED <<active, target, commits>>
        \/ Core!PerformAs(FALSE, 1) /\ UNCHANGED <<active, target, commits>>
        \/ Core!PerformAs(FALSE, 1) /\ Ledger!Rollback /\ commits' = commits + 1
    BY DEF Finish
  <1>3. Operating(Operation)
    BY <1>1 DEF Operating, Operation, Action
  <1>4. /\ reply' \in Core!Response /\ pc' = "writing"
        /\ UNCHANGED <<toCore, inputOpen, fromCore, received, current, written>>
        /\ reply'.code = "OK" => commits' = commits
    BY <1>1, <1>2, OperatingIs, Performed, DesktopAssumption
  <1>5. commits = 1 /\ Head(queue).method \in Action
    BY <1>1, OperatingIs
  <1>6. Truthful(reply)'
    BY <1>1, <1>4, <1>5 DEF Truthful, Action, host
  <1>7. Exchange' /\ Waiting'
    BY <1>1, <1>3, <1>4, <1>6, SaidNow
  <1>8. active' \in Generation /\ target' \in Generation \union {None} /\ commits' \in Nat
    <2>1. active \in Generation /\ target \in Generation \union {None} /\ commits \in Nat
      BY DEF IInv, TypeOK
    <2>2. commits + 1 \in Nat
      BY <2>1
    <2>3. QED
      BY <1>2, <2>1, <2>2 DEF Ledger!Rollback
  <1>9. TypeOK' /\ Owned'
    BY <1>1, <1>4, <1>8 DEF IInv, TypeOK, Owned, host
  <1>10. QED
    BY <1>1, <1>7, <1>9, ActionExcuses DEF IInv, host

LEMMA ChildStepKeeps == ASSUME IInv, ChildStep PROVE IInv'
  BY OpenKeeps, ReadFrameKeeps, ReadEOFKeeps, WriteFrameKeeps, ReadKeeps, RefusedKeeps,
     EnterKeeps, GiveUpKeeps, ChangeKeeps, FinishKeeps DEF ChildStep

\* What others do to the inbox and to a stale lock.
LEMMA StoreKeeps ==
  ASSUME IInv, Deposit \/ AdminRecovery
  PROVE  IInv'
  <1>1. /\ UNCHANGED <<child, active, target, section, result, commits, host, answers, page>>
        /\ pending' \in Generation \union {None}
        /\ lock' \in {"free", lock}
    BY DEF IInv, TypeOK, Deposit, AdminRecovery
  <1>2. Exchange'
    BY <1>1, ExchangeKept DEF IInv, host
  <1>3. TypeOK' /\ Owned' /\ Waiting'
    BY <1>1 DEF IInv, TypeOK, Owned, Waiting, Operating, child, core, host
  <1>4. QED
    BY <1>1, <1>2, <1>3, PromisesKept DEF IInv, host
-----------------------------------------------------------------------------
(* The host. *)

\* The command that ran goes, its answer comes at the end of the answers.
LEMMA Settled ==
  ASSUME IInv, queue # <<>>, NEW ok \in BOOLEAN, NEW view \in View \union {None}, Settle(ok, view),
         ok /\ Head(queue).method = "pack.status" => Fresh(view),
         UNCHANGED <<pack, page>>
  PROVE  IInv'
  <1> DEFINE a == [command |-> Head(queue), ok |-> ok, view |-> view]
  <1>1. /\ queue \in Seq(Command) /\ answers \in Seq(Answer) /\ queue' = Tail(queue)
        /\ answers' = Append(answers, a)
        /\ hostPc' = "idle" /\ section' = "outside" /\ result' = None /\ commits' = 0
        /\ UNCHANGED <<active, target, pending, lock, page>>
    BY DEF IInv, TypeOK, Settle, pack
  <1>2. /\ queue' \in Seq(Command) /\ Head(queue) \in Command
        /\ \A k \in DOMAIN queue : queue[k] = Head(queue) \/ \E j \in DOMAIN queue' : queue'[j] = queue[k]
    <2>1. /\ queue' \in Seq(Command) /\ Head(queue) \in Command /\ Head(queue) = queue[1]
          /\ \A k \in DOMAIN queue : k > 1 => k - 1 \in DOMAIN queue' /\ queue'[k-1] = queue[k]
          /\ \A k \in DOMAIN queue : k \in Nat /\ k >= 1
      BY <1>1, TailKept
    <2>2. \A k \in DOMAIN queue : k = 1 \/ k > 1
      BY <2>1
    <2>3. QED
      BY <2>1, <2>2
  <1>3. a \in Answer /\ a.command = Head(queue) /\ a.ok = ok /\ a.view = view
    BY <1>2 DEF Answer
  <1> HIDE DEF a
  <1>4. /\ answers' \in Seq(Answer)
        /\ \A k \in DOMAIN answers : k \in DOMAIN answers' /\ answers'[k] = answers[k]
        /\ \A k \in DOMAIN answers' : (k \in DOMAIN answers /\ answers'[k] = answers[k])
                                      \/ (k \notin DOMAIN answers /\ answers'[k] = a)
        /\ \E k \in DOMAIN answers' : answers'[k] = a /\ \A j \in DOMAIN answers : j < k
    BY <1>1, <1>3
  <1>5. Foreseen'
    <2> SUFFICES ASSUME NEW k \in DOMAIN answers',
                        answers'[k].ok, answers'[k].command.method = "pack.status"
                 PROVE  \/ Fresh(answers[k].view)' \/ Queued'
                        \/ \E j \in DOMAIN answers' : j > k /\ answers'[j].command.method \in Action
      BY DEF Foreseen
    <2>1. CASE k \notin DOMAIN answers
      <3>1. answers'[k] = a
        BY <1>4, <2>1
      <3>2. Fresh(view)
        BY <1>3, <3>1
      <3>3. Fresh(answers[k].view)'
        BY <1>1, <1>3, <3>1, <3>2 DEF Fresh, RollbackAvailable
      <3>4. QED
        BY <3>3
    <2>2. CASE k \in DOMAIN answers
      <3>1. answers'[k] = answers[k]
        BY <1>4, <2>2
      <3>2. \/ Fresh(answers[k].view) \/ Queued
            \/ \E j \in DOMAIN answers : j > k /\ answers[j].command.method \in Action
        BY <2>2, <3>1 DEF IInv, Foreseen
      <3>3. CASE Fresh(answers[k].view)
        BY <1>1, <3>1, <3>3 DEF Fresh, RollbackAvailable
      <3>4. CASE \E j \in DOMAIN answers : j > k /\ answers[j].command.method \in Action
        BY <1>4, <3>4
      <3>5. CASE Queued
        <4>1. Queued' \/ Head(queue).method \in Action
          BY <1>2, <3>5 DEF Queued
        <4>2. Head(queue).method \in Action =>
                \E j \in DOMAIN answers' : j > k /\ answers'[j].command.method \in Action
          BY <1>3, <1>4, <2>2, <1>1
        <4>3. QED
          BY <4>1, <4>2
      <3>6. QED
        BY <3>2, <3>3, <3>4, <3>5
    <2>3. QED
      BY <2>1, <2>2
  <1>6. ActionsUnderWay => ActionsUnderWay'
    BY <1>2, <1>3, <1>4 DEF ActionsUnderWay
  <1>7. Reported'
    BY <1>1, <1>6 DEF IInv, Reported, Fresh, RollbackAvailable
  <1>8. /\ fromCore' = <<>> /\ received' = <<>> /\ pc' = "exited"
        /\ reply' = None /\ written' = 0
    BY DEF Settle, Core!Dispose, Core!Reset
  <1>9. Exchange' /\ Waiting' /\ Owned'
    BY <1>1, <1>8 DEF Exchange, Waiting, Owned, Core!Ended
  <1>10. TypeOK'
    BY <1>1, <1>2, <1>4, <1>8 DEF IInv, TypeOK
  <1>11. QED
    BY <1>5, <1>7, <1>9, <1>10 DEF IInv

\* A failed command has no view to show.
LEMMA FailureSettled ==
  ASSUME IInv, queue # <<>>, Settle(FALSE, None), UNCHANGED <<pack, page>>
  PROVE  IInv'
  BY Settled

LEMMA Ended ==
  ASSUME IInv, pc \in Core!Ended
  PROVE  section = "outside"
  BY DEF IInv, Owned, Operating, Core!Ended

LEMMA LaunchKeeps == ASSUME IInv, Launch PROVE IInv'
  <1>1. /\ hostPc = "idle" /\ queue # <<>> /\ pc \in Core!Ended /\ section = "outside"
        /\ UNCHANGED <<pack, page>>
    BY Ended DEF Launch, IInv, Waiting
  <1>2. CASE /\ Core!Spawn /\ hostPc' = "write" /\ UNCHANGED <<store, late, queue, answers>>
    <2>1. /\ toCore' = <<>> /\ fromCore' = <<>> /\ received' = <<>> /\ pc' = "opening"
          /\ reply' = None /\ written' = 0
      BY <1>2 DEF Core!Spawn, Core!Reset
    <2>2. Silent'
      BY <1>1, <1>2, <2>1 DEF IInv, Waiting, Silent, Untouched, NothingSaid, store
    <2>3. Exchange' /\ Waiting' /\ Owned'
      BY <1>1, <1>2, <2>1, <2>2 DEF IInv, Exchange, Waiting, Owned, store
    <2>4. TypeOK'
      BY <1>1, <1>2, <2>1 DEF IInv, TypeOK, store, pack
    <2>5. QED
      BY <1>1, <1>2, <2>3, <2>4, PromisesKept DEF IInv, store, pack
  <1>3. CASE Settle(FALSE, None)
    BY <1>1, <1>3, FailureSettled
  <1>4. QED
    BY <1>1, <1>2, <1>3 DEF Launch

LEMMA WriteRequestsKeeps == ASSUME IInv, WriteRequests PROVE IInv'
  <1>1. hostPc = "write" /\ queue # <<>> /\ UNCHANGED <<pack, page>>
    BY DEF WriteRequests, IInv, Waiting
  <1>2. CASE /\ pc \notin Core!Ended /\ toCore' = Wire /\ hostPc' = "poll"
             /\ UNCHANGED <<fromCore, received, core, store, queue, answers>>
    <2>1. Silent /\ received = <<>>
      BY <1>1 DEF IInv, Exchange, Shaking, Carrying
    <2>2. Silent'
      BY <1>1, <1>2, <2>1 DEF Silent, Untouched, NothingSaid, Wire, core, store
    <2>3. Exchange' /\ Waiting' /\ Owned'
      BY <1>1, <1>2, <2>1, <2>2 DEF IInv, Exchange, Waiting, Owned, Operating, core, store, pack
    <2>4. TypeOK'
      BY <1>1, <1>2 DEF IInv, TypeOK, core, store, pack
    <2>5. QED
      BY <1>1, <1>2, <2>3, <2>4, PromisesKept DEF IInv, store, pack
  <1>3. CASE Settle(FALSE, None)
    BY <1>1, <1>3, FailureSettled
  <1>4. QED
    BY <1>2, <1>3 DEF WriteRequests

LEMMA PollKeeps == ASSUME IInv, Poll PROVE IInv'
  <1>1. /\ hostPc = "poll" /\ hostPc' = (IF pc \in Core!Ended THEN "collect" ELSE "check")
        /\ UNCHANGED <<child, store, queue, answers, page>>
    BY DEF Poll
  <1>2. Exchange'
    BY <1>1, ExchangeKept DEF IInv, store, pack
  <1>3. TypeOK' /\ Owned' /\ Waiting'
    BY <1>1 DEF IInv, TypeOK, Owned, Waiting, Operating, child, core, store, pack
  <1>4. QED
    BY <1>1, <1>2, <1>3, PromisesKept DEF IInv, store, pack

LEMMA CheckKeeps == ASSUME IInv, Check PROVE IInv'
  <1>1. hostPc = "check" /\ queue # <<>> /\ UNCHANGED <<pack, page>>
    BY DEF Check, IInv, Waiting
  <1>2. CASE hostPc' = "poll" /\ UNCHANGED <<child, store, late, queue, answers>>
    <2>1. Exchange'
      BY <1>1, <1>2, ExchangeKept DEF IInv, store, pack
    <2>2. TypeOK' /\ Owned' /\ Waiting'
      BY <1>1, <1>2 DEF IInv, TypeOK, Owned, Waiting, Operating, child, core, store, pack
    <2>3. QED
      BY <1>1, <1>2, <2>1, <2>2, PromisesKept DEF IInv, store, pack
  <1>3. CASE Settle(FALSE, None)
    BY <1>1, <1>3, FailureSettled
  <1>4. QED
    BY <1>2, <1>3 DEF Check

\* What the host accepts is the child's success, and that was one.
LEMMA Succeeded ==
  ASSUME IInv, Collect, Accepted(fromCore)
  PROVE  /\ Head(queue).method \in Action => commits = 1
         /\ Head(queue).method = "pack.status" => Fresh(result)
  <1>1. hostPc = "collect" /\ pc \in Core!Ended
    BY DEF Collect, IInv, Waiting
  <1>2. PICK j \in DOMAIN fromCore : fromCore[j].reply.id = 2 /\ fromCore[j].reply.code = "OK"
    BY DEF Accepted, Complete
  <1>3. Carrying
    BY <1>1, <1>2 DEF IInv, Exchange, Silent, Shaking, Untouched, NothingSaid
  <1>4. Truthful(fromCore[j].reply)
    BY <1>1, <1>3 DEF Carrying, Core!Ended
  <1>5. QED
    BY <1>2, <1>4 DEF Truthful

LEMMA CollectKeeps == ASSUME IInv, Collect PROVE IInv'
  <1>1. hostPc = "collect" /\ queue # <<>> /\ UNCHANGED <<pack, page>>
    BY DEF Collect, IInv, Waiting
  <1>2. CASE Accepted(fromCore)
    <2>1. result \in View \union {None} /\ Settle(TRUE, result)
      BY <1>2 DEF IInv, TypeOK, Collect
    <2>2. QED
      BY <1>1, <1>2, <2>1, Succeeded, Settled
  <1>3. CASE ~Accepted(fromCore)
    BY <1>1, <1>3, FailureSettled DEF Collect
  <1>4. QED
    BY <1>2, <1>3
-----------------------------------------------------------------------------
LEMMA ElapseKeeps == ASSUME IInv, Elapse PROVE IInv'
  <1>1. UNCHANGED <<child, store, hostPc, queue, answers, page>>
    BY DEF Elapse
  <1>2. Exchange'
    BY <1>1, ExchangeKept DEF IInv, store, pack
  <1>3. TypeOK' /\ Owned' /\ Waiting'
    BY <1>1 DEF IInv, TypeOK, Owned, Waiting, Operating, child, core, store, pack
  <1>4. QED
    BY <1>1, <1>2, <1>3, PromisesKept DEF IInv, store, pack

LEMMA StutterKeeps == ASSUME IInv, UNCHANGED vars PROVE IInv'
  <1>1. UNCHANGED <<child, store, hostPc, queue, answers, page>>
    BY DEF vars, host
  <1>2. Exchange'
    BY <1>1, ExchangeKept DEF IInv, store, pack
  <1>3. TypeOK' /\ Owned' /\ Waiting'
    BY <1>1 DEF IInv, TypeOK, Owned, Waiting, Operating, child, core, store, pack
  <1>4. QED
    BY <1>1, <1>2, <1>3, PromisesKept DEF IInv, store, pack

\* Every step of the page, the host, the child and the others keeps all parts
\* of the invariant.
THEOREM SessionInvariant == Spec => []IInv
  <1>1. IInv /\ [Next]_vars => IInv'
    <2> SUFFICES ASSUME IInv, Next PROVE IInv'
      BY StutterKeeps
    <2>1. CASE Click \/ Resolve
      BY <2>1, ClickKeeps, ResolveKeeps
    <2>2. CASE HostStep
      BY <2>2, LaunchKeeps, WriteRequestsKeeps, PollKeeps, CheckKeeps, CollectKeeps DEF HostStep
    <2>3. CASE Elapse \/ ChildStep \/ Deposit \/ AdminRecovery
      BY <2>3, ElapseKeeps, ChildStepKeeps, StoreKeeps
    <2>4. QED
      BY <2>1, <2>2, <2>3 DEF Next
  <1>2. QED
    BY <1>1, Initially, PTL DEF Spec

-----------------------------------------------------------------------------
\* When the page reports that an action has succeeded, its panel is the
\* store's state or another action is under way (main.js runPackAction,
\* refreshPackPanel).
THEOREM PanelIsConfirmed == Spec => []ConfirmedPanel
  <1>1. IInv => ConfirmedPanel
    BY DEF IInv, Reported, Fresh, ConfirmedPanel
  <1>2. QED
    BY <1>1, SessionInvariant, PTL

\* The host reports the success of an action only when its child has made
\* exactly one durable change and has left the locked section (main.rs
\* run_core_session).
THEOREM SuccessMeansDone == Spec => SuccessIsDone
  <1> DEFINE Done(a) ==
               /\ hostPc = "collect" /\ hostPc' = "idle"
               /\ a = answers'[Len(answers')]
               /\ a.ok /\ a.command.method \in Action
               => commits = 1 /\ section = "outside"
             All == \A a \in {answers'[k] : k \in DOMAIN answers'} : Done(a)
  <1>1. IInv /\ [Next]_vars => [All]_vars
    <2> SUFFICES ASSUME IInv, Next, hostPc = "collect", hostPc' = "idle",
                        NEW a, a = answers'[Len(answers')], a.ok, a.command.method \in Action
                 PROVE  commits = 1 /\ section = "outside"
      OBVIOUS
    <2>1. pc \in Core!Ended
      BY DEF IInv, Waiting
    <2>2. Collect
      <3>1. ~ChildStep
        <4>1. UNCHANGED host => hostPc' = hostPc
          BY DEF host
        <4>2. QED
          BY <4>1 DEF ChildStep, Read, Refused, Enter, GiveUp, Change, Finish, store
      <3>2. QED
        BY <3>1 DEF Next, Click, Resolve, HostStep, Launch, WriteRequests, Poll, Check, Elapse,
                    Deposit, AdminRecovery, host
    <2>3. \E ok \in BOOLEAN, view \in View \union {None} :
            Settle(ok, view) /\ (ok => Accepted(fromCore))
      BY <2>2 DEF Collect, IInv, TypeOK
    <2>4. PICK ok \in BOOLEAN, view \in View \union {None} :
            Settle(ok, view) /\ (ok => Accepted(fromCore))
      BY <2>3
    <2>5. a = [command |-> Head(queue), ok |-> ok, view |-> view]
      <3> DEFINE b == [command |-> Head(queue), ok |-> ok, view |-> view]
      <3>1. queue \in Seq(Command) /\ queue # <<>> /\ answers \in Seq(Answer)
            /\ answers' = Append(answers, b)
        BY <2>4 DEF IInv, TypeOK, Waiting, Settle
      <3>2. b \in Answer
        BY <3>1 DEF Answer
      <3> HIDE DEF b
      <3>3. answers'[Len(answers')] = b
        BY <3>1, <3>2
      <3>4. QED
        BY <3>3 DEF b
    <2>6. ok /\ Head(queue).method \in Action
      BY <2>5
    <2>7. QED
      BY <2>1, <2>2, <2>4, <2>6, Succeeded, Ended
  <1>2. QED
    BY <1>1, SessionInvariant, PTL DEF Spec, SuccessIsDone
=============================================================================
