------------------------------ MODULE Service ------------------------------
(***************************************************************************)
(* The coordinator's serve loop and the worker's request, frame by frame   *)
(* (tools/coordinator.cpp, tools/worker.cpp).                              *)
(*                                                                         *)
(* A worker connects, sends one frame and reads one frame; the coordinator *)
(* accepts one connection at a time and reads frames from it until it      *)
(* closes.  A recv can return any part of what is on the way, a killed     *)
(* process can lose the end of what it sent, and a cell can be damaged.    *)
(* What a request does to the store is in module Coordinator: here its     *)
(* reply carries the payload of the request.                               *)
(***************************************************************************)
EXTENDS Frames, FiniteSets

CONSTANTS
    Workers,          \* worker processes that can exist at one time
    Kinds, Payloads,  \* requests that workers send
    Cells,            \* values a damaged cell can have
    Backlog,          \* the listen backlog
    MaxDamages        \* bound: damaged cells

ASSUME ServiceAssumption ==
    /\ Kinds \subseteq 0..(kAck - 1)
    /\ \A p \in Payloads : p \in Seq(Nat) /\ Len(p) <= kMaxPayloadBytes /\ crc32(p) \in Nat
    /\ Cells \subseteq Nat /\ Backlog \in Nat \ {0} /\ MaxDamages \in Nat
    /\ "none" \notin Workers

VARIABLES
    alive,       \* the coordinator's process runs
    queue,       \* connections the listening socket holds
    conn,        \* the connection being served
    buf,         \* what the loop has read of the next frame
    step,        \* what each worker does: "off", "waiting" or "exiting"
    req,         \* the request of each worker's connection
    up, down,    \* cells on the way to and from the coordinator
    rbuf,        \* what each worker has read of its reply
    reply,       \* the reply each worker has decoded
    seen,        \* history: the frames dispatched for each connection
    damages

loopVars   == <<alive, queue, conn, buf>>
workerVars == <<step, req, rbuf, reply>>
vars == <<loopVars, workerVars, up, down, seen, damages>>

NoConn == "none"
NoRequest == [kind |-> 0, payload |-> <<>>]
Requests == [kind : Kinds, payload : Payloads]

Init ==
    /\ alive = TRUE /\ queue = <<>> /\ conn = NoConn /\ buf = <<>>
    /\ step = [w \in Workers |-> "off"] /\ req = [w \in Workers |-> NoRequest]
    /\ up = [w \in Workers |-> <<>>] /\ down = [w \in Workers |-> <<>>]
    /\ rbuf = [w \in Workers |-> <<>>] /\ reply = [w \in Workers |-> NoFrame]
    /\ seen = [w \in Workers |-> <<>>] /\ damages = 0

\* The coordinator's end of w's connection is open.
Served(w) == conn = w \/ \E i \in DOMAIN queue : queue[i] = w

\* How many cells a reader wants: the header, then what its length announces.
Wanted(b) == IF Len(b) < HeaderCells THEN HeaderCells ELSE FrameCells(b[4])
Complete(b) == Len(b) = Wanted(b)
TooLong(b) == Len(b) >= HeaderCells /\ b[4] > kMaxPayloadBytes

\* What one recv of read_exact can leave in the buffer b and on the stream s.
Received(b, s) ==
    {<<b \o SubSeq(s, 1, n), SubSeq(s, n + 1, Len(s))>> :
        n \in {m \in 1..Len(s) : m <= Wanted(b) - Len(b)}}

-----------------------------------------------------------------------------
(***************************************************************************)
(* Worker processes.                                                       *)
(***************************************************************************)
Connect(w) ==
    /\ alive
    /\ step[w] = "off" /\ ~ Served(w)
    /\ Len(queue) < Backlog
    /\ queue' = Append(queue, w)
    /\ seen' = [seen EXCEPT ![w] = <<>>]
    /\ UNCHANGED <<alive, conn, buf, down, rbuf, reply, damages>>

\* Connect, encode the frame and send all of it.
request(w, r) ==
    /\ Connect(w)
    /\ step' = [step EXCEPT ![w] = "waiting"]
    /\ req' = [req EXCEPT ![w] = r]
    /\ up' = [up EXCEPT ![w] = encode_frame(r.kind, r.payload)]

\* The sleep command, and one that does not exist: nothing is sent.
Sleep(w) ==
    /\ Connect(w)
    /\ step' = [step EXCEPT ![w] = "exiting"]
    /\ req' = [req EXCEPT ![w] = NoRequest]
    /\ up' = [up EXCEPT ![w] = <<>>]

\* The worker reads its reply, without a bound on the length.
RecvReply(w) ==
    /\ step[w] = "waiting"
    /\ \E x \in Received(rbuf[w], down[w]) :
          rbuf' = [rbuf EXCEPT ![w] = x[1]] /\ down' = [down EXCEPT ![w] = x[2]]
    /\ UNCHANGED <<loopVars, step, req, reply, up, seen, damages>>

\* Mutant: the reply is taken without being decoded.
TakeReply_Undecoded(w) ==
    /\ step[w] = "waiting"
    /\ Complete(rbuf[w])
    /\ step' = [step EXCEPT ![w] = "exiting"]
    /\ reply' = [reply EXCEPT ![w] = Accepted(rbuf[w][3], PayloadOf(rbuf[w]))]
    /\ UNCHANGED <<loopVars, req, rbuf, up, down, seen, damages>>

\* A reply that does not decode is an error of the worker: it has no reply.
TakeReply(w) ==
    /\ step[w] = "waiting"
    /\ Complete(rbuf[w])
    /\ step' = [step EXCEPT ![w] = "exiting"]
    /\ reply' = [reply EXCEPT ![w] = decode_frame(rbuf[w])]
    /\ UNCHANGED <<loopVars, req, rbuf, up, down, seen, damages>>

\* read_exact fails: the coordinator has closed the connection.
ReplyLost(w) ==
    /\ step[w] = "waiting"
    /\ ~ Complete(rbuf[w]) /\ down[w] = <<>> /\ ~ Served(w)
    /\ step' = [step EXCEPT ![w] = "exiting"]
    /\ UNCHANGED <<loopVars, req, rbuf, reply, up, down, seen, damages>>

\* The process ends and its socket with it; what it has not read is gone.
Close(w) ==
    /\ step' = [step EXCEPT ![w] = "off"]
    /\ down' = [down EXCEPT ![w] = <<>>]
    /\ rbuf' = [rbuf EXCEPT ![w] = <<>>]
    /\ reply' = [reply EXCEPT ![w] = NoFrame]
    /\ UNCHANGED <<loopVars, req, seen, damages>>

Exit(w) == step[w] = "exiting" /\ Close(w) /\ UNCHANGED up

\* The process is killed, perhaps inside send_all; the end of what it sent can
\* be lost.
Kill(w) ==
    /\ step[w] # "off"
    /\ Close(w)
    /\ \E n \in 0..Len(up[w]) : up' = [up EXCEPT ![w] = SubSeq(up[w], 1, n)]

-----------------------------------------------------------------------------
(***************************************************************************)
(* The serve loop.                                                         *)
(***************************************************************************)
\* Mutant: the newest connection is accepted first.
Accept_Newest ==
    /\ alive /\ conn = NoConn /\ queue # <<>>
    /\ conn' = queue[Len(queue)]
    /\ queue' = SubSeq(queue, 1, Len(queue) - 1)
    /\ UNCHANGED <<alive, buf, workerVars, up, down, seen, damages>>

Accept ==
    /\ alive /\ conn = NoConn /\ queue # <<>>
    /\ conn' = Head(queue)
    /\ queue' = Tail(queue)
    /\ UNCHANGED <<alive, buf, workerVars, up, down, seen, damages>>

Recv ==
    /\ conn # NoConn
    /\ ~ TooLong(buf)
    /\ \E x \in Received(buf, up[conn]) : buf' = x[1] /\ up' = [up EXCEPT ![conn] = x[2]]
    /\ UNCHANGED <<alive, queue, conn, workerVars, down, seen, damages>>

\* Mutant: what was read of a frame stays in the buffer.
Hangup_KeepsBuffer ==
    /\ conn # NoConn
    /\ TooLong(buf) \/ (~ Complete(buf) /\ up[conn] = <<>> /\ step[conn] = "off")
    /\ conn' = NoConn
    /\ up' = [up EXCEPT ![conn] = <<>>]
    /\ UNCHANGED <<alive, queue, buf, workerVars, down, seen, damages>>

\* The length is too large, or read_exact fails because the worker has closed.
Hangup ==
    /\ conn # NoConn
    /\ TooLong(buf) \/ (~ Complete(buf) /\ up[conn] = <<>> /\ step[conn] = "off")
    /\ conn' = NoConn /\ buf' = <<>>
    /\ up' = [up EXCEPT ![conn] = <<>>]
    /\ UNCHANGED <<alive, queue, workerVars, down, seen, damages>>

\* The kinds that dispatch has a case for; the others are refused.
Supported == {1, 2, 3, 4, 5, 6, 7, 8, 10, 11}
Answers(kind) == IF kind \in Supported THEN {kAck, kNack} ELSE {kNack}

\* Mutant: a frame shorter than it should be is dispatched.
Ready_AfterHeader == conn # NoConn /\ Len(buf) > HeaderCells

\* A whole frame has been read.
Ready == conn # NoConn /\ Complete(buf)

\* Decode, dispatch, send the reply.  When the worker is gone the reply goes
\* nowhere, and the loop ends with the next read.
Dispatch ==
    /\ Ready
    /\ decode_frame(buf).ok
    /\ LET f == decode_frame(buf) IN
          /\ seen' = [seen EXCEPT ![conn] = Append(@, f)]
          /\ \E k \in Answers(f.kind) :
                down' = [down EXCEPT ![conn] = IF step[conn] = "off" THEN <<>>
                                               ELSE encode_frame(k, f.payload)]
    /\ buf' = <<>>
    /\ UNCHANGED <<alive, queue, conn, workerVars, up, damages>>

\* decode_frame throws outside of the try block: main ends, and with it the
\* process and every connection.
Terminate ==
    /\ Ready
    /\ ~ decode_frame(buf).ok
    /\ alive' = FALSE
    /\ queue' = <<>> /\ conn' = NoConn /\ buf' = <<>>
    /\ up' = [w \in Workers |-> <<>>]
    /\ UNCHANGED <<workerVars, down, seen, damages>>

\* The operator starts the coordinator again.
Restart ==
    /\ ~ alive
    /\ alive' = TRUE
    /\ UNCHANGED <<queue, conn, buf, workerVars, up, down, seen, damages>>

\* One cell of a stream is damaged on the way.
Damage(w) ==
    /\ damages < MaxDamages
    /\ damages' = damages + 1
    /\ \E v \in Cells :
          \/ /\ \E i \in DOMAIN up[w] : up[w][i] # v /\ up' = [up EXCEPT ![w][i] = v]
             /\ UNCHANGED down
          \/ /\ \E i \in DOMAIN down[w] : down[w][i] # v /\ down' = [down EXCEPT ![w][i] = v]
             /\ UNCHANGED up
    /\ UNCHANGED <<loopVars, workerVars, seen>>

Loop == Accept \/ Recv \/ Hangup \/ Dispatch \/ Terminate
Work(w) == RecvReply(w) \/ TakeReply(w) \/ ReplyLost(w) \/ Exit(w)

Next ==
    \/ \E w \in Workers, r \in Requests : request(w, r)
    \/ \E w \in Workers : Sleep(w) \/ Work(w) \/ Kill(w) \/ Damage(w)
    \/ Loop \/ Restart

\* The loop goes on while it can, what is on the way arrives, and a worker that
\* waits for nothing exits: even hold sleeps for an hour only.
Spec     == Init /\ [][Next]_vars
FairSpec == Spec /\ WF_vars(Loop) /\ \A w \in Workers : WF_vars(Work(w))

-----------------------------------------------------------------------------
(***************************************************************************)
(* Properties.                                                             *)
(***************************************************************************)
Errors == {"none", "truncated", "bad_magic", "unsupported_version", "malformed",
           "checksum_mismatch"}
Decoded == [ok : BOOLEAN, error : Errors, kind : Nat, payload : Seq(Nat)]

\* Every variable has its type, and no connection is in two places.
TypeOK ==
    /\ alive \in BOOLEAN /\ conn \in Workers \cup {NoConn}
    /\ queue \in Seq(Workers) /\ Len(queue) <= Backlog
    /\ \A i, j \in DOMAIN queue : queue[i] # conn /\ (queue[i] = queue[j] => i = j)
    /\ buf \in Seq(Nat) /\ (conn = NoConn => buf = <<>>)
    /\ step \in [Workers -> {"off", "waiting", "exiting"}]
    /\ req \in [Workers -> Requests \cup {NoRequest}]
    /\ up \in [Workers -> Seq(Nat)] /\ down \in [Workers -> Seq(Nat)]
    /\ rbuf \in [Workers -> Seq(Nat)]
    /\ reply \in [Workers -> Decoded] /\ seen \in [Workers -> Seq(Decoded)]
    /\ damages \in 0..MaxDamages

\* What the checksum is relied on for: it tells a payload from the same payload
\* with another cell in one place, and no cell of a payload is by chance the
\* checksum of the cells before it, where a smaller length would look for it.
DetectsDamage ==
    \A p \in Payloads :
        /\ \A i \in DOMAIN p, v \in Cells : v # p[i] => crc32([p EXCEPT ![i] = v]) # crc32(p)
        /\ \A n \in 0..(Len(p) - 1) : crc32(SubSeq(p, 1, n)) # p[n + 1]

\* What the coordinator dispatches is what a worker sent on that connection,
\* and once: never the beginning of a frame whose sender was killed, nor bytes
\* of another connection.  A damaged cell never changes a payload; it can
\* change the kind of a request, which the checksum does not cover.
DispatchedAsSent ==
    \A w \in Workers : seen[w] # <<>> =>
        /\ Len(seen[w]) = 1
        /\ seen[w][1].payload = req[w].payload
        /\ damages = 0 => seen[w][1].kind = req[w].kind

\* A worker that has a reply has the one to its own request, and the request
\* has been carried out exactly once.
ReplyIsOwn ==
    \A w \in Workers : reply[w].ok =>
        /\ Len(seen[w]) = 1
        /\ reply[w].payload = req[w].payload
        /\ damages = 0 => reply[w].kind \in Answers(req[w].kind)

\* Lost and truncated requests never end the coordinator's process: it takes a
\* damaged frame (decode_frame is called outside of the try block).
OnlyDamageTerminates == ~ alive => damages > 0

\* try_read_frame, the bounded reader of the protocol, and the loop's own
\* reading agree about every part of a stream: when to go on reading, when to
\* give up, and what the frame is.
BoundedReadAgrees ==
    conn # NoConn =>
        LET t == try_read_frame(buf) f == decode_frame(buf) IN
            /\ Complete(buf) /\ ~ TooLong(buf) =>
                 IF f.ok THEN t = Read("ok", f, Len(buf)) ELSE t.result \in {"throws", "error"}
            /\ t.result \in {"ok", "throws"} => Complete(buf)
            /\ TooLong(buf) => t.result # "ok"

\* Every request is answered or its worker is killed, however the connections
\* queue up behind one that is held: unless a cell is damaged, when both sides
\* can wait for each other.
RequestsAnswered ==
    \A w \in Workers : step[w] = "waiting" ~> step[w] # "waiting" \/ damages > 0
=============================================================================
