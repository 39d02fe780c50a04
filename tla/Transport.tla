------------------------------ MODULE Transport ------------------------------
(***************************************************************************)
(* One call of Adapter.Execute (internal/transport): the SSH, NETCONF and  *)
(* gNMI adapters contact a device under a deadline, bound what it answers, *)
(* and release the connection on every path; the stub adapter answers by   *)
(* itself.  The device may send any part of its output, refuse, fall       *)
(* silent or vanish at every step.  SSH reads its two streams and the exit *)
(* status in goroutines of their own, which outlive a failed call.         *)
(* Sizes are counted in chunks.                                            *)
(***************************************************************************)
EXTENDS Integers, FiniteSets

CONSTANTS
  Protocols,    \* the adapters, among {"ssh", "netconf", "gnmi", "stub"}
  MaximumBytes, \* of the operation, in chunks
  MaxOutput,    \* bound on what a device sends on one stream, in chunks
  Absent

ASSUME TransportAssumption ==
  /\ Protocols \subseteq {"ssh", "netconf", "gnmi", "stub"}
  /\ MaximumBytes \in Nat \ {0}
  /\ MaxOutput \in Nat
  /\ Absent \notin {"ok", "failed"}

VARIABLES
  protocol,  \* the adapter called
  script,    \* what the device is going to send
  stage,     \* progress of Execute
  socket,    \* the connection
  bounded,   \* the deadline of the call has been set on the socket
  due,       \* the deadline of the call has passed
  cancelled, \* the caller has given up
  arrived,   \* chunks received of each stream
  status,    \* the exit status received, or Absent
  ended,     \* the device has closed its side of the channel
  reader,    \* the goroutines reading the two streams
  results,   \* the channel on which they report
  taken,     \* the streams whose result has been received
  waiter,    \* the goroutine in session.Wait
  captured   \* size of the payload Execute is going to return, or Absent

transportVars == <<protocol, script, stage, socket, bounded, due, cancelled, arrived, status,
                   ended, reader, results, taken, waiter, captured>>
wire == <<arrived, status, ended>>
goroutines == <<reader, results, taken, waiter>>

-----------------------------------------------------------------------------
(* Types and initial state *)

Streams == {"stdout", "stderr"}
Stages == {"validate", "resolve", "dial", "bound", "handshake", "session", "hello", "helloByte",
           "rpc", "reply", "replyByte", "get", "collect", "wait", "close", "returned"}

\* A NETCONF message has one more chunk than its payload, the delimiter; its
\* reply may answer another request, carry an rpc-error or not be XML.  A device
\* may report the exit status of a command before the last of its output.
Script ==
  [stdout: 0..MaxOutput, stderr: 0..MaxOutput, exit: {"ok", "failed"},
   exitLast: BOOLEAN, reply: {"bound", "refused"}]

TransportTypeOK ==
  /\ protocol \in Protocols
  /\ script \in Script
  /\ stage \in Stages
  /\ socket \in {"none", "open", "dead", "closed"}
  /\ {bounded, due, cancelled, ended} \subseteq BOOLEAN
  /\ arrived \in [Streams -> 0..(MaxOutput + 1)]
  /\ status \in {"ok", "failed", Absent}
  /\ reader \in [Streams -> [state: {"idle", "reading", "done"}, got: 0..(MaxOutput + 1)]]
  /\ results \subseteq Streams /\ taken \subseteq Streams
  /\ waiter \in {"idle", "waiting", "failed", "ok"}
  /\ captured \in 0..MaximumBytes \cup {Absent}

\* What a protocol does not use of a script is fixed.
Relevant(p, s) ==
  /\ p # "ssh" => s.stderr = 0 /\ s.exitLast
  /\ p # "netconf" => s.reply = "bound"
  /\ p \in {"netconf", "stub"} => s.exit = "ok"

TransportInit ==
  /\ protocol \in Protocols
  /\ script \in {s \in Script : Relevant(protocol, s)}
  /\ stage = "validate" /\ socket = "none" /\ bounded = FALSE
  /\ due = FALSE /\ cancelled = FALSE
  /\ arrived = [s \in Streams |-> 0] /\ status = Absent /\ ended = FALSE
  /\ reader = [s \in Streams |-> [state |-> "idle", got |-> 0]]
  /\ results = {} /\ taken = {} /\ waiter = "idle" /\ captured = Absent

-----------------------------------------------------------------------------
(* The context, the network and the device *)

\* executionCtx.Done().
Done == due \/ cancelled

\* Its timeout runs from the moment the credential is resolved.
Deadline ==
  /\ stage \notin {"validate", "resolve", "returned"} /\ ~due
  /\ due' = TRUE
  /\ UNCHANGED <<protocol, script, stage, socket, bounded, cancelled, wire, goroutines, captured>>

Cancel ==
  /\ stage # "returned" /\ ~cancelled
  /\ cancelled' = TRUE
  /\ UNCHANGED <<protocol, script, stage, socket, bounded, due, wire, goroutines, captured>>

\* The peer or the network drops the connection.
Lose ==
  /\ socket = "open"
  /\ socket' = "dead"
  /\ UNCHANGED <<protocol, script, stage, bounded, due, cancelled, wire, goroutines, captured>>

\* The read of the connection fails once its deadline has passed.
SocketDeadline == due /\ bounded /\ Lose

\* Chunks of the message or stream that is being sent to us.
Total(s) == IF protocol = "netconf" /\ s = "stdout" THEN script[s] + 1 ELSE script[s]

Receiving == socket = "open" /\ ~ended
             /\ stage \in {"reply", "replyByte", "collect", "wait", "close"}

Arrive(s) ==
  /\ Receiving /\ arrived[s] < Total(s)
  /\ arrived' = [arrived EXCEPT ![s] = @ + 1]
  /\ UNCHANGED <<protocol, script, stage, socket, bounded, due, cancelled, status, ended,
                 goroutines, captured>>

AllArrived == \A s \in Streams : arrived[s] = Total(s)

ArriveStatus ==
  /\ protocol = "ssh" /\ Receiving /\ status = Absent
  /\ script.exitLast => AllArrived
  /\ status' = script.exit
  /\ UNCHANGED <<protocol, script, stage, socket, bounded, due, cancelled, arrived, ended,
                 goroutines, captured>>

ChannelClosed ==
  /\ protocol = "ssh" /\ Receiving /\ status # Absent /\ AllArrived
  /\ ended' = TRUE
  /\ UNCHANGED <<protocol, script, stage, socket, bounded, due, cancelled, arrived, status,
                 goroutines, captured>>

Device == Lose \/ (\E s \in Streams : Arrive(s)) \/ ArriveStatus \/ ChannelClosed

-----------------------------------------------------------------------------
(* Up to the connection.  A step of Execute moves to a stage; a failure       *)
(* returns at once, or by way of the deferred Close when there is a session.  *)

Goto(from, to) == stage = from /\ stage' = to

\* The rest of the state in a step of the main goroutine before it reads.
Setup == UNCHANGED <<protocol, script, due, cancelled, wire, goroutines, captured>>

\* validateRealTransportRequest, the catalogue, the endpoint.
Validate ==
  /\ protocol # "stub"
  /\ Goto("validate", "resolve") \/ Goto("validate", "returned")
  /\ UNCHANGED <<socket, bounded>> /\ Setup

Resolve ==
  /\ Goto("resolve", "dial") \/ Goto("resolve", "returned")
  /\ UNCHANGED <<socket, bounded>> /\ Setup

\* DialContext, or grpc.NewClient, which connects when the call is made.
Dial ==
  /\ protocol = "gnmi" \/ ~Done
  /\ Goto("dial", IF protocol = "gnmi" THEN "get" ELSE "bound")
  /\ socket' = "open"
  /\ UNCHANGED bounded /\ Setup

DialFails ==
  /\ Goto("dial", "returned")
  /\ UNCHANGED <<socket, bounded>> /\ Setup

\* SetDeadline; when it fails the socket is closed and the call returns.
SetDeadline ==
  /\ \/ Goto("bound", "handshake") /\ bounded' = TRUE /\ UNCHANGED socket
     \/ Goto("bound", "returned") /\ socket' = "closed" /\ UNCHANGED bounded
  /\ Setup

\* Closes the socket when a step after the connection fails.
GiveUp(from) == Goto(from, "returned") /\ socket' = "closed"

\* A failed handshake, NETCONF session or hello closes what it has opened.
Abandon(from) == GiveUp(from) /\ UNCHANGED bounded /\ Setup

\* Mutant of Handshake: the deadline is cleared once the connection is there.
HandshakeUnbounded ==
  /\ socket = "open"
  /\ Goto("handshake", "session")
  /\ bounded' = FALSE
  /\ UNCHANGED socket /\ Setup

\* ssh.NewClientConn returns when the device answers or the socket breaks.
Handshake ==
  /\ socket = "open"
  /\ Goto("handshake", "session")
  /\ UNCHANGED <<socket, bounded>> /\ Setup

\* The device answers NewSession and Start (SSH) or RequestSubsystem (NETCONF).
Session ==
  /\ socket = "open"
  /\ IF protocol = "ssh"
     THEN /\ Goto("session", "collect")
          /\ reader' = [s \in Streams |-> [state |-> "reading", got |-> 0]]
          /\ waiter' = "waiting"
     ELSE Goto("session", "hello") /\ UNCHANGED <<reader, waiter>>
  /\ UNCHANGED <<protocol, script, socket, bounded, due, cancelled, wire, results, taken, captured>>

\* readNETCONFMessage looks at the context before every byte, and then waits for the
\* byte: there only the device or the socket ends it.
NextHelloByte ==
  /\ IF Done THEN GiveUp("hello") ELSE Goto("hello", "helloByte") /\ UNCHANGED socket
  /\ UNCHANGED bounded /\ Setup

\* exchangeHello: a byte of the server's hello comes; after the last ours is written.
Hello ==
  /\ socket = "open"
  /\ Goto("helloByte", "hello") \/ Goto("helloByte", "rpc")
  /\ UNCHANGED <<socket, bounded>> /\ Setup

\* The failures of these steps: at the device's will, or since the socket broke.
SessionFailsAt(from) ==
  IF from = "session" /\ protocol = "ssh"
  THEN Goto(from, "close") /\ UNCHANGED <<socket, bounded>> /\ Setup
  ELSE Abandon(from)

Refused == \E from \in {"handshake", "session", "helloByte"} : SessionFailsAt(from)

Broken == socket = "dead" /\ Refused

-----------------------------------------------------------------------------
(* Reading the answer *)

\* Every failure after the session is there leaves through the deferred Close.
Fail(from) ==
  /\ Goto(from, "close")
  /\ UNCHANGED <<protocol, script, socket, bounded, due, cancelled, wire, goroutines, captured>>

Return(from, size) ==
  /\ Goto(from, "close")
  /\ captured' = size
  /\ UNCHANGED <<protocol, script, socket, bounded, due, cancelled, wire, goroutines>>

\* The request of Get is written, as far as the device takes it.
WriteRPC ==
  /\ Goto("rpc", "reply")
  /\ UNCHANGED <<socket, bounded>> /\ Setup

WriteFails == socket = "dead" /\ Fail("rpc")

\* readNETCONFMessage: the chunks up to the delimiter, at most maximumBytes
\* before it; then the envelope is bound to the request.
NETCONFBound == MaximumBytes + 1

\* The message without its delimiter.
PayloadSize(got) == got - 1

\* The head of its loop: what the last chunk made of the message, then the context.
NextReplyByte ==
  LET got == reader["stdout"].got IN
  /\ stage = "reply" /\ protocol = "netconf"
  /\ IF got > NETCONFBound THEN Fail("reply")
     ELSE IF got = Total("stdout")
     THEN IF script.reply = "bound" THEN Return("reply", PayloadSize(got)) ELSE Fail("reply")
     ELSE IF Done THEN Fail("reply")
     ELSE /\ Goto("reply", "replyByte")
          /\ UNCHANGED <<socket, bounded>> /\ Setup

\* ReadByte blocks until there is a chunk or the socket is broken.
ReadReply ==
  /\ stage = "replyByte" /\ protocol = "netconf"
  /\ IF reader["stdout"].got < arrived["stdout"]
     THEN /\ Goto("replyByte", "reply")
          /\ reader' = [reader EXCEPT !["stdout"].got = @ + 1]
          /\ UNCHANGED <<protocol, script, socket, bounded, due, cancelled, wire,
                         results, taken, waiter, captured>>
     ELSE socket = "dead" /\ Fail("replyByte")

\* The gNMI call answers within the size limits of the call and of Execute.
Get ==
  /\ socket = "open" /\ ~Done /\ protocol = "gnmi"
  /\ IF script.exit = "ok" /\ script.stdout <= MaximumBytes
     THEN Return("get", script.stdout)
     ELSE Fail("get")

\* It fails with the context; a broken connection fails it as well.
GetFails == (Done \/ socket = "dead") /\ Fail("get")

\* readBounded reads to the end of its stream, or one chunk past the limit.
Read(s) ==
  /\ reader[s].state = "reading"
  /\ reader[s].got < arrived[s] /\ reader[s].got <= MaximumBytes
  /\ reader' = [reader EXCEPT ![s].got = @ + 1]
  /\ UNCHANGED <<protocol, script, stage, socket, bounded, due, cancelled, wire, results, taken,
                 waiter, captured>>

\* The streams end when the channel is closed or the connection is gone.
StreamEnded == ended \/ socket \in {"dead", "closed"}

\* make(chan sshReadResult, 2).
ResultsCapacity == 2

Report(s) ==
  /\ reader[s].state = "reading"
  /\ reader[s].got > MaximumBytes \/ (reader[s].got = arrived[s] /\ StreamEnded)
  /\ Cardinality(results) < ResultsCapacity
  /\ reader' = [reader EXCEPT ![s].state = "done"]
  /\ results' = results \cup {s}
  /\ UNCHANGED <<protocol, script, stage, socket, bounded, due, cancelled, wire, taken, waiter,
                 captured>>

\* session.Wait ends with the requests of the channel; no status is an error.
WaitReturns ==
  /\ waiter = "waiting" /\ StreamEnded
  /\ waiter' = IF status = "ok" THEN "ok" ELSE "failed"
  /\ UNCHANGED <<protocol, script, stage, socket, bounded, due, cancelled, wire, reader, results,
                 taken, captured>>

\* The first loop of readSSHCommand.
Collect(s) ==
  /\ stage = "collect" /\ s \in results
  /\ results' = results \ {s}
  /\ IF reader[s].got > MaximumBytes
     THEN stage' = "close" /\ UNCHANGED taken
     ELSE /\ taken' = taken \cup {s}
          /\ stage' = IF taken' # Streams THEN "collect"
                      ELSE IF reader["stdout"].got + reader["stderr"].got > MaximumBytes
                      THEN "close" ELSE "wait"
  /\ UNCHANGED <<protocol, script, socket, bounded, due, cancelled, wire, reader, waiter, captured>>

\* Its second select, after which standard output is returned.
AwaitStatusAs(isSuccess) ==
  /\ stage = "wait" /\ waiter \in {"ok", "failed"}
  /\ IF isSuccess THEN Return("wait", reader["stdout"].got) ELSE Fail("wait")

\* Mutant of AwaitStatus: an exit that is not looked at.
AwaitAnyStatus == AwaitStatusAs(TRUE)

AwaitStatus == AwaitStatusAs(waiter = "ok")

Interrupted == Done /\ \E from \in {"collect", "wait"} : Fail(from)

\* The deferred Close; an error of it is joined to that of the call.
Close ==
  /\ Goto("close", "returned")
  /\ socket' = "closed"
  /\ captured' \in {captured, Absent}
  /\ UNCHANGED <<protocol, script, bounded, due, cancelled, wire, goroutines>>

\* StubAdapter.Execute.
StubExecute ==
  /\ protocol = "stub"
  /\ Goto("validate", "returned")
  /\ captured' \in IF Done \/ script.stdout > MaximumBytes THEN {Absent} ELSE {Absent, script.stdout}
  /\ UNCHANGED <<protocol, script, socket, bounded, due, cancelled, wire, goroutines>>

-----------------------------------------------------------------------------
(* Specification *)

\* Steps that need nothing of the device: they are taken in the end.
Local ==
  \/ Validate \/ Resolve \/ SetDeadline \/ Broken \/ NextHelloByte \/ WriteFails
  \/ NextReplyByte \/ ReadReply \/ GetFails \/ (Done /\ DialFails) \/ Interrupted
  \/ (\E s \in Streams : Collect(s)) \/ AwaitStatus \/ Close \/ StubExecute

Goroutines == (\E s \in Streams : Read(s) \/ Report(s)) \/ WaitReturns

\* Steps that wait for an answer, which may never come.
Answered == Dial \/ DialFails \/ Handshake \/ Session \/ Hello \/ WriteRPC \/ Refused \/ Get

Execute == Local \/ Goroutines \/ Answered

TransportNext == Deadline \/ Cancel \/ SocketDeadline \/ Device \/ Execute

TransportSpec == TransportInit /\ [][TransportNext]_transportVars

\* Time passes, the runtime schedules the goroutines, and the kernel ends reads
\* at the deadline of the socket.  Of the device and the caller nothing is assumed.
TransportFairness ==
  /\ WF_transportVars(Deadline) /\ WF_transportVars(SocketDeadline)
  /\ WF_transportVars(Local)
  /\ \A s \in Streams : WF_transportVars(Read(s)) /\ WF_transportVars(Report(s))
  /\ WF_transportVars(WaitReturns)

-----------------------------------------------------------------------------
(* Properties *)

\* A payload is returned only if the command succeeded and it is the whole of its
\* output, within the limits: neither the deadline, a lost connection nor a full
\* buffer makes a part of it pass for the whole (SSHAdapter, NETCONFAdapter and
\* GNMIAdapter Execute).  For SSH this needs a device that reports the exit status
\* after its output.
CapturedIsComplete ==
  captured # Absent /\ script.exitLast =>
    /\ captured = script.stdout
    /\ captured + script.stderr <= MaximumBytes
    /\ script.exit = "ok" /\ script.reply = "bound"

\* Whatever the device does, Execute returns, its connection is closed and its
\* goroutines end (dialSSHClient's deadline, the deferred Close calls and the
\* buffered channels of readSSHCommand).
ExecutionEnds ==
  <>[](/\ stage = "returned" /\ socket \in {"none", "closed"}
       /\ \A s \in Streams : reader[s].state # "reading"
       /\ waiter # "waiting")
=============================================================================
