----------------------------- MODULE RunStream -----------------------------
(***************************************************************************)
(* `sandman run`: one job streamed over one connection.  The client        *)
(* (client.go: clientRun) forwards its stdin and its signals from two      *)
(* goroutines; the node (daemon.go: handleRun) pumps what it reads into    *)
(* the container, relays the container's output and reports the exit code  *)
(* (job.go); protocol.go frames the messages.                              *)
(*                                                                         *)
(* A frame DATA is two writes, its header and its payload, each flushed by *)
(* itself, and the client's goroutines share the writer without a lock;    *)
(* the stream to the node is a sequence of such writes, taken to be of     *)
(* equal length.  The node forks `docker start` and goes on: the container *)
(* comes up some time later, and a signal sent before is lost.  It ends by *)
(* itself or by a signal; what it wrote waits in a pipe that cmd.Wait      *)
(* closes.                                                                 *)
(***************************************************************************)
EXTENDS Naturals, Sequences

CONSTANTS
  MaxData,    \* bound: chunks the client's stdin has
  MaxSignals, \* bound: signals the user sends
  MaxOutput   \* bound: chunks the container writes

VARIABLES
  conn,      \* the connection: request, docker started, RUNNING written, or refused or closed
  sent,      \* writes in flight to the node
  input,     \* the client's stdin pump: reading, in the middle of a frame, done
  chunks,    \* chunks of stdin sent
  asked,     \* the signals forwarded so far
  client,    \* the client: up, exited with the job's code or lost
  pump,      \* the node's stdin pump: reading, expecting a payload, done
  box,       \* the container: none, being started, up, or down, and how it ended
  pipe,      \* chunks of output the relays have not read
  reader,    \* cmd.Wait has closed the pipe
  relayed,   \* chunks of output sent to the client
  produced,  \* chunks of output the container wrote
  exited,    \* EXIT was sent
  missed     \* history: the kill for a lost client was sent before the container was up

vars == <<conn, sent, input, chunks, asked, client, pump, box, pipe, reader, relayed,
          produced, exited, missed>>
nodeVars == <<pump, box, pipe, reader, relayed, produced, exited, missed>>
clientVars == <<input, chunks, asked, client>>

Writes == {"header", "payload", "EOF", "INT", "KILL"}

TypeOK ==
  /\ conn \in {"request", "started", "open", "refused", "closed"}
  /\ sent \in Seq(Writes)
  /\ input \in {"reading", "framing", "over"} /\ chunks \in 0 .. MaxData
  /\ asked \in 0 .. MaxSignals
  /\ client \in {"up", "exited", "lost", "rejected"}
  /\ pump \in {"reading", "payload", "over"}
  /\ box \in {"none", "starting", "up", "done", "signalled", "killed"}
  /\ pipe \in 0 .. MaxOutput /\ relayed \in 0 .. MaxOutput /\ produced \in 0 .. MaxOutput
  /\ reader \in {"open", "closed"} /\ exited \in BOOLEAN /\ missed \in BOOLEAN

Init ==
  /\ conn = "request" /\ sent = <<>> /\ client = "up"
  /\ input = "reading" /\ chunks = 0 /\ asked = 0
  /\ pump = "reading" /\ box = "none"
  /\ pipe = 0 /\ reader = "open" /\ relayed = 0 /\ produced = 0 /\ exited = FALSE
  /\ missed = FALSE

----------------------------------------------------------------------------
(* handleRun: the container is created, which may take as long as pulling  *)
(* its image does, and `docker start` is forked.                           *)
startJob ==
  /\ conn = "request"
  /\ conn' = "started" /\ box' = "starting"
  /\ UNCHANGED <<sent, clientVars, pump, pipe, reader, relayed, produced, exited, missed>>

(* A malformed or incomplete request, or docker fails: ERR, or the         *)
(* connection closes.                                                      *)
Refuse ==
  /\ conn = "request"
  /\ conn' = "refused" /\ client' = IF client = "up" THEN "rejected" ELSE client
  /\ UNCHANGED <<sent, input, chunks, asked, nodeVars>>

(* The container comes up, or docker cannot start it.                      *)
BoxStarts ==
  /\ box = "starting"
  /\ box' \in {"up", "done"}
  /\ UNCHANGED <<conn, sent, clientVars, pump, pipe, reader, relayed, produced, exited, missed>>

(* Signal and Kill: `docker kill`, once, its error ignored.  It reaches a  *)
(* container that is up; a program may ignore an interrupt.                *)
Signalled(m) == box' \in IF box # "up" THEN {box}
                         ELSE IF m = "INT" THEN {"up", "signalled"} ELSE {"killed"}
KillForLoss == Signalled("KILL") /\ missed' = (missed \/ box = "starting")

(* RUNNING is written, whether the container is up or not; if it cannot be *)
(* written the container is killed and the handler returns.                *)
Announce ==
  /\ conn = "started"
  /\ \/ conn' = "open" /\ UNCHANGED <<pump, box, missed>>
     \/ conn' = "closed" /\ client # "up" /\ pump' = "over" /\ KillForLoss
  /\ UNCHANGED <<sent, clientVars, pipe, reader, relayed, produced, exited>>

(* Each write of the client's goroutines is flushed alone.                 *)
Write(m) == conn = "open" /\ client = "up" /\ sent' = Append(sent, m)

ReadStdin ==
  /\ input = "reading" /\ chunks < MaxData /\ Write("header")
  /\ input' = "framing"
  /\ UNCHANGED <<conn, chunks, asked, client, nodeVars>>

FramePayload ==
  /\ input = "framing" /\ Write("payload")
  /\ input' = "reading" /\ chunks' = chunks + 1
  /\ UNCHANGED <<conn, asked, client, nodeVars>>

StdinEnds ==
  /\ input = "reading" /\ Write("EOF")
  /\ input' = "over"
  /\ UNCHANGED <<conn, chunks, asked, client, nodeVars>>

(* The second signal of a kind is sent as KILL.                            *)
Forward ==
  /\ asked < MaxSignals /\ Write(IF asked = 0 THEN "INT" ELSE "KILL")
  /\ asked' = asked + 1
  /\ UNCHANGED <<conn, input, chunks, client, nodeVars>>

(* The client process is killed, at any time, also while its container is  *)
(* being created or started; its end of the connection closes.             *)
Vanish ==
  /\ conn # "refused" /\ client = "up"
  /\ client' = "lost"
  /\ UNCHANGED <<conn, sent, input, chunks, asked, nodeVars>>

----------------------------------------------------------------------------
Arrived(m) == conn = "open" /\ sent # <<>> /\ Head(sent) = m
Took == sent' = Tail(sent) /\ UNCHANGED <<conn, clientVars>>

(* The pump reads a header, and next the bytes it announced; other lines   *)
(* in their place are taken for them, and the rest is taken for a line.    *)
PumpHeader ==
  /\ pump = "reading" /\ Arrived("header") /\ Took
  /\ pump' = "payload"
  /\ UNCHANGED <<box, pipe, reader, relayed, produced, exited, missed>>

PumpPayload ==
  /\ pump = "payload" /\ \E m \in Writes : Arrived(m)
  /\ Took
  /\ pump' = "reading"
  /\ UNCHANGED <<box, pipe, reader, relayed, produced, exited, missed>>

(* Stdin's bytes are no known line; they are skipped.                      *)
PumpUnknown ==
  /\ pump = "reading" /\ Arrived("payload") /\ Took
  /\ UNCHANGED nodeVars

PumpEOF ==
  /\ pump = "reading" /\ Arrived("EOF") /\ Took
  /\ pump' = "over"
  /\ UNCHANGED <<box, pipe, reader, relayed, produced, exited, missed>>

PumpSignal ==
  /\ pump = "reading" /\ \E m \in {"INT", "KILL"} : Arrived(m) /\ Signalled(m)
  /\ Took
  /\ UNCHANGED <<pump, pipe, reader, relayed, produced, exited, missed>>

(* Mutant of PumpLost: the connection's end stops the pump alone.          *)
PumpLostQuietly ==
  /\ conn = "open" /\ client # "up" /\ sent = <<>> /\ pump # "over"
  /\ pump' = "over"
  /\ UNCHANGED <<conn, sent, clientVars, box, pipe, reader, relayed, produced, exited, missed>>

(* Everything sent has been read and the connection is gone: the container *)
(* is killed.                                                              *)
PumpLost ==
  /\ conn = "open" /\ client # "up" /\ sent = <<>> /\ pump # "over"
  /\ pump' = "over" /\ KillForLoss
  /\ UNCHANGED <<conn, sent, clientVars, pipe, reader, relayed, produced, exited>>

----------------------------------------------------------------------------
Produce ==
  /\ box = "up" /\ produced < MaxOutput
  /\ produced' = produced + 1 /\ pipe' = pipe + 1
  /\ UNCHANGED <<conn, sent, clientVars, pump, box, reader, relayed, exited, missed>>

(* The program ends by itself.                                             *)
BoxExits ==
  /\ box = "up"
  /\ box' = "done"
  /\ UNCHANGED <<conn, sent, clientVars, pump, pipe, reader, relayed, produced, exited, missed>>

Down == box \in {"done", "signalled", "killed"}

(* cmd.Wait returns and closes the pipes, whatever they still hold.        *)
WaitCloses ==
  /\ Down /\ reader = "open"
  /\ reader' = "closed"
  /\ UNCHANGED <<conn, sent, clientVars, pump, box, pipe, relayed, produced, exited, missed>>

(* A relay reads and writes one OUT frame.                                 *)
Relay ==
  /\ conn = "open" /\ reader = "open" /\ pipe > 0 /\ ~exited
  /\ pipe' = pipe - 1
  /\ relayed' = relayed + 1
  /\ UNCHANGED <<conn, sent, clientVars, pump, box, reader, produced, exited, missed>>

(* The exit code is sent once the relays have ended, after the pipes'.     *)
Exit ==
  /\ conn = "open" /\ Down /\ reader = "closed" /\ ~exited
  /\ exited' = TRUE /\ conn' = "closed"
  /\ client' = IF client = "up" THEN "exited" ELSE client
  /\ UNCHANGED <<sent, input, chunks, asked, pump, box, pipe, reader, relayed, produced, missed>>

Next ==
  \/ startJob \/ Refuse \/ Announce \/ BoxStarts
  \/ ReadStdin \/ FramePayload \/ StdinEnds \/ Forward \/ Vanish
  \/ PumpHeader \/ PumpPayload \/ PumpUnknown \/ PumpEOF \/ PumpSignal \/ PumpLost
  \/ Produce \/ BoxExits \/ WaitCloses \/ Relay \/ Exit

(* The handler, the pump, the relays and the wait run; docker may take as  *)
(* long as it likes, the program in the container need not end, nor the    *)
(* user type.                                                              *)
Pump == PumpHeader \/ PumpPayload \/ PumpUnknown \/ PumpEOF \/ PumpSignal \/ PumpLost
Fairness ==
  /\ WF_vars(Announce) /\ WF_vars(Pump)
  /\ WF_vars(WaitCloses) /\ WF_vars(Relay) /\ WF_vars(Exit)

Spec == Init /\ [][Next]_vars
FairSpec == Spec /\ Fairness

----------------------------------------------------------------------------
(* A client that dies before the end of its stdin takes its job with it,   *)
(* whatever it had sent and in whatever state its frames and its container *)
(* were (daemon.go: "A dead connection means a dead client - kill the job, *)
(* leave no orphans"), but for a container that was not up yet when the    *)
(* one kill was sent.                                                      *)
NoOrphan == []<>(client = "lost" /\ input # "over" => box = "none" \/ Down \/ missed)

(* The comment itself.  It fails: the kill is lost on a container that is  *)
(* being started, and is not repeated.                                     *)
NoOrphanEver == []<>(client = "lost" /\ input # "over" => box = "none" \/ Down)

(* The same after the end of its stdin. It fails besides: the pump that    *)
(* would notice the dead connection returned at the end of stdin.          *)
NoOrphanAfterEOF == []<>(client = "lost" => box = "none" \/ Down \/ missed)

(* The second Ctrl-C ends the job (client.go: "The second Ctrl-C escalates *)
(* to SIGKILL, like any self-respecting terminal"). It fails after the end *)
(* of stdin, when nobody reads signals any more.                           *)
SecondSignalKills == (asked = 2) ~> (Down \/ client = "lost")

(* The client has all the output when it learns the exit code (daemon.go:  *)
(* "flush remaining output before declaring the exit code"). It fails:     *)
(* cmd.Wait closes the pipes under the relays.                             *)
OutputBeforeExit == client = "exited" => relayed = produced

(* A signal is never taken for the bytes of a frame, nor bytes for a line. *)
(* It fails: two goroutines of the client share the writer.                *)
FramesWhole == pump = "payload" /\ sent # <<>> => Head(sent) = "payload"
=============================================================================
