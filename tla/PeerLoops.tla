------------------------------ MODULE PeerLoops ------------------------------
(***************************************************************************)
(* One connected peer of the p2p transport: the loop of Peer.run, readLoop,*)
(* pingLoop, the handlers of the protocols, and other goroutines that send *)
(* messages or call Disconnect.  They share the channels writeStart (the   *)
(* right to write), writeErr, readErr, protoErr, disc, and closed.         *)
(*                                                                         *)
(* A protocol's own code is external: a handler reads, writes, or returns, *)
(* and returns when a read fails (service.HandlePeer).                     *)
(***************************************************************************)
EXTENDS Integers, FiniteSets, Sequences

CONSTANTS Proto,        \* protocols that run on this peer
          Sender,       \* other goroutines
          MaxCalls,     \* bound: messages sent, Disconnects
          MaxReads      \* bound: messages that arrive

ASSUME LoopAssumption == IsFiniteSet(Proto) /\ IsFiniteSet(Sender)

VARIABLES run,          \* Peer.run: "loop", "close", "wait", "returned"
          closed,       \* close(p.closed)
          writeStart, writeErr, readErr, protoErr,
          reader,       \* readLoop: "read", a protocol it has a message for, "fail", "done"
          ping,         \* pingLoop: "wait", "fail", "done"
          handler,      \* proto -> "run", "read", "write", "writing", "report", "done"
          sender,       \* goroutine -> "idle", "write", "writing", "disc"
          up,           \* the connection works
          failed,       \* an operation on the connection has failed
          calls, reads

loopvars == <<run, closed, writeStart, writeErr, readErr, protoErr, reader, ping, handler, sender,
              up, failed, calls, reads>>
chans == <<closed, writeStart, writeErr, readErr, protoErr>>
goroutines == <<reader, ping, handler, sender>>
outside == <<up, failed, calls, reads>>

LoopInit ==
    /\ run = "loop" /\ closed = FALSE
    /\ writeStart = 1 /\ writeErr = <<>> /\ readErr = 0 /\ protoErr = 0
    /\ reader = "read" /\ ping = "wait"
    /\ handler = [p \in Proto |-> "run"] /\ sender = [s \in Sender |-> "idle"]
    /\ up = TRUE /\ failed = FALSE /\ calls = 0 /\ reads = 0

-----------------------------------------------------------------------------
\* Peer.run

runWrote ==
    /\ run = "loop" /\ writeErr # <<>>
    /\ writeErr' = Tail(writeErr)
    /\ IF Head(writeErr) = "ok"
       THEN writeStart' = writeStart + 1 /\ UNCHANGED run
       ELSE run' = "close" /\ UNCHANGED writeStart
    /\ UNCHANGED <<closed, readErr, protoErr, goroutines, outside>>

runFails ==
    /\ run = "loop" /\ run' = "close"
    /\ \/ readErr > 0 /\ readErr' = readErr - 1 /\ UNCHANGED <<protoErr, sender>>
       \/ protoErr > 0 /\ protoErr' = protoErr - 1 /\ UNCHANGED <<readErr, sender>>
       \/ /\ \E s \in Sender : sender[s] = "disc" /\ sender' = [sender EXCEPT ![s] = "idle"]
          /\ UNCHANGED <<readErr, protoErr>>
    /\ UNCHANGED <<closed, writeStart, writeErr, reader, ping, handler, outside>>

\* close(p.closed), p.rw.close
runClose ==
    /\ run = "close" /\ run' = "wait" /\ closed' = TRUE /\ up' = FALSE
    /\ UNCHANGED <<writeStart, writeErr, readErr, protoErr, goroutines, failed, calls, reads>>

\* p.wg.Wait: readLoop, pingLoop and every handler have called Done.
runWait ==
    /\ run = "wait" /\ reader = "done" /\ ping = "done"
    /\ \A p \in Proto : handler[p] \in {"report", "done"}
    /\ run' = "returned"
    /\ UNCHANGED <<chans, goroutines, outside>>

-----------------------------------------------------------------------------
\* readLoop, with handle: a message of the base protocol, one for a
\* protocol, or one that ends the connection.
readMsg ==
    /\ reader = "read"
    /\ \/ up /\ reads < MaxReads /\ reads' = reads + 1 /\ reader' \in Proto \cup {"read", "fail"}
          /\ UNCHANGED failed
       \/ ~up /\ reader' = "fail" /\ failed' = TRUE /\ UNCHANGED reads
    /\ UNCHANGED <<run, chans, ping, handler, sender, up, calls>>

handOver(p) ==
    /\ reader = p /\ handler[p] = "read"
    /\ handler' = [handler EXCEPT ![p] = "run"] /\ reader' = "read"
    /\ UNCHANGED <<run, chans, ping, sender, outside>>

handleWaits == FALSE /\ UNCHANGED loopvars

\* handle: <-p.closed while no protocol takes the message
handleCloses ==
    /\ reader \in Proto /\ closed /\ reader' = "fail"
    /\ UNCHANGED <<run, chans, ping, handler, sender, outside>>

readLoopEnds ==
    /\ reader = "fail" /\ reader' = "done"
    /\ \/ readErr < 1 /\ readErr' = readErr + 1
       \/ closed /\ UNCHANGED readErr
    /\ UNCHANGED <<run, closed, writeStart, writeErr, protoErr, ping, handler, sender, outside>>

pingLoop ==
    /\ \/ ping = "wait" /\ ~up /\ ping' = "fail" /\ failed' = TRUE /\ UNCHANGED protoErr
       \/ ping = "wait" /\ closed /\ ping' = "done" /\ UNCHANGED <<protoErr, failed>>
       \/ /\ ping = "fail" /\ ping' = "done" /\ UNCHANGED failed
          /\ \/ protoErr < Cardinality(Proto) + 1 /\ protoErr' = protoErr + 1
             \/ closed /\ UNCHANGED protoErr
    /\ UNCHANGED <<run, closed, writeStart, writeErr, readErr, reader, handler, sender, up, calls,
                   reads>>

-----------------------------------------------------------------------------
\* startProtocols: proto.Run, then wg.Done and the report

ProtoCalls(p) ==
    /\ handler[p] = "run"
    /\ \/ /\ \E to \in {"read", "report"} : handler' = [handler EXCEPT ![p] = to]
          /\ UNCHANGED calls
       \/ /\ calls < MaxCalls /\ calls' = calls + 1
          /\ handler' = [handler EXCEPT ![p] = "write"]
    /\ UNCHANGED <<run, chans, reader, ping, sender, up, failed, reads>>

protoReadCloses(p) ==
    /\ handler[p] = "read" /\ closed
    /\ handler' = [handler EXCEPT ![p] = "report"]
    /\ UNCHANGED <<run, chans, reader, ping, sender, outside>>

protoReports(p) ==
    /\ handler[p] = "report" /\ handler' = [handler EXCEPT ![p] = "done"]
    /\ \/ protoErr < Cardinality(Proto) + 1 /\ protoErr' = protoErr + 1
       \/ closed /\ UNCHANGED protoErr
    /\ UNCHANGED <<run, closed, writeStart, writeErr, readErr, reader, ping, sender, outside>>

-----------------------------------------------------------------------------
\* protoRW.WriteMsg, by a handler or by another goroutine

At(x) == IF x \in Proto THEN handler[x] ELSE sender[x]

Goes(x, to) ==
    IF x \in Proto
    THEN handler' = [handler EXCEPT ![x] = IF to = "idle" THEN "run" ELSE to] /\ UNCHANGED sender
    ELSE sender' = [sender EXCEPT ![x] = to] /\ UNCHANGED handler

writeAnyhow(x) ==
    /\ At(x) = "write"
    /\ \/ Goes(x, "writing") /\ UNCHANGED writeStart
       \/ closed /\ Goes(x, "idle") /\ UNCHANGED writeStart
    /\ UNCHANGED <<run, closed, writeErr, readErr, protoErr, reader, ping, outside>>

writeMsg(x) ==
    /\ At(x) = "write"
    /\ \/ writeStart > 0 /\ writeStart' = writeStart - 1 /\ Goes(x, "writing")
       \/ closed /\ Goes(x, "idle") /\ UNCHANGED writeStart
    /\ UNCHANGED <<run, closed, writeErr, readErr, protoErr, reader, ping, outside>>

\* rw.w.WriteMsg and rw.werr <- err; writeErr has room for one.
wroteMsg(x) ==
    /\ At(x) = "writing" /\ Len(writeErr) < 1
    /\ writeErr' = Append(writeErr, IF up THEN "ok" ELSE "err")
    /\ failed' = (failed \/ ~up)
    /\ Goes(x, "idle")
    /\ UNCHANGED <<run, closed, writeStart, readErr, protoErr, reader, ping, up, calls, reads>>

Call(s) ==
    /\ sender[s] = "idle" /\ calls < MaxCalls /\ calls' = calls + 1
    /\ \E to \in {"write", "disc"} : sender' = [sender EXCEPT ![s] = to]
    /\ UNCHANGED <<run, chans, reader, ping, handler, up, failed, reads>>

\* Disconnect: <-p.closed
disconnectCloses(s) ==
    /\ sender[s] = "disc" /\ closed
    /\ sender' = [sender EXCEPT ![s] = "idle"]
    /\ UNCHANGED <<run, chans, reader, ping, handler, outside>>

\* The other end goes away.
Breaks ==
    /\ up /\ up' = FALSE
    /\ UNCHANGED <<run, chans, goroutines, failed, calls, reads>>

-----------------------------------------------------------------------------
LoopStep == runWrote \/ runFails \/ runClose \/ runWait
ReadStep == readMsg \/ handleCloses \/ readLoopEnds \/ (\E p \in Proto : handOver(p))
ProtoStep(p) == ProtoCalls(p) \/ protoReadCloses(p) \/ protoReports(p)
WriteStep(x) == writeMsg(x) \/ wroteMsg(x)

LoopNext ==
    \/ LoopStep \/ ReadStep \/ pingLoop \/ Breaks
    \/ \E p \in Proto : ProtoStep(p) \/ WriteStep(p)
    \/ \E s \in Sender : Call(s) \/ disconnectCloses(s) \/ WriteStep(s)

\* Every goroutine that can go on does.
LoopFairness ==
    /\ WF_loopvars(LoopStep) /\ WF_loopvars(ReadStep) /\ WF_loopvars(pingLoop)
    /\ \A p \in Proto : WF_loopvars(ProtoStep(p) \/ WriteStep(p))
    /\ \A s \in Sender : WF_loopvars(disconnectCloses(s) \/ WriteStep(s))

LoopSpec == LoopInit /\ [][LoopNext]_loopvars /\ LoopFairness

-----------------------------------------------------------------------------
(* One goroutine at a time writes to the connection, and the right to      *)
(* write is never lost while the peer lives: it is in writeStart, with the *)
(* writer, or on its way back in writeErr, whose send therefore never      *)
(* blocks (protoRW.WriteMsg, Peer.run).                                    *)
OneWriter ==
    LET held == writeStart + Len(writeErr)
                + Cardinality({x \in Proto \cup Sender : At(x) = "writing"})
    IN held <= 1 /\ (run = "loop" => held = 1)

(* Once Peer.run leaves its loop it returns, and with it nobody stays      *)
(* behind: no read that hands a message to a protocol, no write and no     *)
(* Disconnect waits forever (closed; handle, WriteMsg, Disconnect).        *)
NobodyStaysBehind ==
    <>[](run # "loop" => /\ run = "returned"
                         /\ \A p \in Proto : handler[p] = "done"
                         /\ \A s \in Sender : sender[s] = "idle")
=============================================================================
