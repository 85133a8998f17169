---------------------------- MODULE BridgeStream ----------------------------
(***************************************************************************)
(* One converted stream, from pluginBridge.BridgeStream's return to the    *)
(* end of its goroutines (pkg/llmbridge/plugin_client.go:337-453).         *)
(*                                                                         *)
(*   upstream --read--> [up pump] --gRPC--> plugin --gRPC--> [down pump]   *)
(*                                              --io.Pipe--> consumer      *)
(*                                                                         *)
(* The up pump reads the upstream's body and sends it to the plugin, the   *)
(* down pump receives what the plugin makes of it and writes it into a     *)
(* pipe the gateway's copy loop reads.  Either pump may close the pipe,    *)
(* with an error or cleanly; whichever comes first is what the consumer    *)
(* reads.  Each pump runs closeAll when it returns, and so does the        *)
(* consumer's Close.                                                       *)
(*                                                                         *)
(* Data frames are only counted.  The plugin turns each into one frame of  *)
(* its own and ends well only after it has read the End frame; it may fail *)
(* or die at any time.  Both directions of the RPC hold at most Window     *)
(* frames: HTTP/2 flow control blocks the sender beyond that.              *)
(***************************************************************************)
EXTENDS Naturals, Sequences

CONSTANTS
    MaxChunks,      \* bound: chunks of one upstream body
    Window          \* frames in flight in one direction of the RPC

ASSUME ChunksAssumption == MaxChunks \in Nat
ASSUME WindowAssumption == Window \in Nat \ {0}

VARIABLES
    chunks,         \* chunks the upstream has delivered to the up pump
    ending,         \* how the body ended for the up pump: "no" (not yet),
                    \* "eof", "broken", or "closed" by the host itself
    bodyOpen,       \* upstreamBody is not closed
    up,             \* where the up pump is
    down,           \* where the down pump is
    toPlugin,       \* frames on their way to the plugin
    halfClosed,     \* stream.CloseSend has been called
    plugin,         \* the plugin's handler: "running", or how it ended
    pending,        \* a frame the plugin has still to send
    toHost,         \* frames on their way to the host
    pipe,           \* "open", or what the writer closed it with: "eof", "error"
    consumer,       \* where the consumer is
    got,            \* frames it has read
    cancelled       \* the attempt's context is done

upVars == <<chunks, ending, bodyOpen, up>>
rpcVars == <<toPlugin, halfClosed, plugin, pending, toHost>>
readerVars == <<pipe, consumer, got>>
vars == <<upVars, rpcVars, down, readerVars, cancelled>>

Init ==
    /\ chunks = 0 /\ ending = "no" /\ bodyOpen = TRUE /\ up = "read"
    /\ down = "recv"
    /\ toPlugin = <<>> /\ halfClosed = FALSE
    /\ plugin = "running" /\ pending = "none" /\ toHost = <<>>
    /\ pipe = "open" /\ consumer = "reading" /\ got = 0
    /\ cancelled = FALSE

-----------------------------------------------------------------------------
\* pw.Close and pw.CloseWithError: the first one counts.
ClosePipe(how) == pipe' = IF pipe = "open" THEN how ELSE pipe

\* closeAll, run once by whoever comes first.
CloseAll ==
    /\ bodyOpen' = FALSE
    /\ halfClosed' = TRUE

\* The RPC is over for the host: Send fails, Recv fails once the frames that
\* have arrived are read.
RpcOver == plugin # "running" \/ cancelled

-----------------------------------------------------------------------------
\* The up pump.

\* upstreamBody.Read returns a chunk.
ReadChunk ==
    /\ up = "read"
    /\ bodyOpen /\ ~cancelled
    /\ ending = "no" /\ chunks < MaxChunks
    /\ chunks' = chunks + 1
    /\ up' = "sendData"
    /\ UNCHANGED <<ending, bodyOpen, rpcVars, down, readerVars, cancelled>>

ReadEOF ==
    /\ up = "read"
    /\ bodyOpen /\ ~cancelled
    /\ ending' = "eof"
    /\ up' = "sendEnd"
    /\ UNCHANGED <<chunks, bodyOpen, rpcVars, down, readerVars, cancelled>>

\* It fails: the connection broke, or the body was closed or its request
\* cancelled under the read.
ReadFails ==
    /\ up = "read"
    /\ ending' = IF bodyOpen THEN "broken" ELSE "closed"
    /\ up' = "sendError"
    /\ UNCHANGED <<chunks, bodyOpen, rpcVars, down, readerVars, cancelled>>

CanSend == ~RpcOver /\ ~halfClosed

SendData ==
    /\ up = "sendData"
    /\ CanSend /\ Len(toPlugin) < Window
    /\ toPlugin' = Append(toPlugin, "data")
    /\ up' = "read"
    /\ UNCHANGED <<chunks, ending, bodyOpen, halfClosed, plugin, pending,
                   toHost, down, readerVars, cancelled>>

SendDataFails ==
    /\ up = "sendData"
    /\ ~CanSend
    /\ ClosePipe("error")
    /\ up' = "return"
    /\ UNCHANGED <<chunks, ending, bodyOpen, rpcVars, down, consumer, got,
                   cancelled>>

\* Mutant: CloseSend stands in for the End frame.
SendEnd_Omitted ==
    /\ up = "sendEnd"
    /\ up' = "return"
    /\ UNCHANGED <<chunks, ending, bodyOpen, rpcVars, down, readerVars, cancelled>>

SendEnd ==
    /\ up = "sendEnd"
    /\ CanSend /\ Len(toPlugin) < Window
    /\ toPlugin' = Append(toPlugin, "end")
    /\ up' = "return"
    /\ UNCHANGED <<chunks, ending, bodyOpen, halfClosed, plugin, pending,
                   toHost, down, readerVars, cancelled>>

SendEndFails ==
    /\ up = "sendEnd"
    /\ ~CanSend
    /\ ClosePipe("error")
    /\ up' = "return"
    /\ UNCHANGED <<chunks, ending, bodyOpen, rpcVars, down, consumer, got,
                   cancelled>>

\* The Error frame may or may not get through; its result is not looked at.
SendError ==
    /\ up = "sendError"
    /\ \/ ~CanSend /\ UNCHANGED toPlugin
       \/ /\ CanSend /\ Len(toPlugin) < Window
          /\ toPlugin' = Append(toPlugin, "error")
    /\ up' = "closePipe"
    /\ UNCHANGED <<chunks, ending, bodyOpen, halfClosed, plugin, pending,
                   toHost, down, readerVars, cancelled>>

ClosePipeWithReadError ==
    /\ up = "closePipe"
    /\ ClosePipe("error")
    /\ up' = "return"
    /\ UNCHANGED <<chunks, ending, bodyOpen, rpcVars, down, consumer, got,
                   cancelled>>

UpReturns ==
    /\ up = "return"
    /\ CloseAll
    /\ up' = "done"
    /\ UNCHANGED <<chunks, ending, toPlugin, plugin, pending, toHost, down,
                   readerVars, cancelled>>

-----------------------------------------------------------------------------
\* The plugin's handler (cmd/picotera-llmbridge-plugin/main.go:133-172).

PluginReads ==
    /\ plugin = "running" /\ pending = "none" /\ ~cancelled
    /\ toPlugin # <<>>
    /\ toPlugin' = Tail(toPlugin)
    /\ pending' = Head(toPlugin)
    /\ UNCHANGED <<upVars, halfClosed, plugin, toHost, down, readerVars, cancelled>>

\* Recv returns io.EOF with no End frame read: io.ErrUnexpectedEOF.
PluginCutOff ==
    /\ plugin = "running" /\ pending = "none" /\ ~cancelled
    /\ toPlugin = <<>> /\ halfClosed
    /\ pending' = "cutOff"
    /\ UNCHANGED <<upVars, toPlugin, halfClosed, plugin, toHost, down,
                   readerVars, cancelled>>

PluginSends ==
    /\ plugin = "running" /\ ~cancelled
    /\ pending = "data" /\ Len(toHost) < Window
    /\ toHost' = Append(toHost, "data")
    /\ pending' = "none"
    /\ UNCHANGED <<upVars, toPlugin, halfClosed, plugin, down, readerVars, cancelled>>

PluginFinishes ==
    /\ plugin = "running" /\ ~cancelled
    /\ pending = "end"
    /\ plugin' = "ok"
    /\ UNCHANGED <<upVars, toPlugin, halfClosed, pending, toHost, down,
                   readerVars, cancelled>>

\* The conversion fails, on an Error frame or on data it cannot convert:
\* sendStreamError sends a frame and the handler returns a status.
PluginFails ==
    /\ plugin = "running" /\ ~cancelled
    /\ pending \in {"error", "data", "cutOff"} /\ Len(toHost) < Window
    /\ toHost' = Append(toHost, "error")
    /\ plugin' = IF pending = "cutOff" THEN "cutOff" ELSE "failed"
    /\ UNCHANGED <<upVars, toPlugin, halfClosed, pending, down, readerVars, cancelled>>

\* The process dies, is killed by Close, or a cancelled context ends the
\* handler: frames on their way may be lost.
PluginDies ==
    /\ plugin = "running"
    /\ plugin' = "failed"
    /\ toHost' \in {toHost, <<>>}
    /\ UNCHANGED <<upVars, toPlugin, halfClosed, pending, down, readerVars, cancelled>>

-----------------------------------------------------------------------------
\* The down pump.

RecvData ==
    /\ down = "recv"
    /\ toHost # <<>> /\ Head(toHost) = "data"
    /\ toHost' = Tail(toHost)
    /\ down' = "write"
    /\ UNCHANGED <<upVars, toPlugin, halfClosed, plugin, pending, readerVars, cancelled>>

RecvError ==
    /\ down = "recv"
    /\ toHost # <<>> /\ Head(toHost) = "error"
    /\ toHost' = Tail(toHost)
    /\ ClosePipe("error")
    /\ down' = "return"
    /\ UNCHANGED <<upVars, toPlugin, halfClosed, plugin, pending, consumer,
                   got, cancelled>>

\* Mutant: any end of the RPC is taken for the end of the stream.
RecvOver_AlwaysEOF ==
    /\ down = "recv"
    /\ (toHost = <<>> /\ plugin # "running") \/ cancelled
    /\ ClosePipe("eof")
    /\ down' = "return"
    /\ UNCHANGED <<upVars, rpcVars, consumer, got, cancelled>>

\* Mutant: the pump returns without closing the pipe.
RecvOver_KeepsPipe ==
    /\ down = "recv"
    /\ (toHost = <<>> /\ plugin # "running") \/ cancelled
    /\ down' = "return"
    /\ UNCHANGED <<upVars, rpcVars, readerVars, cancelled>>

\* stream.Recv returns io.EOF for an RPC that ended well, else its status.
RecvOver ==
    /\ down = "recv"
    /\ \/ toHost = <<>> /\ plugin = "ok" /\ ClosePipe("eof")
       \/ toHost = <<>> /\ plugin \in {"failed", "cutOff"} /\ ClosePipe("error")
       \/ cancelled /\ ClosePipe("error")
    /\ down' = "return"
    /\ UNCHANGED <<upVars, rpcVars, consumer, got, cancelled>>

\* pw.Write returns an error: a side of the pipe has been closed.
WriteFails ==
    /\ down = "write"
    /\ pipe # "open" \/ consumer = "closed"
    /\ down' = "return"
    /\ UNCHANGED <<upVars, rpcVars, readerVars, cancelled>>

DownReturns ==
    /\ down = "return"
    /\ CloseAll
    /\ down' = "done"
    /\ UNCHANGED <<chunks, ending, up, toPlugin, plugin, pending, toHost,
                   readerVars, cancelled>>

-----------------------------------------------------------------------------
\* The consumer.

\* A read meets a write: io.Pipe has no buffer.
Read ==
    /\ consumer = "reading" /\ pipe = "open"
    /\ down = "write"
    /\ got' = got + 1
    /\ down' = "recv"
    /\ UNCHANGED <<upVars, rpcVars, pipe, consumer, cancelled>>

ReadOver ==
    /\ consumer = "reading" /\ pipe # "open"
    /\ consumer' = pipe
    /\ UNCHANGED <<upVars, rpcVars, down, pipe, got, cancelled>>

\* pluginStreamReadCloser.Close, deferred by the copy loop's caller; the loop
\* also leaves early, when its client is gone.
Close ==
    /\ consumer \in {"reading", "eof", "error"}
    /\ consumer' = "closed"
    /\ CloseAll
    /\ UNCHANGED <<chunks, ending, up, toPlugin, plugin, pending, toHost, down,
                   pipe, got, cancelled>>

\* The attempt's context: cancelled by an interrupt, a client that left, or
\* at the latest by runSingleAttempt's defer.
Cancel ==
    /\ ~cancelled
    /\ cancelled' = TRUE
    /\ UNCHANGED <<upVars, rpcVars, down, readerVars>>

-----------------------------------------------------------------------------
UpStep ==
    \/ ReadChunk \/ ReadEOF \/ ReadFails
    \/ SendData \/ SendDataFails \/ SendEnd \/ SendEndFails
    \/ SendError \/ ClosePipeWithReadError \/ UpReturns

PluginStep ==
    PluginReads \/ PluginCutOff \/ PluginSends \/ PluginFinishes \/ PluginFails

DownStep == RecvData \/ RecvError \/ RecvOver \/ WriteFails \/ DownReturns

Next ==
    \/ UpStep \/ PluginStep \/ PluginDies \/ DownStep
    \/ Read \/ ReadOver \/ Close \/ Cancel

Spec == Init /\ [][Next]_vars

\* The pumps run on, except where they wait for a peer: in a read for the
\* upstream, in a send for the plugin.  Closing the body, or the context,
\* ends the first wait; only the end of the RPC ends the second, for CloseSend
\* does not wake a Send that is blocked on flow control.
UpRuns ==
    \/ ReadFails /\ (~bodyOpen \/ cancelled)
    \/ SendData \/ SendEnd
    \/ (SendDataFails \/ SendEndFails) /\ RpcOver
    \/ SendError /\ (RpcOver \/ CanSend)
    \/ ClosePipeWithReadError \/ UpReturns

\* The consumer closes what it has read to the end, and then the attempt's
\* deferred cancel runs (gateway_flow_attempts.go:100-136).
FairSpec ==
    /\ Spec
    /\ WF_vars(UpRuns)
    /\ WF_vars(DownStep)
    /\ WF_vars(Close /\ consumer # "reading")
    /\ WF_vars(Cancel /\ consumer = "closed")

-----------------------------------------------------------------------------
Frame == {"data", "end", "error"}

\* Every variable has its type; no direction holds more than Window frames.
TypeOK ==
    /\ chunks \in 0..MaxChunks /\ got \in 0..MaxChunks
    /\ ending \in {"no", "eof", "broken", "closed"}
    /\ bodyOpen \in BOOLEAN /\ halfClosed \in BOOLEAN /\ cancelled \in BOOLEAN
    /\ up \in {"read", "sendData", "sendEnd", "sendError", "closePipe",
               "return", "done"}
    /\ down \in {"recv", "write", "return", "done"}
    /\ toPlugin \in Seq(Frame) /\ Len(toPlugin) <= Window
    /\ toHost \in Seq(Frame) /\ Len(toHost) <= Window
    /\ plugin \in {"running", "ok", "failed", "cutOff"}
    /\ pending \in {"none", "data", "end", "error", "cutOff"}
    /\ pipe \in {"open", "eof", "error"}
    /\ consumer \in {"reading", "eof", "error", "closed"}

\* A clean end of the converted stream means that the upstream ended cleanly
\* and that everything it sent was converted and read.  A broken upstream, a
\* plugin that died and a conversion that failed never look like the end of
\* an answer (plugin_client.go:298-302, 361-372, 378-387).
CleanEOFIsComplete ==
    pipe = "eof" => ending = "eof" /\ got = chunks

\* The pumps do not break each other's stream: when the pipe ends in an error,
\* the upstream, the plugin, the context or the consumer has failed before,
\* and not because the host itself closed the body or cut the plugin off.
\* Both pumps run closeAll, which closes the body under the other's read and
\* half-closes the RPC under its sends (plugin_client.go:339-346).
ErrorHasCause ==
    pipe = "error" =>
        \/ ending = "broken"
        \/ plugin = "failed"
        \/ cancelled
        \/ consumer = "closed"

\* Everybody does their part: the upstream sends or ends, the plugin works,
\* the consumer reads.
PeersWork ==
    /\ WF_vars(ReadChunk \/ ReadEOF)
    /\ WF_vars(PluginStep)
    /\ WF_vars(Read \/ ReadOver)

\* A stream whose peers all work ends for its consumer: two bounded windows
\* and an unbuffered pipe in a row do not come to a standstill.  And neither
\* goroutine outlives the attempt, though the upstream may be silent and the
\* plugin may have stopped reading and writing.
StreamEnds ==
    /\ PeersWork => (consumer = "reading" ~> consumer # "reading")
    /\ consumer = "closed" ~> up = "done" /\ down = "done"

=============================================================================
