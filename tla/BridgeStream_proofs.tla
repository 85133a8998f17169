------------------------ MODULE BridgeStream_proofs ------------------------
(***************************************************************************)
(* Proofs about one converted stream, for any number of chunks and any     *)
(* window: how it ends is told truthfully to its reader.                   *)
(***************************************************************************)
EXTENDS BridgeStream, TLAPS

One(x, v) == IF x = v THEN 1 ELSE 0

\* The data frames of a direction in which only the last frame can be another.
DataOn(q) == IF q = <<>> \/ q[Len(q)] = "data" THEN Len(q) ELSE Len(q) - 1

AllData(q) == \A i \in 1..Len(q) : q[i] = "data"
DataButLast(q) == \A i \in 1..Len(q) - 1 : q[i] = "data"
EndOn(q) == q # <<>> /\ q[Len(q)] = "end"

\* Every frame of data between the upstream and the reader.
Delivered ==
    got + One(down, "write") + DataOn(toHost) + One(pending, "data")
        + DataOn(toPlugin) + One(up, "sendData")

\* No chunk has been given up on the way.
Flowing ==
    /\ up \in {"read", "sendData"} \/ ending = "eof"
    /\ down \in {"recv", "write"}
    /\ plugin \in {"running", "ok"}

CountInv ==
    /\ Delivered <= chunks
    /\ Flowing => Delivered = chunks

\* The End frame comes after all data, and the plugin ends well only after it.
OrderInv ==
    /\ DataButLast(toHost)
    /\ plugin \in {"running", "ok"} => AllData(toHost)
    /\ DataButLast(toPlugin)
    /\ up \in {"read", "sendData", "sendEnd", "sendError"} =>
         AllData(toPlugin) /\ pending \notin {"end", "error"}
    /\ up \in {"read", "sendData"} => ending = "no"
    /\ up = "sendEnd" => ending = "eof"
    /\ up \in {"sendError", "closePipe"} => ending \in {"broken", "closed"}
    /\ EndOn(toPlugin) => ending = "eof"
    /\ pending \in {"end", "error"} => toPlugin = <<>>
    /\ pending = "end" => ending = "eof"
    /\ plugin = "ok" => pending = "end"

\* Somebody other than the host's own goroutines has ended the stream.
Cause ==
    \/ ending = "broken"
    \/ plugin = "failed"
    \/ cancelled
    \/ consumer = "closed"

\* The pipe is closed before closeAll runs, so a pump that meets what the other
\* has closed comes too late to spoil the stream.
CauseInv ==
    /\ pipe = "eof" => ending = "eof" /\ got = chunks /\ plugin = "ok"
    /\ pipe = "error" => Cause
    /\ down \in {"return", "done"} => pipe # "open" \/ consumer = "closed"
    /\ up \in {"return", "done"} /\ pipe = "open" =>
         /\ ending = "eof"
         /\ EndOn(toPlugin) \/ pending = "end" \/ plugin # "running"
    /\ ~bodyOpen \/ halfClosed => up = "done" \/ down = "done" \/ consumer = "closed"
    /\ ending = "closed" => Cause
    /\ pending = "cutOff" \/ plugin = "cutOff" => Cause

StreamInv == TypeOK /\ OrderInv /\ CountInv /\ CauseInv

-----------------------------------------------------------------------------
\* A direction's data frames are a natural number, and all of its frames when
\* it carries nothing else.
LEMMA DataIsNat ==
    ASSUME NEW q \in Seq(Frame)
    PROVE  /\ DataOn(q) \in Nat
           /\ q = <<>> => DataOn(q) = 0 /\ AllData(q) /\ DataButLast(q) /\ ~EndOn(q)
           /\ AllData(q) => DataOn(q) = Len(q)
<1>1. Len(q) \in Nat /\ (q = <<>> <=> Len(q) = 0)
  OBVIOUS
<1>2. CASE q = <<>>
  BY <1>1, <1>2 DEF DataOn, AllData, DataButLast, EndOn
<1>3. CASE q # <<>>
  <2>1. Len(q) \in 1..Len(q) /\ Len(q) - 1 \in Nat
    BY <1>1, <1>3
  <2>2. AllData(q) => q[Len(q)] = "data"
    BY <2>1 DEF AllData
  <2>3. DataOn(q) \in Nat /\ (q[Len(q)] = "data" => DataOn(q) = Len(q))
    BY <1>1, <2>1 DEF DataOn
  <2> QED
    BY <1>3, <2>2, <2>3
<1> QED
  BY <1>2, <1>3

\* Append to a direction that has carried only data.
LEMMA Appended ==
    ASSUME NEW q \in Seq(Frame), AllData(q), NEW f \in Frame
    PROVE  /\ Append(q, f) \in Seq(Frame) /\ Len(Append(q, f)) = Len(q) + 1
           /\ Append(q, f) # <<>>
           /\ DataButLast(Append(q, f))
           /\ f = "data" => AllData(Append(q, f))
           /\ EndOn(Append(q, f)) <=> f = "end"
           /\ DataOn(Append(q, f)) = DataOn(q) + One(f, "data")
<1> DEFINE r == Append(q, f)
<1>1. /\ Len(q) \in Nat /\ r \in Seq(Frame) /\ Len(r) = Len(q) + 1 /\ r # <<>>
      /\ \A i \in 1..Len(q) : r[i] = q[i]
      /\ r[Len(r)] = f
  OBVIOUS
<1> HIDE DEF r
<1>2. \A i \in 1..Len(q) : r[i] = "data"
  BY <1>1 DEF AllData
<1>3. DataButLast(r) /\ (f = "data" => AllData(r))
  BY <1>1, <1>2 DEF AllData, DataButLast
<1>4. EndOn(r) <=> f = "end"
  BY <1>1 DEF EndOn
<1>5. DataOn(r) = DataOn(q) + One(f, "data")
  <2>1. DataOn(q) = Len(q)
    BY DataIsNat
  <2>2. DataOn(r) = IF f = "data" THEN Len(q) + 1 ELSE Len(q)
    BY <1>1 DEF DataOn
  <2> QED
    BY <1>1, <2>1, <2>2 DEF One
<1> QED
  BY <1>1, <1>3, <1>4, <1>5 DEF r

\* What is read off a direction.
LEMMA Taken ==
    ASSUME NEW q \in Seq(Frame), q # <<>>, DataButLast(q)
    PROVE  /\ Tail(q) \in Seq(Frame) /\ Len(Tail(q)) = Len(q) - 1 /\ Head(q) \in Frame
           /\ DataButLast(Tail(q))
           /\ AllData(q) => AllData(Tail(q)) /\ Head(q) = "data"
           /\ DataOn(q) = DataOn(Tail(q)) + One(Head(q), "data")
           /\ Head(q) # "data" => Tail(q) = <<>>
           /\ EndOn(q) <=> EndOn(Tail(q)) \/ Head(q) = "end"
<1> DEFINE r == Tail(q)
           n == Len(q)
<1>1. /\ r \in Seq(Frame) /\ Len(r) = n - 1 /\ n \in Nat \ {0}
      /\ Head(q) = q[1] /\ Head(q) \in Frame
      /\ \A i \in 1..n - 1 : r[i] = q[i + 1]
  OBVIOUS
<1> HIDE DEF r, n
<1>2. DataButLast(r) /\ (AllData(q) => AllData(r) /\ Head(q) = "data")
  <2>1. \A i \in 1..n - 1 : i + 1 \in 1..n /\ (i \in 1..Len(r) - 1 => i + 1 \in 1..n - 1)
    BY <1>1
  <2>2. \A i \in 1..n - 1 : q[i] = "data"
    BY DEF DataButLast, n
  <2>3. DataButLast(r)
    <3> SUFFICES ASSUME NEW i \in 1..Len(r) - 1 PROVE r[i] = "data"
      BY DEF DataButLast
    <3>1. i \in 1..n - 1 /\ i + 1 \in 1..n - 1
      BY <1>1
    <3> QED
      BY <1>1, <2>2, <3>1
  <2>4. ASSUME AllData(q) PROVE AllData(r) /\ Head(q) = "data"
    <3>1. \A i \in 1..n : q[i] = "data"
      BY <2>4 DEF AllData, n
    <3> QED
      BY <1>1, <2>1, <3>1 DEF AllData
  <2> QED
    BY <2>3, <2>4
<1>3. CASE n = 1
  <2>1. r = <<>> /\ q[n] = Head(q)
    <3>1. \A t \in Seq(Frame) : Len(t) = 0 => t = <<>>
      OBVIOUS
    <3> QED
      BY <1>1, <1>3, <3>1
  <2>2. DataOn(r) = 0 /\ ~EndOn(r)
    BY <1>1, <2>1, DataIsNat
  <2>3. DataOn(q) = IF Head(q) = "data" THEN 1 ELSE 0
    BY <1>3, <2>1 DEF DataOn, n
  <2>4. EndOn(q) <=> Head(q) = "end"
    BY <2>1 DEF EndOn, n
  <2> QED
    BY <1>1, <1>2, <2>1, <2>2, <2>3, <2>4 DEF One, r, n
<1>4. CASE n # 1
  <2>1. Head(q) = "data" /\ r # <<>>
    <3>1. <<>> \in Seq(Frame) /\ Len(<<>>) = 0
      OBVIOUS
    <3> QED
      BY <1>1, <1>4, <3>1 DEF DataButLast, n
  <2>2. Len(r) \in 1..n - 1 /\ Len(r) + 1 = n
    BY <1>1, <1>4
  <2>3. r[Len(r)] = q[n]
    BY <1>1, <2>2
  <2>4. DataOn(q) = DataOn(r) + 1
    BY <1>1, <2>1, <2>2, <2>3 DEF DataOn, n
  <2>5. EndOn(q) <=> EndOn(r)
    BY <2>1, <2>3 DEF EndOn, n
  <2> QED
    BY <1>1, <1>2, <2>1, <2>4, <2>5 DEF One, r, n
<1> QED
  BY <1>3, <1>4

-----------------------------------------------------------------------------
\* The invariant holds of a stream that has just been opened.
LEMMA InitStream == Init => StreamInv
<1> SUFFICES ASSUME Init PROVE StreamInv
  OBVIOUS
<1>1. toPlugin = <<>> /\ toHost = <<>> /\ <<>> \in Seq(Frame) /\ Len(<<>>) = 0
  BY DEF Init
<1>2. DataOn(toPlugin) = 0 /\ DataOn(toHost) = 0 /\ AllData(<<>>) /\ DataButLast(<<>>)
  BY <1>1, DataIsNat DEF AllData, DataButLast
<1>3. TypeOK
  <2>1. bodyOpen \in BOOLEAN /\ halfClosed \in BOOLEAN /\ cancelled \in BOOLEAN
    BY DEF Init
  <2>2. Len(toPlugin) <= Window /\ Len(toHost) <= Window
    BY <1>1, WindowAssumption
  <2> QED
    BY <1>1, <2>1, <2>2, ChunksAssumption DEF Init, TypeOK
<1>4. OrderInv
  BY <1>1, <1>2 DEF Init, OrderInv, EndOn
<1>5. CountInv
  BY <1>2 DEF Init, CountInv, Delivered, Flowing, One
<1>6. CauseInv
  BY DEF Init, CauseInv
<1> QED
  BY <1>3, <1>4, <1>5, <1>6 DEF StreamInv

\* What a step does to the two directions and to every part of the invariant.
LEMMA StreamStep ==
    ASSUME StreamInv, [Next]_vars
    PROVE  StreamInv'
<1> USE DEF upVars, rpcVars, readerVars
<1>1. /\ TypeOK /\ OrderInv /\ CountInv /\ CauseInv
      /\ MaxChunks \in Nat /\ Window \in Nat /\ Window > 0
      /\ toPlugin \in Seq(Frame) /\ toHost \in Seq(Frame)
      /\ DataButLast(toPlugin) /\ DataButLast(toHost)
      /\ Len(toPlugin) \in Nat /\ Len(toHost) \in Nat
      /\ DataOn(toPlugin) \in Nat /\ DataOn(toHost) \in Nat
      /\ (up \in {"sendData", "sendEnd", "sendError"} => AllData(toPlugin))
      /\ (plugin \in {"running", "ok"} => AllData(toHost))
      /\ (toPlugin = <<>> => DataOn(toPlugin) = 0)
      /\ (toHost = <<>> => DataOn(toHost) = 0)
  BY ChunksAssumption, WindowAssumption, DataIsNat DEF StreamInv, TypeOK, OrderInv
<1>2. CASE ReadChunk
  <2>1. UNCHANGED <<toPlugin, toHost>>
    BY <1>2 DEF ReadChunk
  <2>3. TypeOK'
    BY <1>1, <1>2, <2>1 DEF ReadChunk, TypeOK, CountInv, Delivered, One, Frame
  <2>4. OrderInv'
    BY <1>1, <1>2, <2>1 DEF ReadChunk, TypeOK, OrderInv
  <2>5. CountInv'
    BY <1>1, <1>2, <2>1 DEF ReadChunk, TypeOK, OrderInv, CountInv, Delivered, Flowing, One
  <2>6. CauseInv'
    BY <1>1, <1>2, <2>1 DEF ReadChunk, TypeOK, OrderInv, CauseInv, Cause
  <2> QED
    BY <2>3, <2>4, <2>5, <2>6 DEF StreamInv
<1>3. CASE ReadEOF
  <2>1. UNCHANGED <<toPlugin, toHost>>
    BY <1>3 DEF ReadEOF
  <2>3. TypeOK'
    BY <1>1, <1>3, <2>1 DEF ReadEOF, TypeOK, CountInv, Delivered, One, Frame
  <2>4. OrderInv'
    BY <1>1, <1>3, <2>1 DEF ReadEOF, TypeOK, OrderInv
  <2>5. CountInv'
    BY <1>1, <1>3, <2>1 DEF ReadEOF, TypeOK, OrderInv, CountInv, Delivered, Flowing, One
  <2>6. CauseInv'
    BY <1>1, <1>3, <2>1 DEF ReadEOF, TypeOK, OrderInv, CauseInv, Cause
  <2> QED
    BY <2>3, <2>4, <2>5, <2>6 DEF StreamInv
<1>4. CASE ReadFails
  <2>1. UNCHANGED <<toPlugin, toHost>>
    BY <1>4 DEF ReadFails
  <2>3. TypeOK'
    BY <1>1, <1>4, <2>1 DEF ReadFails, TypeOK, CountInv, Delivered, One, Frame
  <2>4. OrderInv'
    BY <1>1, <1>4, <2>1 DEF ReadFails, TypeOK, OrderInv
  <2>5. CountInv'
    BY <1>1, <1>4, <2>1 DEF ReadFails, TypeOK, OrderInv, CountInv, Delivered, Flowing, One
  <2>6. CauseInv'
    BY <1>1, <1>4, <2>1 DEF ReadFails, TypeOK, OrderInv, CauseInv, Cause
  <2> QED
    BY <2>3, <2>4, <2>5, <2>6 DEF StreamInv
<1>5. CASE SendData
  <2>1. toPlugin' = Append(toPlugin, "data") /\ AllData(toPlugin) /\ UNCHANGED toHost
    BY <1>1, <1>5 DEF SendData, CanSend
  <2>2. /\ toPlugin' \in Seq(Frame) /\ Len(toPlugin') = Len(toPlugin) + 1 /\ toPlugin' # <<>>
        /\ DataButLast(toPlugin') /\ ("data" = "data" => AllData(toPlugin'))
        /\ (EndOn(toPlugin') <=> "data" = "end")
        /\ DataOn(toPlugin') = DataOn(toPlugin) + One("data", "data")
    BY <1>1, <2>1, Appended DEF Frame
  <2>3. TypeOK'
    BY <1>1, <1>5, <2>1, <2>2 DEF SendData, CanSend, TypeOK, CountInv, Delivered, One, Frame
  <2>4. OrderInv'
    BY <1>1, <1>5, <2>1, <2>2 DEF SendData, CanSend, TypeOK, OrderInv
  <2>5. CountInv'
    <3>1. Delivered' = Delivered /\ Delivered \in Nat /\ Delivered' \in Nat
      <4>1. UNCHANGED <<chunks, got, down, pending, toHost>>
        BY <1>5 DEF SendData
      <4>2. One(up, "sendData") = 1 /\ One(up', "sendData") = 0 /\ One("data", "data") = 1
        BY <1>5 DEF SendData, One
      <4>3. /\ got \in Nat /\ One(down, "write") \in Nat
            /\ One(pending, "data") \in Nat /\ One(up, "sendData") \in Nat
        BY <1>1 DEF TypeOK, One
      <4>4. DataOn(toPlugin') = DataOn(toPlugin) + One("data", "data")
        BY <1>1, <2>1, <2>2
      <4>5. DataOn(toPlugin) \in Nat /\ DataOn(toHost) \in Nat
        BY <1>1
      <4> QED
        BY <4>1, <4>2, <4>3, <4>4, <4>5 DEF Delivered
    <3>2. chunks' = chunks /\ chunks \in Nat /\ (Flowing' => Flowing)
      BY <1>1, <1>5 DEF SendData, TypeOK, OrderInv, Flowing
    <3> QED
      BY <1>1, <3>1, <3>2 DEF CountInv
  <2>6. CauseInv'
    BY <1>1, <1>5, <2>1, <2>2 DEF SendData, CanSend, TypeOK, OrderInv, CauseInv, Cause
  <2> QED
    BY <2>3, <2>4, <2>5, <2>6 DEF StreamInv
<1>6. CASE SendDataFails
  <2>1. UNCHANGED <<toPlugin, toHost>>
    BY <1>6 DEF SendDataFails, CanSend, RpcOver, ClosePipe
  <2>3. TypeOK'
    BY <1>1, <1>6, <2>1 DEF SendDataFails, CanSend, RpcOver, ClosePipe, TypeOK, CountInv, Delivered, One, Frame
  <2>4. OrderInv'
    BY <1>1, <1>6, <2>1 DEF SendDataFails, CanSend, RpcOver, ClosePipe, TypeOK, OrderInv
  <2>5. CountInv'
    BY <1>1, <1>6, <2>1 DEF SendDataFails, CanSend, RpcOver, ClosePipe, TypeOK, OrderInv, CountInv, Delivered, Flowing, One
  <2>6. CauseInv'
    BY <1>1, <1>6, <2>1 DEF SendDataFails, CanSend, RpcOver, ClosePipe, TypeOK, OrderInv, CauseInv, Cause
  <2> QED
    BY <2>3, <2>4, <2>5, <2>6 DEF StreamInv
<1>7. CASE SendEnd
  <2>1. toPlugin' = Append(toPlugin, "end") /\ AllData(toPlugin) /\ UNCHANGED toHost
    BY <1>1, <1>7 DEF SendEnd, CanSend
  <2>2. /\ toPlugin' \in Seq(Frame) /\ Len(toPlugin') = Len(toPlugin) + 1 /\ toPlugin' # <<>>
        /\ DataButLast(toPlugin') /\ ("end" = "data" => AllData(toPlugin'))
        /\ (EndOn(toPlugin') <=> "end" = "end")
        /\ DataOn(toPlugin') = DataOn(toPlugin) + One("end", "data")
    BY <1>1, <2>1, Appended DEF Frame
  <2>3. TypeOK'
    BY <1>1, <1>7, <2>1, <2>2 DEF SendEnd, CanSend, TypeOK, CountInv, Delivered, One, Frame
  <2>4. OrderInv'
    BY <1>1, <1>7, <2>1, <2>2 DEF SendEnd, CanSend, TypeOK, OrderInv
  <2>5. CountInv'
    BY <1>1, <1>7, <2>1, <2>2 DEF SendEnd, CanSend, TypeOK, OrderInv, CountInv, Delivered, Flowing, One
  <2>6. CauseInv'
    BY <1>1, <1>7, <2>1, <2>2 DEF SendEnd, CanSend, TypeOK, OrderInv, CauseInv, Cause
  <2> QED
    BY <2>3, <2>4, <2>5, <2>6 DEF StreamInv
<1>8. CASE SendEndFails
  <2>1. UNCHANGED <<toPlugin, toHost>>
    BY <1>8 DEF SendEndFails, CanSend, RpcOver, ClosePipe
  <2>3. TypeOK'
    BY <1>1, <1>8, <2>1 DEF SendEndFails, CanSend, RpcOver, ClosePipe, TypeOK, CountInv, Delivered, One, Frame
  <2>4. OrderInv'
    BY <1>1, <1>8, <2>1 DEF SendEndFails, CanSend, RpcOver, ClosePipe, TypeOK, OrderInv
  <2>5. CountInv'
    BY <1>1, <1>8, <2>1 DEF SendEndFails, CanSend, RpcOver, ClosePipe, TypeOK, OrderInv, CountInv, Delivered, Flowing, One
  <2>6. CauseInv'
    BY <1>1, <1>8, <2>1 DEF SendEndFails, CanSend, RpcOver, ClosePipe, TypeOK, OrderInv, CauseInv, Cause
  <2> QED
    BY <2>3, <2>4, <2>5, <2>6 DEF StreamInv
<1>9. CASE SendError
  <2>1. AllData(toPlugin) /\ UNCHANGED toHost
        /\ (toPlugin' = Append(toPlugin, "error") \/ UNCHANGED toPlugin)
    BY <1>1, <1>9 DEF SendError, CanSend
  <2>2. /\ toPlugin' \in Seq(Frame) /\ DataButLast(toPlugin')
        /\ (EndOn(toPlugin') => EndOn(toPlugin))
        /\ DataOn(toPlugin') = DataOn(toPlugin)
    <3>1. CASE UNCHANGED toPlugin
      BY <1>1, <3>1
    <3>2. CASE toPlugin' = Append(toPlugin, "error")
      <4>1. /\ toPlugin' \in Seq(Frame) /\ DataButLast(toPlugin') /\ ~EndOn(toPlugin')
            /\ DataOn(toPlugin') = DataOn(toPlugin) + One("error", "data")
        BY <1>1, <2>1, <3>2, Appended DEF Frame
      <4> QED
        BY <1>1, <4>1 DEF One
    <3> QED
      BY <2>1, <3>1, <3>2
  <2>3. TypeOK'
    BY <1>1, <1>9, <2>1, <2>2 DEF SendError, CanSend, TypeOK, CountInv, Delivered, One, Frame
  <2>4. OrderInv'
    BY <1>1, <1>9, <2>1, <2>2 DEF SendError, CanSend, TypeOK, OrderInv
  <2>5. CountInv'
    BY <1>1, <1>9, <2>1, <2>2 DEF SendError, CanSend, TypeOK, OrderInv, CountInv, Delivered, Flowing, One
  <2>6. CauseInv'
    BY <1>1, <1>9, <2>1, <2>2 DEF SendError, CanSend, TypeOK, OrderInv, CauseInv, Cause
  <2> QED
    BY <2>3, <2>4, <2>5, <2>6 DEF StreamInv
<1>10. CASE ClosePipeWithReadError
  <2>1. UNCHANGED <<toPlugin, toHost>>
    BY <1>10 DEF ClosePipeWithReadError, ClosePipe
  <2>3. TypeOK'
    BY <1>1, <1>10, <2>1 DEF ClosePipeWithReadError, ClosePipe, TypeOK, CountInv, Delivered, One, Frame
  <2>4. OrderInv'
    BY <1>1, <1>10, <2>1 DEF ClosePipeWithReadError, ClosePipe, TypeOK, OrderInv
  <2>5. CountInv'
    BY <1>1, <1>10, <2>1 DEF ClosePipeWithReadError, ClosePipe, TypeOK, OrderInv, CountInv, Delivered, Flowing, One
  <2>6. CauseInv'
    BY <1>1, <1>10, <2>1 DEF ClosePipeWithReadError, ClosePipe, TypeOK, OrderInv, CauseInv, Cause
  <2> QED
    BY <2>3, <2>4, <2>5, <2>6 DEF StreamInv
<1>11. CASE UpReturns
  <2>1. UNCHANGED <<toPlugin, toHost>>
    BY <1>11 DEF UpReturns, CloseAll
  <2>2. bodyOpen' \in BOOLEAN /\ halfClosed' \in BOOLEAN
    BY <1>11 DEF UpReturns, CloseAll
  <2>3. TypeOK'
    BY <1>1, <1>11, <2>1, <2>2 DEF UpReturns, CloseAll, TypeOK, Frame
  <2>4. OrderInv'
    BY <1>1, <1>11, <2>1 DEF UpReturns, CloseAll, TypeOK, OrderInv
  <2>5. CountInv'
    BY <1>1, <1>11, <2>1 DEF UpReturns, CloseAll, TypeOK, OrderInv, CountInv, Delivered, Flowing, One
  <2>6. CauseInv'
    BY <1>1, <1>11, <2>1 DEF UpReturns, CloseAll, TypeOK, OrderInv, CauseInv, Cause
  <2> QED
    BY <2>3, <2>4, <2>5, <2>6 DEF StreamInv
<1>12. CASE PluginReads
  <2>1. toPlugin # <<>> /\ toPlugin' = Tail(toPlugin) /\ UNCHANGED toHost
    BY <1>12 DEF PluginReads
  <2>2. /\ toPlugin' \in Seq(Frame) /\ Len(toPlugin') = Len(toPlugin) - 1 /\ Head(toPlugin) \in Frame
        /\ DataButLast(toPlugin') /\ (AllData(toPlugin) => AllData(toPlugin') /\ Head(toPlugin) = "data")
        /\ DataOn(toPlugin) = DataOn(toPlugin') + One(Head(toPlugin), "data")
        /\ (Head(toPlugin) # "data" => toPlugin' = <<>>)
        /\ (EndOn(toPlugin) <=> EndOn(toPlugin') \/ Head(toPlugin) = "end")
    BY <1>1, <2>1, Taken
  <2>3. TypeOK'
    BY <1>1, <1>12, <2>1, <2>2 DEF PluginReads, TypeOK, CountInv, Delivered, One, Frame
  <2>4. OrderInv'
    BY <1>1, <1>12, <2>1, <2>2 DEF PluginReads, TypeOK, OrderInv
  <2>5. CountInv'
    <3>1. Delivered' = Delivered /\ Delivered \in Nat /\ Delivered' \in Nat
      <4>1. UNCHANGED <<chunks, got, down, up, toHost>>
        BY <1>12 DEF PluginReads
      <4>2. One(pending, "data") = 0 /\ One(pending', "data") = One(Head(toPlugin), "data")
            /\ One(Head(toPlugin), "data") \in Nat
        BY <1>12 DEF PluginReads, One
      <4>3. /\ got \in Nat /\ One(down, "write") \in Nat
            /\ One(pending, "data") \in Nat /\ One(up, "sendData") \in Nat
        BY <1>1 DEF TypeOK, One
      <4>4. DataOn(toPlugin) = DataOn(toPlugin') + One(Head(toPlugin), "data")
            /\ DataOn(toPlugin') \in Nat
        BY <2>2, DataIsNat
      <4>5. DataOn(toPlugin) \in Nat /\ DataOn(toHost) \in Nat
        BY <1>1
      <4> QED
        BY <4>1, <4>2, <4>3, <4>4, <4>5 DEF Delivered
    <3>2. chunks' = chunks /\ chunks \in Nat /\ (Flowing' => Flowing)
      BY <1>1, <1>12 DEF PluginReads, TypeOK, OrderInv, Flowing
    <3> QED
      BY <1>1, <3>1, <3>2 DEF CountInv
  <2>6. CauseInv'
    <3>1. Cause' <=> Cause
      BY <1>12 DEF PluginReads, Cause
    <3>2. EndOn(toPlugin) => EndOn(toPlugin') \/ pending' = "end"
      BY <1>12, <2>2 DEF PluginReads
    <3>3. pending = "none" /\ pending' # "cutOff" /\ plugin = "running"
      BY <1>12, <2>2 DEF PluginReads, Frame
    <3> QED
      BY <1>1, <1>12, <3>1, <3>2, <3>3 DEF PluginReads, CauseInv
  <2> QED
    BY <2>3, <2>4, <2>5, <2>6 DEF StreamInv
<1>13. CASE PluginCutOff
  <2>1. UNCHANGED <<toPlugin, toHost>>
    BY <1>13 DEF PluginCutOff
  <2>3. TypeOK'
    BY <1>1, <1>13, <2>1 DEF PluginCutOff, TypeOK, CountInv, Delivered, One, Frame
  <2>4. OrderInv'
    BY <1>1, <1>13, <2>1 DEF PluginCutOff, TypeOK, OrderInv
  <2>5. CountInv'
    BY <1>1, <1>13, <2>1 DEF PluginCutOff, TypeOK, OrderInv, CountInv, Delivered, Flowing, One
  <2>6. CauseInv'
    <3>1. Cause
      <4>1. up = "done" \/ down = "done" \/ consumer = "closed"
        BY <1>1, <1>13 DEF PluginCutOff, CauseInv
      <4>2. up = "done" => pipe # "open"
        BY <1>1, <1>13 DEF PluginCutOff, CauseInv, EndOn
      <4>3. down = "done" => pipe # "open" \/ consumer = "closed"
        BY <1>1 DEF CauseInv
      <4>4. pipe = "error" \/ consumer = "closed"
        BY <1>1, <1>13, <4>1, <4>2, <4>3 DEF PluginCutOff, CauseInv, TypeOK
      <4> QED
        BY <1>1, <4>4 DEF CauseInv, Cause
    <3>2. Cause' /\ ~EndOn(toPlugin) /\ pending # "end"
      BY <1>13, <3>1 DEF PluginCutOff, Cause, EndOn
    <3> QED
      BY <1>1, <1>13, <2>1, <3>2 DEF PluginCutOff, CauseInv
  <2> QED
    BY <2>3, <2>4, <2>5, <2>6 DEF StreamInv
<1>14. CASE PluginSends
  <2>1. toHost' = Append(toHost, "data") /\ AllData(toHost) /\ UNCHANGED toPlugin
    BY <1>1, <1>14 DEF PluginSends
  <2>2. /\ toHost' \in Seq(Frame) /\ Len(toHost') = Len(toHost) + 1 /\ toHost' # <<>>
        /\ DataButLast(toHost') /\ ("data" = "data" => AllData(toHost'))
        /\ (EndOn(toHost') <=> "data" = "end")
        /\ DataOn(toHost') = DataOn(toHost) + One("data", "data")
    BY <1>1, <2>1, Appended DEF Frame
  <2>3. TypeOK'
    BY <1>1, <1>14, <2>1, <2>2 DEF PluginSends, TypeOK, CountInv, Delivered, One, Frame
  <2>4. OrderInv'
    BY <1>1, <1>14, <2>1, <2>2 DEF PluginSends, TypeOK, OrderInv
  <2>5. CountInv'
    <3>1. Delivered' = Delivered /\ Delivered \in Nat /\ Delivered' \in Nat
      <4>1. UNCHANGED <<chunks, got, down, up, toPlugin>>
        BY <1>14 DEF PluginSends
      <4>2. One(pending, "data") = 1 /\ One(pending', "data") = 0 /\ One("data", "data") = 1
        BY <1>14 DEF PluginSends, One
      <4>3. /\ got \in Nat /\ One(down, "write") \in Nat
            /\ One(pending, "data") \in Nat /\ One(up, "sendData") \in Nat
        BY <1>1 DEF TypeOK, One
      <4>4. DataOn(toHost') = DataOn(toHost) + One("data", "data")
        BY <1>1, <2>1, <2>2
      <4>5. DataOn(toPlugin) \in Nat /\ DataOn(toHost) \in Nat
        BY <1>1
      <4> QED
        BY <4>1, <4>2, <4>3, <4>4, <4>5 DEF Delivered
    <3>2. chunks' = chunks /\ chunks \in Nat /\ (Flowing' => Flowing)
      BY <1>1, <1>14 DEF PluginSends, TypeOK, OrderInv, Flowing
    <3> QED
      BY <1>1, <3>1, <3>2 DEF CountInv
  <2>6. CauseInv'
    BY <1>1, <1>14, <2>1, <2>2 DEF PluginSends, TypeOK, OrderInv, CauseInv, Cause
  <2> QED
    BY <2>3, <2>4, <2>5, <2>6 DEF StreamInv
<1>15. CASE PluginFinishes
  <2>1. UNCHANGED <<toPlugin, toHost>>
    BY <1>15 DEF PluginFinishes
  <2>3. TypeOK'
    BY <1>1, <1>15, <2>1 DEF PluginFinishes, TypeOK, CountInv, Delivered, One, Frame
  <2>4. OrderInv'
    BY <1>1, <1>15, <2>1 DEF PluginFinishes, TypeOK, OrderInv
  <2>5. CountInv'
    BY <1>1, <1>15, <2>1 DEF PluginFinishes, TypeOK, OrderInv, CountInv, Delivered, Flowing, One
  <2>6. CauseInv'
    BY <1>1, <1>15, <2>1 DEF PluginFinishes, TypeOK, OrderInv, CauseInv, Cause
  <2> QED
    BY <2>3, <2>4, <2>5, <2>6 DEF StreamInv
<1>16. CASE PluginFails
  <2>1. toHost' = Append(toHost, "error") /\ AllData(toHost) /\ UNCHANGED toPlugin
    BY <1>1, <1>16 DEF PluginFails
  <2>2. /\ toHost' \in Seq(Frame) /\ Len(toHost') = Len(toHost) + 1 /\ toHost' # <<>>
        /\ DataButLast(toHost') /\ ("error" = "data" => AllData(toHost'))
        /\ (EndOn(toHost') <=> "error" = "end")
        /\ DataOn(toHost') = DataOn(toHost) + One("error", "data")
    BY <1>1, <2>1, Appended DEF Frame
  <2>3. TypeOK'
    BY <1>1, <1>16, <2>1, <2>2 DEF PluginFails, TypeOK, CountInv, Delivered, One, Frame
  <2>4. OrderInv'
    BY <1>1, <1>16, <2>1, <2>2 DEF PluginFails, TypeOK, OrderInv
  <2>5. CountInv'
    BY <1>1, <1>16, <2>1, <2>2 DEF PluginFails, TypeOK, OrderInv, CountInv, Delivered, Flowing, One
  <2>6. CauseInv'
    BY <1>1, <1>16, <2>1, <2>2 DEF PluginFails, TypeOK, OrderInv, CauseInv, Cause
  <2> QED
    BY <2>3, <2>4, <2>5, <2>6 DEF StreamInv
<1>17. CASE PluginDies
  <2>1. UNCHANGED toPlugin /\ (toHost' = toHost \/ toHost' = <<>>)
    BY <1>17 DEF PluginDies
  <2>2. /\ toHost' \in Seq(Frame) /\ Len(toHost') <= Len(toHost)
        /\ DataButLast(toHost') /\ DataOn(toHost') <= DataOn(toHost)
        /\ DataOn(toHost') \in Nat
    <3>1. CASE toHost' = toHost
      BY <1>1, <3>1
    <3>2. CASE toHost' = <<>>
      <4>1. <<>> \in Seq(Frame) /\ Len(<<>>) = 0
        OBVIOUS
      <4>2. DataOn(<<>>) = 0 /\ DataButLast(<<>>)
        BY <4>1, DataIsNat
      <4> QED
        BY <1>1, <3>2, <4>1, <4>2
    <3> QED
      BY <2>1, <3>1, <3>2
  <2>3. TypeOK'
    BY <1>1, <1>17, <2>1, <2>2 DEF PluginDies, TypeOK, CountInv, Delivered, One, Frame
  <2>4. OrderInv'
    BY <1>1, <1>17, <2>1, <2>2 DEF PluginDies, TypeOK, OrderInv
  <2>5. CountInv'
    <3>1. Delivered' <= Delivered /\ Delivered \in Nat /\ Delivered' \in Nat
      <4>1. UNCHANGED <<chunks, got, down, pending, up, toPlugin>>
        BY <1>17 DEF PluginDies
      <4>3. /\ got \in Nat /\ One(down, "write") \in Nat
            /\ One(pending, "data") \in Nat /\ One(up, "sendData") \in Nat
        BY <1>1 DEF TypeOK, One
      <4>4. DataOn(toHost') <= DataOn(toHost) /\ DataOn(toHost') \in Nat
        BY <1>1, <2>1, <2>2
      <4>5. DataOn(toPlugin) \in Nat /\ DataOn(toHost) \in Nat
        BY <1>1
      <4> QED
        BY <4>1, <4>3, <4>4, <4>5 DEF Delivered
    <3>2. chunks' = chunks /\ chunks \in Nat /\ ~Flowing'
      BY <1>1, <1>17 DEF PluginDies, TypeOK, OrderInv, Flowing
    <3> QED
      BY <1>1, <3>1, <3>2 DEF CountInv
  <2>6. CauseInv'
    BY <1>1, <1>17, <2>1, <2>2 DEF PluginDies, TypeOK, OrderInv, CauseInv, Cause
  <2> QED
    BY <2>3, <2>4, <2>5, <2>6 DEF StreamInv
<1>18. CASE RecvData
  <2>1. toHost # <<>> /\ toHost' = Tail(toHost) /\ UNCHANGED toPlugin
    BY <1>18 DEF RecvData
  <2>2. /\ toHost' \in Seq(Frame) /\ Len(toHost') = Len(toHost) - 1 /\ Head(toHost) \in Frame
        /\ DataButLast(toHost') /\ (AllData(toHost) => AllData(toHost') /\ Head(toHost) = "data")
        /\ DataOn(toHost) = DataOn(toHost') + One(Head(toHost), "data")
        /\ (Head(toHost) # "data" => toHost' = <<>>)
        /\ (EndOn(toHost) <=> EndOn(toHost') \/ Head(toHost) = "end")
    BY <1>1, <2>1, Taken
  <2>3. TypeOK'
    BY <1>1, <1>18, <2>1, <2>2 DEF RecvData, TypeOK, CountInv, Delivered, One, Frame
  <2>4. OrderInv'
    BY <1>1, <1>18, <2>1, <2>2 DEF RecvData, TypeOK, OrderInv
  <2>5. CountInv'
    <3>1. Delivered' = Delivered /\ Delivered \in Nat /\ Delivered' \in Nat
      <4>1. UNCHANGED <<chunks, got, pending, up, toPlugin>>
        BY <1>18 DEF RecvData
      <4>2. One(down, "write") = 0 /\ One(down', "write") = 1 /\ One(Head(toHost), "data") = 1
        BY <1>18 DEF RecvData, One
      <4>3. /\ got \in Nat /\ One(down, "write") \in Nat
            /\ One(pending, "data") \in Nat /\ One(up, "sendData") \in Nat
        BY <1>1 DEF TypeOK, One
      <4>4. DataOn(toHost) = DataOn(toHost') + One(Head(toHost), "data")
            /\ DataOn(toHost') \in Nat
        BY <2>2, DataIsNat
      <4>5. DataOn(toPlugin) \in Nat /\ DataOn(toHost) \in Nat
        BY <1>1
      <4> QED
        BY <4>1, <4>2, <4>3, <4>4, <4>5 DEF Delivered
    <3>2. chunks' = chunks /\ chunks \in Nat /\ (Flowing' => Flowing)
      BY <1>1, <1>18 DEF RecvData, TypeOK, OrderInv, Flowing
    <3> QED
      BY <1>1, <3>1, <3>2 DEF CountInv
  <2>6. CauseInv'
    BY <1>1, <1>18, <2>1, <2>2 DEF RecvData, TypeOK, OrderInv, CauseInv, Cause
  <2> QED
    BY <2>3, <2>4, <2>5, <2>6 DEF StreamInv
<1>19. CASE RecvError
  <2>1. toHost # <<>> /\ toHost' = Tail(toHost) /\ UNCHANGED toPlugin
    BY <1>19 DEF RecvError, ClosePipe
  <2>2. /\ toHost' \in Seq(Frame) /\ Len(toHost') = Len(toHost) - 1 /\ Head(toHost) \in Frame
        /\ DataButLast(toHost') /\ (AllData(toHost) => AllData(toHost') /\ Head(toHost) = "data")
        /\ DataOn(toHost) = DataOn(toHost') + One(Head(toHost), "data")
        /\ (Head(toHost) # "data" => toHost' = <<>>)
        /\ (EndOn(toHost) <=> EndOn(toHost') \/ Head(toHost) = "end")
    BY <1>1, <2>1, Taken
  <2>3. TypeOK'
    BY <1>1, <1>19, <2>1, <2>2 DEF RecvError, ClosePipe, TypeOK, CountInv, Delivered, One, Frame
  <2>4. OrderInv'
    BY <1>1, <1>19, <2>1, <2>2 DEF RecvError, ClosePipe, TypeOK, OrderInv
  <2>5. CountInv'
    <3>1. Delivered' = Delivered /\ Delivered \in Nat /\ Delivered' \in Nat
      <4>1. UNCHANGED <<chunks, got, pending, up, toPlugin>>
        BY <1>19 DEF RecvError
      <4>2. One(down, "write") = 0 /\ One(down', "write") = 0 /\ One(Head(toHost), "data") = 0
        BY <1>19 DEF RecvError, One
      <4>3. /\ got \in Nat /\ One(down, "write") \in Nat
            /\ One(pending, "data") \in Nat /\ One(up, "sendData") \in Nat
        BY <1>1 DEF TypeOK, One
      <4>4. DataOn(toHost) = DataOn(toHost') + One(Head(toHost), "data")
            /\ DataOn(toHost') \in Nat
        BY <2>2, DataIsNat
      <4>5. DataOn(toPlugin) \in Nat /\ DataOn(toHost) \in Nat
        BY <1>1
      <4> QED
        BY <4>1, <4>2, <4>3, <4>4, <4>5 DEF Delivered
    <3>2. chunks' = chunks /\ chunks \in Nat /\ ~Flowing'
      BY <1>1, <1>19 DEF RecvError, TypeOK, OrderInv, Flowing
    <3> QED
      BY <1>1, <3>1, <3>2 DEF CountInv
  <2>6. CauseInv'
    BY <1>1, <1>19, <2>1, <2>2 DEF RecvError, ClosePipe, TypeOK, OrderInv, CauseInv, Cause
  <2> QED
    BY <2>3, <2>4, <2>5, <2>6 DEF StreamInv
<1>20. CASE RecvOver
  <2>1. UNCHANGED <<toPlugin, toHost>>
    BY <1>20 DEF RecvOver, ClosePipe
  <2>3. TypeOK'
    BY <1>1, <1>20, <2>1 DEF RecvOver, ClosePipe, TypeOK, CountInv, Delivered, One, Frame
  <2>4. OrderInv'
    BY <1>1, <1>20, <2>1 DEF RecvOver, ClosePipe, TypeOK, OrderInv
  <2>5. CountInv'
    BY <1>1, <1>20, <2>1 DEF RecvOver, ClosePipe, TypeOK, OrderInv, CountInv, Delivered, Flowing, One
  <2>6. CauseInv'
    <3>1. /\ pipe # "open" => pipe' = pipe
          /\ pipe = "open" => \/ pipe' = "eof" /\ toHost = <<>> /\ plugin = "ok"
                              \/ pipe' = "error" /\ (plugin \in {"failed", "cutOff"} \/ cancelled)
      BY <1>20 DEF RecvOver, ClosePipe
    <3>2. pipe' # "open" /\ (Cause' <=> Cause)
      BY <1>1, <3>1, <1>20 DEF RecvOver, Cause
    <3>3. pipe' = "error" => Cause
      BY <1>1, <3>1 DEF CauseInv, Cause, TypeOK
    <3>4. ASSUME pipe' = "eof" PROVE ending = "eof" /\ got = chunks /\ plugin = "ok"
      <4>1. CASE pipe # "open"
        BY <1>1, <3>1, <3>4, <4>1 DEF CauseInv
      <4>2. CASE pipe = "open"
        <5>1. toHost = <<>> /\ plugin = "ok" /\ pending = "end"
          BY <1>1, <3>1, <3>4, <4>2 DEF OrderInv
        <5>2. ending = "eof" /\ toPlugin = <<>> /\ up \notin {"read", "sendData"}
          BY <1>1, <5>1 DEF OrderInv
        <5>3. down = "recv" /\ Delivered = got
          BY <1>1, <1>20, <5>1, <5>2 DEF RecvOver, Delivered, One, TypeOK
        <5> QED
          BY <1>1, <5>1, <5>2, <5>3 DEF CountInv, Flowing
      <4> QED
        BY <4>1, <4>2
    <3> QED
      BY <1>1, <1>20, <3>2, <3>3, <3>4 DEF RecvOver, CauseInv
  <2> QED
    BY <2>3, <2>4, <2>5, <2>6 DEF StreamInv
<1>21. CASE WriteFails
  <2>1. UNCHANGED <<toPlugin, toHost>>
    BY <1>21 DEF WriteFails
  <2>3. TypeOK'
    BY <1>1, <1>21, <2>1 DEF WriteFails, TypeOK, CountInv, Delivered, One, Frame
  <2>4. OrderInv'
    BY <1>1, <1>21, <2>1 DEF WriteFails, TypeOK, OrderInv
  <2>5. CountInv'
    BY <1>1, <1>21, <2>1 DEF WriteFails, TypeOK, OrderInv, CountInv, Delivered, Flowing, One
  <2>6. CauseInv'
    BY <1>1, <1>21, <2>1 DEF WriteFails, TypeOK, OrderInv, CauseInv, Cause
  <2> QED
    BY <2>3, <2>4, <2>5, <2>6 DEF StreamInv
<1>22. CASE DownReturns
  <2>1. UNCHANGED <<toPlugin, toHost>>
    BY <1>22 DEF DownReturns, CloseAll
  <2>2. bodyOpen' \in BOOLEAN /\ halfClosed' \in BOOLEAN
    BY <1>22 DEF DownReturns, CloseAll
  <2>3. TypeOK'
    BY <1>1, <1>22, <2>1, <2>2 DEF DownReturns, CloseAll, TypeOK, Frame
  <2>4. OrderInv'
    BY <1>1, <1>22, <2>1 DEF DownReturns, CloseAll, TypeOK, OrderInv
  <2>5. CountInv'
    BY <1>1, <1>22, <2>1 DEF DownReturns, CloseAll, TypeOK, OrderInv, CountInv, Delivered, Flowing, One
  <2>6. CauseInv'
    BY <1>1, <1>22, <2>1 DEF DownReturns, CloseAll, TypeOK, OrderInv, CauseInv, Cause
  <2> QED
    BY <2>3, <2>4, <2>5, <2>6 DEF StreamInv
<1>23. CASE Read
  <2>1. UNCHANGED <<toPlugin, toHost>>
    BY <1>23 DEF Read
  <2>3. TypeOK'
    BY <1>1, <1>23, <2>1 DEF Read, TypeOK, CountInv, Delivered, One, Frame
  <2>4. OrderInv'
    BY <1>1, <1>23, <2>1 DEF Read, TypeOK, OrderInv
  <2>5. CountInv'
    BY <1>1, <1>23, <2>1 DEF Read, TypeOK, OrderInv, CountInv, Delivered, Flowing, One
  <2>6. CauseInv'
    BY <1>1, <1>23, <2>1 DEF Read, TypeOK, OrderInv, CauseInv, Cause
  <2> QED
    BY <2>3, <2>4, <2>5, <2>6 DEF StreamInv
<1>24. CASE ReadOver
  <2>1. UNCHANGED <<toPlugin, toHost>>
    BY <1>24 DEF ReadOver
  <2>3. TypeOK'
    BY <1>1, <1>24, <2>1 DEF ReadOver, TypeOK, CountInv, Delivered, One, Frame
  <2>4. OrderInv'
    BY <1>1, <1>24, <2>1 DEF ReadOver, TypeOK, OrderInv
  <2>5. CountInv'
    BY <1>1, <1>24, <2>1 DEF ReadOver, TypeOK, OrderInv, CountInv, Delivered, Flowing, One
  <2>6. CauseInv'
    BY <1>1, <1>24, <2>1 DEF ReadOver, TypeOK, OrderInv, CauseInv, Cause
  <2> QED
    BY <2>3, <2>4, <2>5, <2>6 DEF StreamInv
<1>25. CASE Close
  <2>1. UNCHANGED <<toPlugin, toHost>>
    BY <1>25 DEF Close, CloseAll
  <2>2. bodyOpen' \in BOOLEAN /\ halfClosed' \in BOOLEAN
    BY <1>25 DEF Close, CloseAll
  <2>3. TypeOK'
    BY <1>1, <1>25, <2>1, <2>2 DEF Close, CloseAll, TypeOK, Frame
  <2>4. OrderInv'
    BY <1>1, <1>25, <2>1 DEF Close, CloseAll, TypeOK, OrderInv
  <2>5. CountInv'
    BY <1>1, <1>25, <2>1 DEF Close, CloseAll, TypeOK, OrderInv, CountInv, Delivered, Flowing, One
  <2>6. CauseInv'
    BY <1>1, <1>25, <2>1 DEF Close, CloseAll, TypeOK, OrderInv, CauseInv, Cause
  <2> QED
    BY <2>3, <2>4, <2>5, <2>6 DEF StreamInv
<1>26. CASE Cancel
  <2>1. UNCHANGED <<toPlugin, toHost>>
    BY <1>26 DEF Cancel
  <2>3. TypeOK'
    BY <1>1, <1>26, <2>1 DEF Cancel, TypeOK, CountInv, Delivered, One, Frame
  <2>4. OrderInv'
    BY <1>1, <1>26, <2>1 DEF Cancel, TypeOK, OrderInv
  <2>5. CountInv'
    BY <1>1, <1>26, <2>1 DEF Cancel, TypeOK, OrderInv, CountInv, Delivered, Flowing, One
  <2>6. CauseInv'
    BY <1>1, <1>26, <2>1 DEF Cancel, TypeOK, OrderInv, CauseInv, Cause
  <2> QED
    BY <2>3, <2>4, <2>5, <2>6 DEF StreamInv
<1>27. CASE UNCHANGED vars
  BY <1>1, <1>27 DEF vars, StreamInv, TypeOK, OrderInv, CountInv, Delivered, Flowing, CauseInv, Cause
<1> QED
  BY <1>2, <1>3, <1>4, <1>5, <1>6, <1>7, <1>8, <1>9, <1>10, <1>11, <1>12, <1>13, <1>14, <1>15, <1>16, <1>17, <1>18, <1>19, <1>20, <1>21, <1>22, <1>23, <1>24, <1>25, <1>26, <1>27 DEF Next, UpStep, PluginStep, DownStep

\* The inductive invariant.
THEOREM StreamInvHolds == Spec => []StreamInv
<1>1. StreamInv /\ [Next]_vars => StreamInv'
  BY StreamStep
<1> QED
  BY InitStream, <1>1, PTL DEF Spec

\* Every variable keeps its type and every direction its window.
THEOREM StreamTypeCorrect == Spec => []TypeOK
  BY StreamInvHolds, PTL DEF StreamInv

\* A reader that sees the clean end of a converted stream has read everything
\* the upstream sent, and the upstream had ended cleanly.
THEOREM CleanEOFIsCompleteHolds == Spec => []CleanEOFIsComplete
<1>1. StreamInv => CleanEOFIsComplete
  BY DEF StreamInv, CauseInv, CleanEOFIsComplete
<1> QED
  BY <1>1, StreamInvHolds, PTL

\* A reader that sees an error sees somebody's failure, never the two pumps
\* closing things under each other.
THEOREM ErrorHasCauseHolds == Spec => []ErrorHasCause
<1>1. StreamInv => ErrorHasCause
  BY DEF StreamInv, CauseInv, Cause, ErrorHasCause
<1> QED
  BY <1>1, StreamInvHolds, PTL
=============================================================================
