------------------------------ MODULE LogStream ------------------------------
(***************************************************************************)
(* stream_logs of both transports: a context manager that opens a stream   *)
(* of log messages, a background task (_receive_logs) that puts them into  *)
(* a bounded asyncio.Queue, and the application that reads the queue until *)
(* it leaves the context.                                                  *)
(*                                                                         *)
(* gRPC delivers one log per message. REST delivers chunks of bytes, from  *)
(* which the receiver assembles lines. Bytes are visible ones (Ink), Blank *)
(* and Newline; a line is a sequence of bytes. Bytes that cannot be        *)
(* decoded are not modelled: they end the receiver like any other failure. *)
(*                                                                         *)
(* The receiver suspends where it waits for the stream (receiving) and     *)
(* where it waits for room in the queue (putting). put() never raises      *)
(* QueueFull, so the branches that drop the oldest log are never taken.    *)
(***************************************************************************)
EXTENDS Naturals, Sequences, SequencesExt

CONSTANTS Ink,              \* the visible bytes
          NodeAPIError,     \* an error in the queue
          MaxQueueSize,     \* max_queue_size
          MaxArrived        \* bound: bytes, or messages, of one stream

ASSUME QueueAssumption ==
    /\ MaxQueueSize \in Nat \ {0}
    /\ MaxArrived \in Nat

\* A visible byte is neither a newline nor blank, and an error is no line.
ASSUME ItemAssumption ==
    /\ Ink \cap {"newline", "blank"} = {}
    /\ NodeAPIError \notin Seq(Ink \cup {"blank"})

VARIABLES transport,        \* "grpc" or "rest"
          context,          \* where the context manager is
          streamOpen,       \* neither side of the code has closed the stream
          receiver,         \* where the task of _receive_logs is
          buffer,           \* REST: the bytes after the last newline
          unput,            \* lines assembled and not in the queue yet
          logQueue,         \* log_queue
          taken,            \* history: the items the application took
          arrived,          \* history: the messages, or the bytes, received
          broken            \* history: the stream failed while in use

vars == <<transport, context, streamOpen, receiver, buffer, unput, logQueue,
          taken, arrived, broken>>

Newline == "newline"
Blank   == "blank"
Text    == Ink \cup {Blank}
Bytes   == Text \cup {Newline}
Line    == Seq(Text)

\* open: the body of "async with" runs. closing: the stream is being closed.
\* joining: waiting for the cancelled receiver. failed: the open raised.
Contexts  == {"new", "failed", "open", "closing", "joining", "closed"}
Receivers == {"none", "receiving", "putting", "cancelled", "done"}

TypeOK ==
    /\ transport \in {"grpc", "rest"}
    /\ context \in Contexts
    /\ streamOpen \in BOOLEAN
    /\ receiver \in Receivers
    /\ buffer \in Line
    /\ unput \in Seq(Line)
    /\ logQueue \in Seq(Line \cup {NodeAPIError})
    /\ Len(logQueue) <= MaxQueueSize
    /\ taken \in Seq(Line \cup {NodeAPIError})
    /\ arrived \in IF transport = "rest" THEN Seq(Bytes) ELSE Seq(Line)
    /\ broken \in BOOLEAN

Init ==
    /\ transport \in {"grpc", "rest"}
    /\ context = "new"
    /\ streamOpen = FALSE
    /\ receiver = "none"
    /\ buffer = <<>> /\ unput = <<>>
    /\ logQueue = <<>> /\ taken = <<>> /\ arrived = <<>>
    /\ broken = FALSE

-----------------------------------------------------------------------------
(* Assembling lines *)

\* bytes.strip() of a line.
Strip(line) ==
    LET visible == {i \in 1..Len(line) : line[i] # Blank}
    IN  IF visible = {} THEN <<>> ELSE SubSeq(line, Min(visible), Max(visible))

\* "while newline in buffer": the first line is split off and stripped, and kept
\* unless it is empty; what follows the last newline is left.
FirstNewline(bytes) ==
    CHOOSE i \in 1..Len(bytes) :
        bytes[i] = Newline /\ \A j \in 1..(i - 1) : bytes[j] # Newline

Split[bytes \in Seq(Bytes)] ==
    IF \A i \in 1..Len(bytes) : bytes[i] # Newline
    THEN [lines |-> <<>>, rest |-> bytes]
    ELSE LET i     == FirstNewline(bytes)
             line  == Strip(SubSeq(bytes, 1, i - 1))
             after == Split[SubSeq(bytes, i + 1, Len(bytes))]
         IN  [lines |-> IF line = <<>> THEN after.lines ELSE <<line>> \o after.lines,
              rest  |-> after.rest]

\* Mutant: a line that continues in the next chunk loses its beginning.
AssembleChunkwise(chunk) == Split[chunk]

\* The lines a chunk completes, and the new buffer.
Assemble(chunk) == Split[buffer \o chunk]

-----------------------------------------------------------------------------
(* The receiver *)

\* Mutant: one line too many is put.
PutOverfull(lines) ==
    LET fit == Min({MaxQueueSize + 1 - Len(logQueue), Len(lines)})
    IN  /\ logQueue' = logQueue \o SubSeq(lines, 1, fit)
        /\ unput' = SubSeq(lines, fit + 1, Len(lines))
        /\ receiver' = IF fit = Len(lines) THEN "receiving" ELSE "putting"

\* await log_queue.put for each line, up to the one that finds the queue full.
Put(lines) ==
    LET fit == Min({MaxQueueSize - Len(logQueue), Len(lines)})
    IN  /\ logQueue' = logQueue \o SubSeq(lines, 1, fit)
        /\ unput' = SubSeq(lines, fit + 1, Len(lines))
        /\ receiver' = IF fit = Len(lines) THEN "receiving" ELSE "putting"

\* gRPC: recv_message returns a log.
ReceiveMessage(line) ==
    /\ transport = "grpc" /\ receiver = "receiving" /\ streamOpen
    /\ Len(arrived) < MaxArrived
    /\ arrived' = Append(arrived, line)
    /\ Put(<<line>>)
    /\ UNCHANGED <<transport, context, streamOpen, buffer, taken, broken>>

\* REST: the next chunk of aiter_bytes.
ReceiveChunk(chunk) ==
    /\ transport = "rest" /\ receiver = "receiving" /\ streamOpen
    /\ Len(arrived) + Len(chunk) <= MaxArrived
    /\ arrived' = arrived \o chunk
    /\ buffer' = Assemble(chunk).rest
    /\ Put(Assemble(chunk).lines)
    /\ UNCHANGED <<transport, context, streamOpen, taken, broken>>

\* A waiting put finds room.
PutResumes ==
    /\ receiver = "putting"
    /\ Len(logQueue) < MaxQueueSize
    /\ Put(unput)
    /\ UNCHANGED <<transport, context, streamOpen, buffer, taken, arrived, broken>>

\* The node ends the stream: the loop ends, with the rest of the buffer, and
\* nothing is put into the queue.
StreamEnds ==
    /\ receiver = "receiving" /\ streamOpen
    /\ receiver' = "done"
    /\ UNCHANGED <<transport, context, streamOpen, buffer, unput, logQueue,
                   taken, arrived, broken>>

\* StreamTerminatedError, or ReadError and RemoteProtocolError. The receiver
\* takes them for its own cleanup, also when the connection was lost.
StreamTerminates ==
    /\ receiver = "receiving"
    /\ receiver' = "done"
    /\ broken' = (broken \/ context = "open")
    /\ UNCHANGED <<transport, context, streamOpen, buffer, unput, logQueue, taken, arrived>>

\* Mutant: the receiver goes on after a failure.
StreamFailsOnce ==
    /\ receiver = "receiving"
    /\ broken' = (broken \/ context = "open")
    /\ logQueue' = IF Len(logQueue) < MaxQueueSize THEN Append(logQueue, NodeAPIError)
                                                  ELSE logQueue
    /\ UNCHANGED <<transport, context, streamOpen, receiver, buffer, unput, taken, arrived>>

\* Any other exception: the error is put into the queue unless that is full.
StreamFails ==
    /\ receiver = "receiving"
    /\ receiver' = "done"
    /\ broken' = (broken \/ context = "open")
    /\ logQueue' = IF Len(logQueue) < MaxQueueSize THEN Append(logQueue, NodeAPIError)
                                                  ELSE logQueue
    /\ UNCHANGED <<transport, context, streamOpen, buffer, unput, taken, arrived>>

\* The last step of the receiver after cancel().
ReceiverCancelled ==
    /\ receiver = "cancelled"
    /\ receiver' = "done"
    /\ unput' = <<>>
    /\ UNCHANGED <<transport, context, streamOpen, buffer, logQueue, taken, arrived, broken>>

-----------------------------------------------------------------------------
(* The context manager and the application *)

Open ==
    /\ context = "new"
    /\ \/ /\ context' = "open"
          /\ streamOpen' = TRUE
          /\ receiver' = "receiving"
       \/ /\ context' = "failed"
          /\ UNCHANGED <<streamOpen, receiver>>
    /\ UNCHANGED <<transport, buffer, unput, logQueue, taken, arrived, broken>>

\* REST: the response is taken from a temporary context manager that nothing
\* refers to afterwards. When it is collected, its own cleanup closes the
\* response.
ManagerCollected ==
    /\ transport = "rest"
    /\ context = "open" /\ streamOpen
    /\ streamOpen' = FALSE
    /\ UNCHANGED <<transport, context, receiver, buffer, unput, logQueue,
                   taken, arrived, broken>>

\* The application takes an item.
Read ==
    /\ context = "open"
    /\ logQueue # <<>>
    /\ taken' = Append(taken, Head(logQueue))
    /\ logQueue' = Tail(logQueue)
    /\ UNCHANGED <<transport, context, streamOpen, receiver, buffer, unput, arrived, broken>>

\* The application leaves the context: stream.cancel(), response.aclose(). The
\* check of the receiver's exception before it never raises, as the receiver
\* handles every exception itself.
Exit ==
    /\ context = "open"
    /\ context' = "closing"
    /\ streamOpen' = FALSE
    /\ UNCHANGED <<transport, receiver, buffer, unput, logQueue, taken, arrived, broken>>

\* Mutant: the receiver is cancelled and not awaited.
CancelReceiverUnjoined ==
    /\ context = "closing"
    /\ context' = "closed"
    /\ receiver' = IF receiver = "done" THEN "done" ELSE "cancelled"
    /\ UNCHANGED <<transport, streamOpen, buffer, unput, logQueue, taken, arrived, broken>>

\* Mutant: the receiver is awaited and not cancelled.
CancelReceiverNot ==
    /\ context = "closing"
    /\ context' = "joining"
    /\ UNCHANGED <<transport, streamOpen, receiver, buffer, unput, logQueue,
                   taken, arrived, broken>>

\* The stream is closed; a receiver that is not done is cancelled and joined.
CancelReceiver ==
    /\ context = "closing"
    /\ \/ receiver = "done" /\ context' = "closed" /\ UNCHANGED receiver
       \/ receiver # "done" /\ context' = "joining" /\ receiver' = "cancelled"
    /\ UNCHANGED <<transport, streamOpen, buffer, unput, logQueue, taken, arrived, broken>>

Joined ==
    /\ context = "joining" /\ receiver = "done"
    /\ context' = "closed"
    /\ UNCHANGED <<transport, streamOpen, receiver, buffer, unput, logQueue,
                   taken, arrived, broken>>

-----------------------------------------------------------------------------
Next ==
    \/ Open \/ ManagerCollected \/ Read \/ Exit \/ CancelReceiver \/ Joined
    \/ \E line \in {<<>>} \cup {<<b>> : b \in Ink} : ReceiveMessage(line)
    \/ \E chunk \in BoundedSeq(Bytes, MaxArrived) : ReceiveChunk(chunk)
    \/ PutResumes \/ StreamEnds \/ StreamTerminates \/ StreamFails
    \/ ReceiverCancelled

Spec == Init /\ [][Next]_vars

\* What the event loop does by itself when the context is left. Neither the
\* application nor the node is obliged to do anything.
Fairness ==
    /\ WF_vars(ReceiverCancelled)
    /\ WF_vars(CancelReceiver)
    /\ WF_vars(Joined)

FairSpec == Spec /\ Fairness

-----------------------------------------------------------------------------
(* Properties *)

\* The lines of a byte string, by the positions of its newlines: where the line
\* that ends at e begins, what is left of it, and the ends of the lines that are
\* not blank.
LineStart(bytes, e) ==
    CHOOSE s \in 1..e : /\ s = 1 \/ bytes[s - 1] = Newline
                       /\ \A i \in s..(e - 1) : bytes[i] # Newline

LineTo(bytes, e) == Strip(SubSeq(bytes, LineStart(bytes, e), e - 1))

LineEnds(bytes) == {e \in 1..Len(bytes) : bytes[e] = Newline /\ LineTo(bytes, e) # <<>>}

\* "lines" has a line for each of these ends, in their order.
AreLinesOf(lines, bytes) ==
    \E ends \in [1..Len(lines) -> LineEnds(bytes)] :
        /\ \A j, k \in 1..Len(lines) : j < k => ends[j] < ends[k]
        /\ \A e \in LineEnds(bytes) : \E k \in 1..Len(lines) : ends[k] = e
        /\ \A k \in 1..Len(lines) : lines[k] = LineTo(bytes, ends[k])

\* The items of the log, and those that are not its error.
Items  == taken \o logQueue
Logged == IF Items # <<>> /\ Items[Len(Items)] = NodeAPIError
          THEN SubSeq(Items, 1, Len(Items) - 1) ELSE Items

\* The lines the application got and those in the queue and in the receiver are
\* the lines of the stream, each once and in order: however the bytes are cut
\* into chunks, and however often the queue is full. They are all of them while
\* the context is open; a cancelled receiver gives up what it had not put yet.
LinesIntact ==
    \E n \in 0..Len(arrived) :
        /\ context = "open" => n = Len(arrived)
        /\ IF transport = "rest" THEN AreLinesOf(Logged \o unput, SubSeq(arrived, 1, n))
                                 ELSE Logged \o unput = SubSeq(arrived, 1, n)

\* An error is the last item of the log: the example of the docstring raises it
\* and reads no further.
ErrorEndsLog ==
    \A i \in 1..Len(Items) :
        Items[i] = NodeAPIError => i = Len(Items) /\ receiver = "done"

\* Once the context is closed no receiver is left behind, also when it was
\* waiting for room in a queue that nobody reads any more.
NoOrphanReceiver == context = "closed" => receiver = "done"

\* Leaving the context comes to an end.
ContextCloses == context \in {"closing", "joining"} ~> context = "closed"

\* A failure reaches the application (the docstring of stream_logs: "When an
\* error occurs during log streaming, a NodeAPIError instance is placed in the
\* queue").
ErrorReported == broken => \E i \in 1..Len(Items) : Items[i] = NodeAPIError

\* The stream stays open while the context is (the docstring of stream_logs:
\* "The stream is automatically closed when the context exits").
StreamOpenInContext == context = "open" => streamOpen
=============================================================================
