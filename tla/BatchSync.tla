------------------------------ MODULE BatchSync ------------------------------
(***************************************************************************)
(* One call of _sync_batch_users or sync_users_chunked, over gRPC or REST, *)
(* from its first message to the list of failed users it returns.          *)
(* SyncWorker knows these calls by their outcome only.                     *)
(*                                                                         *)
(* The users are 1..total. The node is the environment: it reads what is   *)
(* written to the stream in order, applies single users as it reads them   *)
(* and chunked ones when it has read the chunk marked last, and reports ok *)
(* when it has read the end of the stream; it may fail, or hang, any time. *)
(* A client in gRPC is in one of these places:                             *)
(*   sending    in send_message, under a timeout                           *)
(*   ending     in stream.end(), without a timeout                         *)
(*   answer     in recv_message, under a timeout (chunks only)             *)
(*   closing    leaving the context of the stream: waits for the status,   *)
(*              without a timeout                                          *)
(* In REST every place has the timeout of the request. Single users are    *)
(* requests of their own there: the stream is only used for chunks.        *)
(***************************************************************************)
EXTENDS Integers, Sequences

CONSTANTS MaxUsers,         \* bound: users in one call
          ChunkAim,         \* chunks the worker aims for (10)
          ChunkCap,         \* the worker's largest chunk (2000)
          FrameSizes        \* lengths a serialised chunk may have

ASSUME SizeAssumption ==
    /\ MaxUsers \in Nat
    /\ ChunkAim \in Nat \ {0} /\ ChunkCap \in Nat \ {0}
    /\ FrameSizes \subseteq Nat

VARIABLES call,             \* transport, method, number of users, chunk size
          pc,               \* where the client is
          start,            \* users that have been handed to the stream
          failed,           \* the local list "failed"
          wire,             \* messages written to the stream
          ended,            \* the end of the stream has been written
          read,             \* how many of the messages the node has read
          applied,          \* users the node has applied
          status,           \* what the node reports: open, ok, error, or hung
          result            \* the users returned as failed

vars == <<call, pc, start, failed, wire, ended, read, applied, status, result>>
clientVars == <<pc, start, failed, wire, ended, result>>
nodeVars   == <<read, applied, status>>

AllUsers == 1..call.total
Chunked == call.method = "chunked"

\* Mutant: a tenth rounded down.
WorkerChunkSizeDown(n) ==
    LET size == n \div ChunkAim
    IN  IF size = 0 THEN 1 ELSE IF size > ChunkCap THEN ChunkCap ELSE size

\* The chunk size the worker asks for: a tenth of the users, rounded up.
WorkerChunkSize(n) ==
    LET size == (n + ChunkAim - 1) \div ChunkAim
    IN  IF size = 0 THEN 1 ELSE IF size > ChunkCap THEN ChunkCap ELSE size

\* The calls that get as far as the stream: the worker's, with at least one
\* user, and the application's, whose chunk size is positive.
Calls ==
    { [transport |-> tr, method |-> "batch", total |-> n, size |-> 1] :
        tr \in {"grpc", "rest"}, n \in 1..MaxUsers } \cup
    { [transport |-> tr, method |-> "chunked", total |-> n, size |-> s] :
        tr \in {"grpc", "rest"}, n \in 0..MaxUsers, s \in 1..(MaxUsers + 1) }

TypeOK ==
    /\ call \in Calls
    /\ pc \in {"sending", "ending", "answer", "closing", "returned"}
    /\ start \in 0..call.total
    /\ failed \subseteq AllUsers /\ result \subseteq AllUsers
    /\ \A i \in 1..Len(wire) : wire[i].first \in 1..(call.total + 1)
    /\ ended \in BOOLEAN
    /\ read \in 0..(Len(wire) + 1)
    /\ applied \subseteq AllUsers
    /\ status \in {"open", "ok", "error", "hung"}

Init ==
    /\ call \in Calls
    /\ pc = "sending"
    /\ start = 0
    /\ failed = {}
    /\ wire = <<>>
    /\ ended = FALSE
    /\ read = 0
    /\ applied = {}
    /\ status = "open"
    /\ result = {}

Returns(users) == pc' = "returned" /\ result' = users

-----------------------------------------------------------------------------
(* Framing *)

\* Mutant: the last byte is recognised one too late.
VarintLate(length) ==
    LET Late[n \in Nat] ==
            IF n <= 128 THEN <<n>> ELSE <<128 + (n % 128)>> \o Late[n \div 128]
    IN  Late[length]

\* _encode_varint: seven bits to a byte, the lowest first, and the eighth bit
\* set in all bytes but the last.
Encoded[n \in Nat] ==
    IF n < 128 THEN <<n>> ELSE <<128 + (n % 128)>> \o Encoded[n \div 128]

Varint(length) == Encoded[length]

\* What a reader makes of the bytes: it stops at the first without the eighth
\* bit, and knows nothing of how many there are.
Decoded[bytes \in Seq(0..255) \ {<<>>}] ==
    IF Head(bytes) < 128 \/ Len(bytes) = 1
    THEN Head(bytes) ELSE (Head(bytes) % 128) + 128 * Decoded[Tail(bytes)]

\* A message with the users after the first "start" of them.
ChunkMarked(length, last) ==
    [first  |-> start + 1,
     until  |-> IF start + call.size < call.total THEN start + call.size ELSE call.total,
     index  |-> Len(wire),
     last   |-> last,
     length |-> length,
     header |-> IF call.transport = "rest" THEN Varint(length) ELSE <<>>]

\* Mutant: the mark is missing when the chunks come out even.
ChunkUneven(length) == ChunkMarked(length, start + call.size > call.total)

\* Without users there is one empty chunk, marked last.
Chunk(length) == ChunkMarked(length, start + call.size >= call.total)

\* A single user is a message of its own on the stream of SyncUser.
Single(u) == [first |-> u, until |-> u, index |-> u, last |-> FALSE,
              header |-> <<>>, length |-> 0]

-----------------------------------------------------------------------------
(* The client *)

\* gRPC, single users: a message is sent, or its timeout or an error makes this
\* one user fail; then it may have been written or not. The loop goes on.
SendUser ==
    /\ pc = "sending" /\ ~Chunked /\ call.transport = "grpc"
    /\ start < call.total
    /\ start' = start + 1
    /\ \/ wire' = Append(wire, Single(start + 1)) /\ UNCHANGED failed
       \/ /\ failed' = failed \cup {start + 1}
          /\ wire' \in {wire, Append(wire, Single(start + 1))}
    /\ UNCHANGED <<call, pc, ended, nodeVars, result>>

\* REST, single users: a request each. One that fails may have been applied.
RequestUser ==
    /\ pc = "sending" /\ ~Chunked /\ call.transport = "rest"
    /\ start < call.total
    /\ start' = start + 1
    /\ \/ /\ status # "hung"
          /\ applied' = applied \cup {start + 1}
          /\ UNCHANGED failed
       \/ /\ applied' \in {applied, applied \cup {start + 1}}
          /\ failed' = failed \cup {start + 1}
    /\ UNCHANGED <<call, pc, wire, ended, read, status, result>>

RequestsDone ==
    /\ pc = "sending" /\ ~Chunked /\ call.transport = "rest"
    /\ start = call.total
    /\ Returns(failed)
    /\ UNCHANGED <<call, start, failed, wire, ended, nodeVars>>

\* Mutant: the position runs past the last user.
SendChunkBeyond ==
    /\ pc = "sending" /\ Chunked
    /\ start < call.total \/ wire = <<>>
    /\ wire' = Append(wire, Chunk(0))
    /\ start' = start + call.size
    /\ UNCHANGED <<call, pc, failed, ended, nodeVars, result>>

\* Both transports, chunks: the next one is written. The first is always sent.
SendChunk ==
    /\ pc = "sending" /\ Chunked
    /\ start < call.total \/ wire = <<>>
    /\ \E length \in IF call.transport = "rest" THEN FrameSizes ELSE {0} :
          wire' = Append(wire, Chunk(length))
    /\ start' = IF start + call.size < call.total THEN start + call.size ELSE call.total
    /\ UNCHANGED <<call, pc, failed, ended, nodeVars, result>>

\* All messages are written: the stream is half-closed.
Finish ==
    /\ pc = "sending" /\ start = call.total
    /\ IF Chunked THEN wire # <<>> ELSE call.transport = "grpc"
    /\ pc' = "ending"
    /\ UNCHANGED <<call, start, failed, wire, ended, nodeVars, result>>

\* The end of the stream goes out as long as the connection takes data.
EndWritten ==
    /\ pc = "ending" /\ status # "hung"
    /\ ended' = TRUE
    /\ pc' = IF Chunked THEN "answer" ELSE "closing"
    /\ UNCHANGED <<call, start, failed, wire, nodeVars, result>>

\* Chunks: the response. In gRPC the status comes after it, and an error the
\* node has reported instead may only show there.
Answered ==
    /\ pc = "answer"
    /\ \/ /\ call.transport = "grpc" /\ status \in {"ok", "error"}
          /\ pc' = "closing" /\ UNCHANGED result
       \/ /\ call.transport = "rest" /\ status = "ok"
          /\ Returns({})
    /\ UNCHANGED <<call, start, failed, wire, ended, nodeVars>>

\* gRPC: the context of the stream is left without an exception.
Closed ==
    /\ pc = "closing" /\ status = "ok"
    /\ Returns(failed)
    /\ UNCHANGED <<call, start, failed, wire, ended, nodeVars>>

\* Mutant: what has been sent before the stream failed counts as synchronised.
StreamFailsPartly ==
    /\ pc # "returned" /\ (Chunked \/ call.transport = "grpc")
    /\ Returns(failed)
    /\ UNCHANGED <<call, start, failed, wire, ended, nodeVars>>

\* An exception anywhere in the stream, other than the timeout of a single
\* user: all users have failed.
StreamFails ==
    /\ pc # "returned" /\ (Chunked \/ call.transport = "grpc")
    /\ Returns(AllUsers)
    /\ UNCHANGED <<call, start, failed, wire, ended, nodeVars>>

\* These places have a timeout.
Timed == call.transport = "rest" \/ pc \in {"sending", "answer"}

\* Mutant: the response is awaited without a timeout.
MustFailUntimedAnswer ==
    ((Timed /\ pc # "answer") \/ status = "error") /\ StreamFails

\* Where an exception is bound to come in the end: at a timeout, or when the
\* node has reported an error.
MustFail == (Timed \/ status = "error") /\ StreamFails

-----------------------------------------------------------------------------
(* The node *)

NodeReads ==
    /\ status = "open" /\ read < Len(wire)
    /\ read' = read + 1
    /\ LET m == wire[read + 1]
       IN  applied' = IF ~Chunked THEN applied \cup {m.first}
                      ELSE IF m.last THEN UNION {wire[i].first..wire[i].until : i \in 1..(read + 1)}
                      ELSE applied
    /\ UNCHANGED <<call, clientVars, status>>

\* The end of the stream. A chunked sync without a last chunk is an error.
NodeFinishes ==
    /\ status = "open" /\ ended /\ read = Len(wire)
    /\ status' = IF Chunked /\ ~wire[read].last THEN "error" ELSE "ok"
    /\ UNCHANGED <<call, clientVars, read, applied>>

NodeStops ==
    /\ status = "open" /\ pc # "returned"
    /\ status' \in {"error", "hung"}
    /\ UNCHANGED <<call, clientVars, read, applied>>

-----------------------------------------------------------------------------
Client ==
    \/ SendUser \/ RequestUser \/ RequestsDone \/ SendChunk \/ Finish
    \/ EndWritten \/ Answered \/ Closed

Next == Client \/ StreamFails \/ NodeReads \/ NodeFinishes \/ NodeStops

\* Timeouts expire, a node that does not hang goes on reading and reports.
Fairness == WF_vars(Client) /\ WF_vars(MustFail) /\ WF_vars(NodeReads \/ NodeFinishes)

Spec == Init /\ [][Next]_vars /\ Fairness

-----------------------------------------------------------------------------
(* Properties *)

\* A user that is not reported as failed has been applied by the node: whatever
\* is sent, lost, timed out or cut off, the worker forgets no user that did not
\* arrive.
AcceptedApplied == pc = "returned" => AllUsers \ result \subseteq applied

\* A chunked sync is applied as a whole or not at all: chunks neither overlap
\* nor leave a gap, for every number of users and every chunk size, and the node
\* finds the mark of the last chunk exactly when it has read all of them.
AllOrNothing ==
    Chunked =>
        /\ applied \in {{}, AllUsers}
        /\ \A i, j \in 1..Len(wire) :
              i < j => wire[i].until < wire[j].first /\ wire[i].index < wire[j].index
        /\ \A i \in 1..Len(wire) : wire[i].last => i = Len(wire)
        /\ (ended /\ read = Len(wire)) => applied = AllUsers /\ wire[read].last

\* A reader of the REST stream finds the frames: the length before each is
\* decoded to what was encoded, from exactly the bytes that were written for it.
FramesDelimited ==
    \A i \in 1..Len(wire) :
        LET bytes == wire[i].header
        IN  bytes # <<>> => /\ Decoded[bytes] = wire[i].length
                            /\ \A b \in 1..Len(bytes) : bytes[b] < 128 <=> b = Len(bytes)

\* The worker's batches go in ten chunks at most, unless these would be larger
\* than the cap (the comment "Aim for ~10 chunks" in _sync_worker).
FewChunks ==
    (Chunked /\ call.size = WorkerChunkSize(call.total))
        => Len(wire) <= ChunkAim \/ call.size = ChunkCap

\* Every call returns, whatever the node does (the comment of example.py: the
\* timeouts apply "to all public API methods" and "to internal gRPC/HTTP
\* operations").
SyncTimesOut == <>(pc = "returned")

\* What is left of it: a call that does not return is in gRPC, waits to end the
\* stream or to leave it, and the node hangs. Every other wait has a timeout, and
\* these two end when the node fails instead of hanging.
ReturnsUnlessHung == <>(pc = "returned" \/ (status = "hung" /\ ~Timed))
=============================================================================
