--------------------------- MODULE BatchSyncProofs ---------------------------
(***************************************************************************)
(* Proofs about the transports, for any number of users and any chunk      *)
(* size: no user is forgotten, and a chunked sync is applied as a whole or *)
(* not at all. They rest on an invariant about the messages on the stream, *)
(* which says how far the chunks have come (Partition) or that every user  *)
(* passed is failed or on its way (Passed), and on one about the node,     *)
(* which has applied what it has read and nothing else.                    *)
(*                                                                         *)
(* The worker sends no more chunks than it aims at (AimKept), as every     *)
(* chunk but the last is full (ChunksPaced). A reader of the REST stream   *)
(* finds the frames (FramesFound): decoding undoes encoding for every      *)
(* length (Framing).                                                       *)
(***************************************************************************)
EXTENDS BatchSync, Induction

\* The header of a message is none, or the encoding of some length.
Messages == [first : Nat, until : Nat, index : Nat, last : BOOLEAN,
             header : {<<>>} \cup {Varint(n) : n \in Nat}, length : Nat]

\* The mark of the last chunk.
Marked(message) == message.last

Types ==
    /\ TypeOK
    /\ wire \in Seq(Messages)
    /\ read <= Len(wire)

\* Each chunk ends where the next begins, the last one at "start"; all users
\* passed are in one of the chunks so far.
Partition ==
    /\ wire # <<>> => wire[Len(wire)].until = start
    /\ wire = <<>> => start = 0
    /\ \A i \in 1..Len(wire) :
         /\ wire[i].first >= 1 /\ wire[i].until <= start
         /\ wire[i].index = i - 1
         /\ Marked(wire[i]) <=> wire[i].until = call.total
         /\ i < Len(wire) => wire[i].until < call.total
         /\ \A u \in 1..wire[i].until :
               \E j \in 1..i : wire[j].first <= u /\ u <= wire[j].until
    /\ \A i, j \in 1..Len(wire) : i < j => wire[i].until < wire[j].first

\* Without chunks: the users passed are failed, or a message of their own, or,
\* in REST, applied.
Passed ==
    /\ call.transport = "rest" => wire = <<>>
    /\ \A i \in 1..Len(wire) : wire[i].first \in AllUsers
    /\ \A u \in 1..start :
         \/ u \in failed
         \/ \E i \in 1..Len(wire) : wire[i].first = u
         \/ call.transport = "rest" /\ u \in applied

\* What the client has done by the time it is in a place.
ClientInv ==
    /\ pc \in {"ending", "answer", "closing"} =>
         start = call.total /\ (Chunked => wire # <<>>)
    /\ pc \in {"ending", "answer", "closing"} => (Chunked \/ call.transport = "grpc")
    /\ pc = "answer" => Chunked
    /\ ended => start = call.total /\ pc # "sending" /\ (Chunked => wire # <<>>)
    /\ Chunked => failed = {}
    /\ IF Chunked THEN Partition ELSE Passed

\* What the node has read it has applied, and what it reports is true.
NodeInv ==
    /\ ~Chunked => \A i \in 1..read : wire[i].first \in applied
    /\ Chunked => /\ applied \in {{}, AllUsers}
                  /\ \A i \in 1..read : Marked(wire[i]) => applied = AllUsers
    /\ status = "ok" => ended /\ read = Len(wire)
    /\ (status = "ok" /\ Chunked) => applied = AllUsers

BatchInv == Types /\ ClientInv /\ NodeInv /\ AcceptedApplied

\* Every call has a known transport and method, finitely many users, and chunks
\* of one user at least.
LEMMA CallTypes ==
    call \in Calls =>
        /\ call.total \in Nat
        /\ call.size \in Nat \ {0}
        /\ call.transport \in {"grpc", "rest"}
        /\ call.method \in {"batch", "chunked"}
BY SizeAssumption DEF Calls, SizeAssumption

\* A chunk begins after the users passed.
LEMMA ChunkTypes ==
    ASSUME Types, NEW length \in FrameSizes \cup {0}
    PROVE  /\ Chunk(length) \in Messages
           /\ Chunk(length).first = start + 1
           /\ Chunk(length).until = (IF start + call.size < call.total
                                     THEN start + call.size ELSE call.total)
           /\ Chunk(length).index = Len(wire)
<1>0. length \in Nat
      BY SizeAssumption DEF SizeAssumption
<1> USE CallTypes DEF Types, TypeOK, Messages
<1>1. LET h == IF call.transport = "rest" THEN Varint(length) ELSE <<>>
      IN  h \in {<<>>} \cup {Varint(n) : n \in Nat}
      BY SizeAssumption DEF SizeAssumption
<1>2. start \in Nat /\ Len(wire) \in Nat
      OBVIOUS
<1>4. ASSUME NEW last \in BOOLEAN
      PROVE  /\ ChunkMarked(length, last) \in Messages
             /\ ChunkMarked(length, last).first = start + 1
             /\ ChunkMarked(length, last).until = (IF start + call.size < call.total
                                                   THEN start + call.size ELSE call.total)
             /\ ChunkMarked(length, last).index = Len(wire)
      BY <1>0, <1>1, <1>2 DEF ChunkMarked
<1>5. (start + call.size >= call.total) \in BOOLEAN
      OBVIOUS
<1> QED BY <1>4, <1>5, Zenon DEF Chunk

\* It is marked when no user is left.
LEMMA ChunkMark ==
    ASSUME NEW length
    PROVE  Marked(Chunk(length)) <=> start + call.size >= call.total
BY Zenon DEF Chunk, ChunkMarked, Marked

\* A message with the next single user.
LEMMA SingleTypes ==
    ASSUME Types
    PROVE  /\ Single(start + 1) \in Messages
           /\ Single(start + 1).first = start + 1
<1>1. start \in Nat
      BY CallTypes DEF Types, TypeOK
<1> QED BY <1>1 DEF Single, Messages

\* A message is added behind the others.
LEMMA Added ==
    ASSUME wire \in Seq(Messages), NEW m \in Messages, wire' = Append(wire, m)
    PROVE  /\ wire' \in Seq(Messages)
           /\ Len(wire) \in Nat
           /\ Len(wire') = Len(wire) + 1
           /\ \A i \in 1..Len(wire) : wire'[i] = wire[i]
           /\ wire'[Len(wire) + 1] = m
           /\ wire' # <<>>
<1> HIDE DEF Messages
<1> QED OBVIOUS

\* The next chunk begins where the last has ended, before the last user.
LEMMA ChunkKeeps ==
    ASSUME BatchInv, SendChunk
    PROVE  BatchInv'
<1> USE DEF BatchInv
<1>1. PICK length \in FrameSizes \cup {0} : wire' = Append(wire, Chunk(length))
      BY DEF SendChunk
<1> DEFINE m == Chunk(length)
           n == Len(wire)
<1>2. /\ m \in Messages
      /\ m.first = start + 1
      /\ m.until = (IF start + call.size < call.total THEN start + call.size ELSE call.total)
      /\ m.index = n
      BY ChunkTypes
<1>3. wire' = Append(wire, m)
      BY <1>1
<1> HIDE DEF m
<1>4. /\ wire' \in Seq(Messages) /\ n \in Nat /\ Len(wire') = n + 1
      /\ \A i \in 1..n : wire'[i] = wire[i]
      /\ wire'[n + 1] = m
      /\ wire' # <<>>
      BY <1>2, <1>3, Added DEF Types
<1>5. /\ Chunked /\ pc = "sending" /\ start' = m.until
      /\ start < call.total \/ wire = <<>>
      /\ UNCHANGED <<call, pc, failed, ended, read, applied, status, result>>
      BY <1>2 DEF SendChunk, nodeVars
<1>6. /\ call.total \in Nat /\ call.size \in Nat \ {0} /\ start \in 0..call.total
      /\ start' \in start..call.total
      /\ start < call.total => start' > start
      BY <1>2, <1>5, CallTypes DEF Types, TypeOK
<1>7. wire = <<>> <=> n = 0
      BY DEF Types
<1>8. Types'
      <2>1. \A i \in 1..Len(wire') : wire'[i].first \in 1..(call'.total + 1)
            <3>1. m.first \in 1..(call.total + 1)
                  BY <1>2, <1>6
            <3>2. \A i \in 1..n : wire[i].first \in 1..(call.total + 1)
                  BY DEF Types, TypeOK
            <3> QED BY <1>4, <1>5, <3>1, <3>2
      <2> QED BY <1>4, <1>5, <1>6, <2>1 DEF Types, TypeOK, AllUsers
<1>9. Partition'
      <2> USE DEF ClientInv
      <2>1. Partition
            BY <1>5 DEF ClientInv
      <2>2. \A i \in 1..n : wire[i] \in Messages
            BY DEF Types
      <2>3. \A i \in 1..n : wire[i].until \in Nat /\ wire[i].first \in Nat /\ m.until \in Nat
            BY <1>2, <2>2 DEF Messages
      <2>4. (wire # <<>> => wire[Len(wire)].until = start)'
            BY <1>4, <1>5
      <2>5. \A i \in 1..(n + 1) :
               /\ wire'[i].first >= 1 /\ wire'[i].until <= start'
               /\ wire'[i].index = i - 1
            <3>1. ASSUME NEW i \in 1..n
                  PROVE  wire[i].first >= 1 /\ wire[i].until <= start' /\ wire[i].index = i - 1
                  <4>1. wire[i].until <= start
                        BY <2>1 DEF Partition
                  <4> QED BY <1>6, <2>1, <2>3, <4>1 DEF Partition
            <3>2. m.first >= 1 /\ m.until <= start' /\ m.index = n
                  BY <1>2, <1>5, <1>6
            <3> QED BY <1>4, <3>1, <3>2
      <2>6. \A i \in 1..(n + 1) : Marked(wire'[i]) <=> wire'[i].until = call.total
            <3>1. Marked(m) <=> m.until = call.total
                  BY <1>2, <1>6, ChunkMark DEF m
            <3>2. \A i \in 1..n : Marked(wire[i]) <=> wire[i].until = call.total
                  BY <2>1 DEF Partition
            <3>3. ASSUME NEW i \in 1..(n + 1)
                  PROVE  Marked(wire'[i]) <=> wire'[i].until = call.total
                  <4>1. CASE i \in 1..n
                        BY <1>4, <3>2, <4>1
                  <4>2. CASE i = n + 1
                        BY <1>4, <3>1, <4>2
                  <4> QED BY <1>4, <4>1, <4>2
            <3> QED BY <3>3
      <2>7. \A i \in 1..n : wire[i].until < call.total
            <3>1. ASSUME NEW i \in 1..n
                  PROVE  wire[i].until < call.total
                  <4>1. wire[i].until <= start
                        BY <2>1 DEF Partition
                  <4>2. start < call.total
                        BY <1>4, <1>5, <1>7
                  <4> QED BY <1>6, <2>3, <4>1, <4>2
            <3> QED BY <3>1
      <2>8. ASSUME NEW i \in 1..(n + 1), NEW u \in 1..wire'[i].until
            PROVE  \E j \in 1..i : wire'[j].first <= u /\ u <= wire'[j].until
            <3>1. CASE i \in 1..n
                  <4>1. wire'[i] = wire[i] /\ \A j \in 1..i : wire'[j] = wire[j]
                        BY <1>4, <3>1
                  <4>2. \E j \in 1..i : wire[j].first <= u /\ u <= wire[j].until
                        BY <2>1, <2>8, <3>1, <4>1 DEF Partition
                  <4> QED BY <4>1, <4>2
            <3>2. CASE i = n + 1 /\ u <= start
                  <4>1. n > 0 /\ wire[n].until = start
                        BY <1>4, <1>7, <2>1, <2>8, <3>2 DEF Partition
                  <4>2. u \in 1..wire[n].until /\ n \in 1..n
                        BY <1>4, <1>6, <2>3, <2>8, <3>2, <4>1
                  <4>3. PICK j \in 1..n : wire[j].first <= u /\ u <= wire[j].until
                        BY <2>1, <4>2 DEF Partition
                  <4> QED BY <1>4, <3>2, <4>3
            <3>3. CASE i = n + 1 /\ u > start
                  BY <1>2, <1>4, <1>6, <2>3, <2>8, <3>3
            <3> QED BY <1>4, <1>6, <2>3, <2>8, <3>1, <3>2, <3>3
      <2>9. \A i, j \in 1..(n + 1) : i < j => wire'[i].until < wire'[j].first
            <3>1. \A i \in 1..n : wire[i].until < m.first
                  BY <1>2, <1>6, <2>1, <2>3 DEF Partition
            <3>2. \A i, j \in 1..n : i < j => wire[i].until < wire[j].first
                  BY <2>1 DEF Partition
            <3>3. ASSUME NEW i \in 1..(n + 1), NEW j \in 1..(n + 1), i < j
                  PROVE  wire'[i].until < wire'[j].first
                  <4>1. i \in 1..n /\ wire'[i] = wire[i]
                        BY <1>4, <3>3
                  <4>2. CASE j \in 1..n
                        BY <1>4, <3>2, <3>3, <4>1, <4>2
                  <4>3. CASE j = n + 1
                        BY <1>4, <3>1, <4>1, <4>3
                  <4> QED BY <1>4, <4>2, <4>3
            <3> QED BY <3>3
      <2>10. Len(wire') = n + 1 /\ wire' # <<>> /\ call' = call
             BY <1>4, <1>5
      <2>11. \A i \in 1..Len(wire') : i < Len(wire') => wire'[i].until < call'.total
             BY <1>4, <2>7, <2>10
      <2> QED BY <2>4, <2>5, <2>6, <2>8, <2>9, <2>10, <2>11 DEF Partition
<1>10. ClientInv'
      BY <1>5, <1>9 DEF ClientInv, Chunked
<1>11. NodeInv'
      BY <1>4, <1>5 DEF NodeInv, ClientInv, Types, TypeOK, Chunked, AllUsers
<1> QED BY <1>5, <1>8, <1>10, <1>11 DEF AcceptedApplied

\* A single user is failed, or a message, or applied.
LEMMA SingleKeeps ==
    ASSUME BatchInv, SendUser \/ RequestUser
    PROVE  BatchInv'
<1> USE DEF BatchInv
<1> DEFINE n == Len(wire)
<1>1. /\ ~Chunked /\ pc = "sending" /\ ~ended /\ status # "ok"
      /\ start < call.total /\ start' = start + 1
      /\ failed \subseteq failed' /\ failed' \subseteq failed \cup {start + 1}
      /\ UNCHANGED <<call, pc, ended, read, status, result>>
      BY DEF SendUser, RequestUser, ClientInv, NodeInv, nodeVars
<1>2. call.total \in Nat /\ start \in 0..call.total /\ start + 1 \in AllUsers
      BY <1>1, CallTypes DEF Types, TypeOK, AllUsers
<1>3. Passed /\ ~Chunked'
      BY <1>1 DEF ClientInv, Chunked
<1>4. CASE wire' = Append(wire, Single(start + 1)) /\ SendUser
      <2>1. /\ wire' \in Seq(Messages) /\ n \in Nat /\ Len(wire') = n + 1
            /\ \A i \in 1..n : wire'[i] = wire[i]
            /\ wire'[n + 1].first = start + 1
            BY <1>4, Added, SingleTypes DEF Types
      <2>2. UNCHANGED applied /\ call.transport = "grpc"
            BY <1>4 DEF SendUser, nodeVars
      <2>3. \A i \in 1..(n + 1) : wire'[i].first \in AllUsers
            BY <1>2, <1>3, <2>1 DEF Passed
      <2>4. Types'
            <3>1. \A i \in 1..(n + 1) : wire'[i].first \in 1..(call.total + 1)
                  BY <1>2, <2>3 DEF AllUsers
            <3> QED BY <1>1, <1>2, <2>1, <2>2, <3>1 DEF Types, TypeOK, AllUsers
      <2>5. Passed'
            <3>1. ASSUME NEW u \in 1..start
                  PROVE  u \in failed' \/ \E i \in 1..(n + 1) : wire'[i].first = u
                  <4>1. CASE u \in failed
                        BY <1>1, <4>1
                  <4>2. CASE \E i \in 1..n : wire[i].first = u
                        BY <2>1, <4>2
                  <4> QED BY <1>3, <2>2, <4>1, <4>2 DEF Passed
            <3>2. \E i \in 1..(n + 1) : wire'[i].first = start + 1
                  BY <2>1
            <3> QED BY <1>1, <1>2, <2>1, <2>2, <2>3, <3>1, <3>2 DEF Passed, AllUsers
      <2>6. NodeInv'
            BY <1>1, <1>3, <2>1, <2>2 DEF NodeInv, Types, TypeOK
      <2>7. ClientInv'
            BY <1>1, <1>3, <2>5 DEF ClientInv
      <2> QED BY <1>1, <2>4, <2>6, <2>7 DEF AcceptedApplied
<1>5. CASE UNCHANGED wire
      <2>1. /\ applied \subseteq applied' /\ applied' \subseteq applied \cup {start + 1}
            /\ start + 1 \in failed' \/ (call.transport = "rest" /\ start + 1 \in applied')
            <3>1. CASE SendUser
                  <4>1. wire # Append(wire, Single(start + 1))
                        BY Added, SingleTypes DEF Types
                  <4> QED BY <1>5, <3>1, <4>1 DEF SendUser, nodeVars
            <3>2. CASE RequestUser
                  BY <3>2 DEF RequestUser
            <3> QED BY <3>1, <3>2
      <2>2. Types'
            BY <1>1, <1>2, <1>5, <2>1 DEF Types, TypeOK, AllUsers
      <2>3. Passed'
            BY <1>1, <1>2, <1>3, <1>5, <2>1 DEF Passed, AllUsers
      <2>4. NodeInv'
            BY <1>1, <1>3, <1>5, <2>1 DEF NodeInv
      <2>5. ClientInv'
            BY <1>1, <1>3, <2>3 DEF ClientInv
      <2> QED BY <1>1, <2>2, <2>4, <2>5 DEF AcceptedApplied
<1> QED BY <1>4, <1>5 DEF SendUser, RequestUser

\* The client ends the stream and returns. What it returns as failed is every
\* user, or all that have not been applied when the node has reported ok.
LEMMA ClientKeeps ==
    ASSUME BatchInv, Finish \/ EndWritten \/ RequestsDone \/ Answered \/ Closed \/ StreamFails
    PROVE  BatchInv'
<1> USE DEF BatchInv
<1>1. UNCHANGED <<call, start, failed, wire, read, applied, status>>
      BY DEF Finish, EndWritten, RequestsDone, Answered, Closed, StreamFails, nodeVars
<1>2. UNCHANGED <<Partition, Passed, Chunked, AllUsers>>
      BY <1>1 DEF Partition, Passed, Chunked, AllUsers
<1>3. Types' /\ ClientInv' /\ NodeInv'
      <2>1. CASE Finish \/ EndWritten
            BY <1>1, <1>2, <2>1, CallTypes
            DEF Finish, EndWritten, Types, TypeOK, ClientInv, NodeInv, Chunked
      <2>2. CASE Answered /\ UNCHANGED result
            BY <1>1, <1>2, <2>2 DEF Answered, Returns, Types, TypeOK, ClientInv, NodeInv
      <2>3. CASE pc' = "returned" /\ result' \subseteq AllUsers /\ UNCHANGED ended
            BY <1>1, <1>2, <2>3 DEF Types, TypeOK, ClientInv, NodeInv
      <2> QED BY <2>1, <2>2, <2>3
              DEF RequestsDone, Answered, Closed, StreamFails, Returns, Types, TypeOK, AllUsers
<1>4. AcceptedApplied'
      <2>1. CASE RequestsDone
            <3>1. Passed /\ wire = <<>> /\ start = call.total
                  BY <2>1 DEF RequestsDone, ClientInv, Passed
            <3>2. \A u \in AllUsers : u \in failed \/ u \in applied
                  BY <3>1 DEF Passed, AllUsers
            <3> QED BY <1>1, <1>2, <2>1, <3>2 DEF RequestsDone, Returns, AcceptedApplied
      <2>2. CASE Closed /\ ~Chunked
            <3>1. /\ Passed /\ start = call.total /\ call.transport = "grpc"
                  /\ read = Len(wire)
                  BY <2>2 DEF Closed, ClientInv, NodeInv
            <3>2. \A u \in AllUsers : u \in failed \/ u \in applied
                  BY <2>2, <3>1 DEF Passed, NodeInv, AllUsers
            <3> QED BY <1>1, <1>2, <2>2, <3>2 DEF Closed, Returns, AcceptedApplied
      <2>3. CASE (Closed \/ Answered) /\ Chunked
            BY <1>1, <1>2, <2>3 DEF Closed, Answered, Returns, NodeInv, AcceptedApplied
      <2>4. CASE StreamFails
            BY <1>1, <1>2, <2>4 DEF StreamFails, Returns, AcceptedApplied
      <2>5. CASE Finish \/ EndWritten
            BY <2>5 DEF Finish, EndWritten, AcceptedApplied
      <2> QED BY <2>1, <2>2, <2>3, <2>4, <2>5 DEF Answered, ClientInv
<1> QED BY <1>3, <1>4

\* The node applies what it reads, and reports ok when all of it is applied.
LEMMA NodeKeeps ==
    ASSUME BatchInv, NodeReads \/ NodeFinishes \/ NodeStops
    PROVE  BatchInv'
<1> USE DEF BatchInv
<1>1. UNCHANGED <<call, pc, start, failed, wire, ended, result>>
      BY DEF NodeReads, NodeFinishes, NodeStops, clientVars
<1>2. UNCHANGED <<Partition, Chunked, AllUsers>>
      BY <1>1 DEF Partition, Chunked, AllUsers
<1>3. CASE NodeReads
      <2>1. /\ status = "open" /\ UNCHANGED status /\ read' = read + 1
            /\ read \in Nat /\ read + 1 \in 1..Len(wire) /\ Len(wire) \in Nat
            BY <1>3 DEF NodeReads, Types, TypeOK
      <2>2. CASE ~Chunked
            <3>1. Passed /\ wire[read + 1].first \in AllUsers
                  BY <2>1, <2>2 DEF ClientInv, Passed
            <3>2. applied' = applied \cup {wire[read + 1].first}
                  BY <1>3, <2>2 DEF NodeReads
            <3>3. Types'
                  BY <1>1, <1>2, <2>1, <3>1, <3>2 DEF Types, TypeOK
            <3>4. ClientInv'
                  BY <1>1, <1>2, <2>2, <3>1, <3>2 DEF ClientInv, Passed
            <3>5. NodeInv'
                  BY <1>1, <1>2, <2>1, <2>2, <3>2 DEF NodeInv
            <3> QED BY <1>1, <1>2, <3>2, <3>3, <3>4, <3>5 DEF AcceptedApplied
      <2>3. CASE Chunked
            <3>1. applied' = IF Marked(wire[read + 1])
                             THEN UNION {wire[i].first..wire[i].until : i \in 1..(read + 1)}
                             ELSE applied
                  BY <1>3, <2>3 DEF NodeReads, Marked
            <3>2. Marked(wire[read + 1]) => applied' = AllUsers
                  <4> SUFFICES ASSUME Marked(wire[read + 1])
                               PROVE  UNION {wire[i].first..wire[i].until : i \in 1..(read + 1)} = AllUsers
                      BY <3>1
                  <4>1. Partition /\ call.total \in Nat /\ start \in 0..call.total
                        BY <2>3, CallTypes DEF ClientInv, Types, TypeOK
                  <4>2. wire[read + 1].until = call.total
                        BY <2>1, <4>1 DEF Partition
                  <4>3. \A i \in 1..(read + 1) : wire[i] \in Messages
                        BY <2>1 DEF Types
                  <4>4. ASSUME NEW i \in 1..(read + 1)
                        PROVE  wire[i].first..wire[i].until \subseteq AllUsers
                        <5>1. i \in 1..Len(wire) /\ wire[i] \in Messages
                              BY <2>1, <4>3
                        <5>2. wire[i].first \in Nat /\ wire[i].until \in Nat
                              BY <5>1 DEF Messages
                        <5>3. wire[i].first >= 1 /\ wire[i].until <= start
                              BY <4>1, <5>1 DEF Partition
                        <5> QED BY <4>1, <5>2, <5>3 DEF AllUsers
                  <4>5. ASSUME NEW u \in AllUsers
                        PROVE  \E i \in 1..(read + 1) : u \in wire[i].first..wire[i].until
                        <5>1. PICK i \in 1..(read + 1) : wire[i].first <= u /\ u <= wire[i].until
                              BY <2>1, <4>1, <4>2 DEF Partition, AllUsers
                        <5>2. u \in Int /\ wire[i].first \in Int /\ wire[i].until \in Int
                              BY <4>1, <4>3 DEF AllUsers, Messages
                        <5> QED BY <5>1, <5>2
                  <4> QED BY <4>4, <4>5
            <3>3. applied' \in {{}, AllUsers} /\ applied \subseteq applied'
                  BY <2>3, <3>1, <3>2 DEF NodeInv
            <3>4. Types'
                  BY <1>1, <1>2, <2>1, <3>3 DEF Types, TypeOK
            <3>5. ClientInv'
                  BY <1>1, <1>2, <2>3 DEF ClientInv
            <3>6. NodeInv'
                  BY <1>1, <1>2, <2>1, <2>3, <3>1, <3>2, <3>3 DEF NodeInv
            <3> QED BY <1>1, <1>2, <3>3, <3>4, <3>5, <3>6 DEF AcceptedApplied
      <2> QED BY <2>2, <2>3
<1>4. CASE NodeFinishes \/ NodeStops
      <2>1. UNCHANGED <<read, applied>> /\ status' \in {"open", "ok", "error", "hung"}
            BY <1>4 DEF NodeFinishes, NodeStops
      <2>2. UNCHANGED Passed
            BY <1>1, <1>2, <2>1 DEF Passed
      <2>3. Types'
            BY <1>1, <1>2, <2>1 DEF Types, TypeOK
      <2>4. ClientInv'
            BY <1>1, <1>2, <2>2 DEF ClientInv
      <2>5. NodeInv'
            <3>1. CASE status' # "ok"
                  BY <1>1, <1>2, <2>1, <3>1 DEF NodeInv
            <3>2. CASE status' = "ok"
                  <4>1. ended /\ read = Len(wire) /\ (Chunked => Marked(wire[read]))
                        BY <1>4, <3>2 DEF NodeFinishes, NodeStops, Marked
                  <4>2. Chunked => wire # <<>>
                        BY <4>1 DEF ClientInv
                  <4>3. Chunked => read \in 1..read
                        BY <4>1, <4>2 DEF Types
                  <4>4. Chunked => applied = AllUsers
                        BY <4>1, <4>3 DEF NodeInv
                  <4> QED BY <1>1, <1>2, <2>1, <4>1, <4>4 DEF NodeInv
            <3> QED BY <3>1, <3>2
      <2> QED BY <1>1, <1>2, <2>1, <2>3, <2>4, <2>5 DEF AcceptedApplied
<1> QED BY <1>3, <1>4

\* The inductive invariant of a call: the messages on the stream, what the
\* client has done in each place, and what the node has applied.
THEOREM BatchInvariant == Spec => []BatchInv
<1>1. Init => BatchInv
      <2> SUFFICES ASSUME Init
                   PROVE  BatchInv
          OBVIOUS
      <2>1. wire = <<>> /\ Len(wire) = 0 /\ wire \in Seq(Messages)
            BY DEF Init
      <2>2. Types
            <3>1. start \in 0..call.total
                  BY CallTypes DEF Init
            <3>2. read \in 0..(Len(wire) + 1) /\ read <= Len(wire)
                  BY <2>1 DEF Init
            <3>3. \A i \in 1..Len(wire) : wire[i].first \in 1..(call.total + 1)
                  BY <2>1
            <3> QED BY <2>1, <3>1, <3>2, <3>3 DEF Init, Types, TypeOK
      <2>3. ClientInv
            BY <2>1 DEF Init, ClientInv, Partition, Passed
      <2>4. NodeInv /\ AcceptedApplied
            BY <2>1 DEF Init, NodeInv, AcceptedApplied
      <2> QED BY <2>2, <2>3, <2>4 DEF BatchInv
<1>2. BatchInv /\ [Next]_vars => BatchInv'
      <2> SUFFICES ASSUME BatchInv, [Next]_vars
                   PROVE  BatchInv'
          OBVIOUS
      <2>1. CASE SendChunk
            BY <2>1, ChunkKeeps
      <2>2. CASE SendUser \/ RequestUser
            BY <2>2, SingleKeeps
      <2>3. CASE Finish \/ EndWritten \/ RequestsDone \/ Answered \/ Closed \/ StreamFails
            BY <2>3, ClientKeeps
      <2>4. CASE NodeReads \/ NodeFinishes \/ NodeStops
            BY <2>4, NodeKeeps
      <2>5. CASE UNCHANGED vars
            BY <2>5 DEF vars, BatchInv, Types, TypeOK, ClientInv, NodeInv, Partition, Passed,
                        AcceptedApplied, Chunked, AllUsers
      <2> QED BY <2>1, <2>2, <2>3, <2>4, <2>5 DEF Next, Client
<1> QED BY <1>1, <1>2, PTL DEF Spec

\* Every variable keeps its type: in particular the node never reads beyond
\* what was written, and nobody outside the batch is applied or reported.
THEOREM BatchTypes == Spec => []TypeOK
<1>1. BatchInv => TypeOK
      BY DEF BatchInv, Types
<1> QED BY <1>1, BatchInvariant, PTL

\* No user is forgotten: what is not reported as failed has been applied, for
\* both transports, with chunks of any size or without.
THEOREM NoUserForgotten == Spec => []AcceptedApplied
<1>1. BatchInv => AcceptedApplied
      BY DEF BatchInv
<1> QED BY <1>1, BatchInvariant, PTL

\* A chunked sync is applied as a whole or not at all, for every number of users
\* and every chunk size.
THEOREM ChunksWhole == Spec => []AllOrNothing
<1>1. BatchInv => AllOrNothing
      <2> SUFFICES ASSUME BatchInv, Chunked
                   PROVE  AllOrNothing
          BY DEF AllOrNothing
      <2>1. Partition /\ Len(wire) \in Nat /\ call.total \in Nat /\ start \in 0..call.total
            BY CallTypes DEF BatchInv, ClientInv, Types, TypeOK
      <2>2. \A i, j \in 1..Len(wire) :
               i < j => wire[i].until < wire[j].first /\ wire[i].index < wire[j].index
            <3>1. \A i, j \in 1..Len(wire) : i < j => wire[i].until < wire[j].first
                  BY <2>1 DEF Partition
            <3>2. \A i \in 1..Len(wire) : wire[i].index = i - 1
                  BY <2>1 DEF Partition
            <3>3. \A i, j \in 1..Len(wire) : i < j => wire[i].index < wire[j].index
                  BY <3>2
            <3> QED BY <3>1, <3>3
      <2>3. ASSUME NEW i \in 1..Len(wire), Marked(wire[i])
            PROVE  i = Len(wire)
            <3>1. wire[i].until = call.total /\ (i < Len(wire) => wire[i].until < call.total)
                  BY <2>1, <2>3 DEF Partition
            <3> QED BY <2>1, <3>1
      <2>4. ASSUME ended, read = Len(wire)
            PROVE  applied = AllUsers /\ Marked(wire[read])
            <3>1. wire # <<>> /\ start = call.total
                  BY <2>4 DEF BatchInv, ClientInv
            <3>2. read \in 1..Len(wire)
                  BY <2>1, <2>4, <3>1 DEF BatchInv, Types
            <3>3. Marked(wire[read])
                  BY <2>1, <2>4, <3>1, <3>2 DEF Partition
            <3> QED BY <3>2, <3>3 DEF BatchInv, NodeInv
      <2>5. applied \in {{}, AllUsers}
            BY DEF BatchInv, NodeInv
      <2> QED BY <2>2, <2>3, <2>4, <2>5 DEF AllOrNothing, Marked
<1> QED BY <1>1, BatchInvariant, PTL

-----------------------------------------------------------------------------
(* The stream grows by messages of the calls, and by nothing else *)

\* A step leaves the stream as it is, or adds one message behind the others: the
\* next chunk, or the next single user.
LEMMA StreamGrows ==
    ASSUME BatchInv, [Next]_vars, wire' # wire
    PROVE  \E m \in Messages :
              /\ wire' = Append(wire, m) /\ UNCHANGED call
              /\ \/ /\ SendChunk
                    /\ \E length \in FrameSizes \cup {0} : m = Chunk(length)
                 \/ ~Chunked /\ m = Single(start + 1)
<1>1. SendChunk \/ SendUser
      BY DEF Next, Client, RequestUser, RequestsDone, Finish, EndWritten, Answered, Closed,
             StreamFails, NodeReads, NodeFinishes, NodeStops, clientVars, vars
<1>2. CASE SendChunk
      <2>1. PICK length \in FrameSizes \cup {0} : wire' = Append(wire, Chunk(length))
            BY <1>2 DEF SendChunk
      <2>2. Chunk(length) \in Messages
            BY ChunkTypes DEF BatchInv
      <2> QED BY <1>2, <2>1, <2>2 DEF SendChunk
<1>3. CASE SendUser
      <2>1. wire' = Append(wire, Single(start + 1)) /\ ~Chunked /\ UNCHANGED call
            BY <1>3 DEF SendUser
      <2> QED BY <2>1, SingleTypes DEF BatchInv
<1> QED BY <1>1, <1>2, <1>3

-----------------------------------------------------------------------------
(* Chunks of the worker *)

\* Every chunk but the last one is full: their number and the chunk size say how
\* far they have come, and all chunks but one do not reach the last user.
Paced ==
    Chunked =>
        /\ start = IF Len(wire) * call.size < call.total THEN Len(wire) * call.size
                                                        ELSE call.total
        /\ Len(wire) <= 1 \/ (Len(wire) - 1) * call.size < call.total

\* A quotient rounded up is large enough.
LEMMA RoundedUp ==
    ASSUME NEW n \in Nat, NEW a \in Nat \ {0}
    PROVE  /\ (n + a - 1) \div a \in Nat
           /\ n <= ((n + a - 1) \div a) * a
OBVIOUS

\* The pace of the chunks is inductive.
THEOREM ChunksPaced == Spec => []Paced
<1>1. Init => Paced
      BY CallTypes DEF Init, Paced
<1>2. BatchInv /\ Paced /\ [Next]_vars => Paced'
      <2> SUFFICES ASSUME BatchInv, Paced, [Next]_vars, Chunked'
                   PROVE  Paced'
          BY DEF Paced
      <2>1. UNCHANGED call /\ Chunked
            BY DEF Next, Client, SendChunk, SendUser, RequestUser, RequestsDone, Finish, EndWritten,
                   Answered, Closed, StreamFails, NodeReads, NodeFinishes, NodeStops, vars, Chunked
      <2>2. CASE SendChunk
            <3> DEFINE n == Len(wire)
                       t == call.total
                       s == call.size
            <3>1. n \in Nat /\ Len(wire') = n + 1
                  <4>1. PICK length \in FrameSizes \cup {0} : wire' = Append(wire, Chunk(length))
                        BY <2>2 DEF SendChunk
                  <4> QED BY <4>1, ChunkTypes, Added DEF BatchInv, Types
            <3>2. /\ start' = (IF start + s < t THEN start + s ELSE t)
                  /\ start < t \/ n = 0
                  BY <2>2 DEF SendChunk
            <3>3. t \in Nat /\ s \in Nat \ {0}
                  BY CallTypes DEF BatchInv, Types, TypeOK
            <3>4. /\ start = (IF n * s < t THEN n * s ELSE t)
                  /\ n <= 1 \/ (n - 1) * s < t
                  BY <2>1 DEF Paced
            <3>5. n * s \in Nat /\ (n + 1) * s = n * s + s /\ (n + 1) - 1 = n
                  BY <3>1, <3>3
            <3> HIDE DEF n, t, s
            <3>6. /\ start' = (IF (n + 1) * s < t THEN (n + 1) * s ELSE t)
                  /\ n + 1 <= 1 \/ n * s < t
                  <4>1. CASE n * s < t
                        BY <3>1, <3>2, <3>3, <3>4, <3>5, <4>1
                  <4>2. CASE ~(n * s < t)
                        <5>1. start = t /\ n = 0 /\ n * s = 0
                              BY <3>1, <3>2, <3>3, <3>4, <4>2
                        <5> QED BY <3>1, <3>2, <3>3, <3>5, <4>2, <5>1
                  <4> QED BY <4>1, <4>2
            <3> QED BY <2>1, <3>1, <3>5, <3>6 DEF Paced, n, t, s
      <2>3. CASE UNCHANGED <<wire, start>>
            BY <2>1, <2>3 DEF Paced
      <2> QED BY <2>1, <2>2, <2>3
              DEF Next, Client, SendUser, RequestUser, RequestsDone, Finish, EndWritten, Answered,
                  Closed, StreamFails, NodeReads, NodeFinishes, NodeStops, vars, clientVars, Chunked
<1> QED BY <1>1, <1>2, BatchInvariant, PTL DEF Spec

\* The worker's batches go in as many chunks as it aims for at most, unless these
\* would be larger than the cap: for every number of users, aim and cap.
THEOREM AimKept == Spec => []FewChunks
<1>1. BatchInv /\ Paced => FewChunks
      <2> SUFFICES ASSUME BatchInv, Paced, Chunked, call.size = WorkerChunkSize(call.total),
                          call.size # ChunkCap
                   PROVE  Len(wire) <= ChunkAim
          BY DEF FewChunks
      <2> DEFINE n == Len(wire)
                 t == call.total
                 s == call.size
                 q == (t + ChunkAim - 1) \div ChunkAim
      <2>1. n \in Nat /\ t \in Nat /\ s \in Nat \ {0} /\ ChunkAim \in Nat \ {0}
            BY CallTypes, SizeAssumption DEF SizeAssumption, BatchInv, Types, TypeOK
      <2>2. q \in Nat /\ t <= q * ChunkAim
            BY <2>1, RoundedUp
      <2>3. q <= s
            BY <2>1, <2>2 DEF WorkerChunkSize
      <2>4. n <= 1 \/ (n - 1) * s < t
            BY DEF Paced
      <2> HIDE DEF n, t, s, q
      <2>5. q * ChunkAim <= s * ChunkAim
            BY <2>1, <2>2, <2>3
      <2>6. ASSUME n > ChunkAim
            PROVE  FALSE
            <3>1. n - 1 >= ChunkAim /\ n > 1 /\ n - 1 \in Nat
                  BY <2>1, <2>6
            <3>2. (n - 1) * s >= s * ChunkAim
                  BY <2>1, <3>1
            <3>3. (n - 1) * s \in Nat /\ s * ChunkAim \in Nat /\ q * ChunkAim \in Nat
                  BY <2>1, <2>2, <3>1
            <3> QED BY <2>1, <2>2, <2>4, <2>5, <3>1, <3>2, <3>3
      <2> QED BY <2>1, <2>6 DEF n
<1> QED BY <1>1, BatchInvariant, ChunksPaced, PTL

-----------------------------------------------------------------------------
(* Framing of the REST stream *)

\* The encoding satisfies its equation, for lengths of any size.
LEMMA EncodedBytes ==
    /\ Encoded \in [Nat -> Seq(0..255)]
    /\ \A n \in Nat : Encoded[n] = IF n < 128 THEN <<n>>
                                   ELSE <<128 + (n % 128)>> \o Encoded[n \div 128]
<1> DEFINE S == Seq(0..255)
           B == 0..127
           size == [n \in Nat |-> n]
           base == [n \in B |-> <<n>>]
           prev == [n \in Nat |-> n \div 128]
           Longer(n, y) == <<128 + (n % 128)>> \o y
           step == [n \in Nat |-> [y \in S |-> Longer(n, y)]]
           Solves(f) == f = [n \in Nat |-> IF n < 128 THEN <<n>>
                                           ELSE Longer(n, f[n \div 128])]
<1>1. ASSUME NEW n \in B
      PROVE  base[n] = <<n>> /\ base[n] \in S
      <2>1. n \in 0..255
            OBVIOUS
      <2>2. <<n>> \in S
            BY <2>1
      <2> QED BY <2>2
<1>2. ASSUME NEW n \in Nat, n \notin B
      PROVE  prev[n] = n \div 128 /\ n \div 128 \in Nat /\ n \div 128 < n /\ ~(n < 128)
      BY <1>2
<1>3. ASSUME NEW n \in Nat, NEW y \in S
      PROVE  step[n][y] = Longer(n, y) /\ step[n][y] \in S
      <2>1. 128 + (n % 128) \in 0..255
            OBVIOUS
      <2>2. step[n][y] = Longer(n, y)
            OBVIOUS
      <2>3. <<128 + (n % 128)>> \o y \in S
            BY <2>1
      <2> QED BY <2>2, <2>3
<1>4. size \in [Nat -> Nat] /\ \A n \in Nat : size[n] = n
      OBVIOUS
<1>5. \A n \in Nat : n \in B <=> n < 128
      OBVIOUS
<1> HIDE DEF S, B, size, base, prev, step, Longer
<1>6. WellDefined(Nat, S, size, B, base, prev, step)
      <2>1. \A n \in Nat \cap B : base[n] \in S
            BY <1>1
      <2>2. \A n \in Nat \ B : prev[n] \in Nat /\ size[prev[n]] < size[n]
            BY <1>2, <1>4
      <2>3. \A n \in Nat \ B : \A y \in S : step[n][y] \in S
            BY <1>3
      <2> QED BY <1>4, <2>1, <2>2, <2>3 DEF WellDefined
<1>7. ASSUME NEW f, Solves(f)
      PROVE  Solution(f, Nat, S, B, base, prev, step)
      <2>1. ASSUME NEW n \in Nat \cap B PROVE f[n] = base[n]
            BY <1>1, <1>5, <1>7
      <2>2. ASSUME NEW n \in Nat \ B, f[prev[n]] \in S
            PROVE  f[n] = step[n][f[prev[n]]]
            <3>1. f[n] = Longer(n, f[n \div 128])
                  BY <1>2, <1>7
            <3>2. step[n][f[prev[n]]] = Longer(n, f[prev[n]])
                  BY <1>3, <2>2
            <3> QED BY <1>2, <3>1, <3>2
      <2>3. f = [n \in Nat |-> f[n]]
            BY <1>7
      <2> QED BY <2>1, <2>2, <2>3 DEF Solution
<1>8. ASSUME NEW f, f \in [Nat -> S], Solution(f, Nat, S, B, base, prev, step)
      PROVE  Solves(f)
      <2>1. ASSUME NEW n \in Nat, n < 128
            PROVE  f[n] = <<n>>
            BY <1>1, <1>5, <1>8, <2>1 DEF Solution
      <2>2. ASSUME NEW n \in Nat, ~(n < 128)
            PROVE  f[n] = Longer(n, f[n \div 128])
            <3>1. n \notin B /\ prev[n] = n \div 128 /\ f[prev[n]] \in S
                  BY <1>2, <1>5, <1>8, <2>2
            <3>2. f[n] = step[n][f[prev[n]]]
                  BY <1>8, <3>1 DEF Solution
            <3> QED BY <1>3, <3>1, <3>2
      <2> QED BY <1>8, <2>1, <2>2
<1>9. \E f : Solves(f)
      <2> HIDE DEF Solves
      <2> QED BY <1>6, <1>8, Recursion, RecursionType
<1>10. Solves(Encoded)
       BY <1>9 DEF Encoded, Longer
<1>11. Encoded \in [Nat -> S]
       <2> HIDE DEF Solves
       <2> QED BY <1>6, <1>7, <1>10, RecursionType
<1>12. \A n \in Nat : Encoded[n] = IF n < 128 THEN <<n>> ELSE Longer(n, Encoded[n \div 128])
       BY <1>10
<1> QED BY <1>11, <1>12 DEF S, Longer

\* What the bytes of a frame's length are: the strings a reader is given.
Strings == Seq(0..255) \ {<<>>}

\* The reader's value satisfies its equation, for strings of any length.
LEMMA DecodedValue ==
    /\ Decoded \in [Strings -> Nat]
    /\ \A bytes \in Strings :
          Decoded[bytes] = IF Head(bytes) < 128 \/ Len(bytes) = 1 THEN Head(bytes)
                           ELSE (Head(bytes) % 128) + 128 * Decoded[Tail(bytes)]
<1> DEFINE Last(s) == Head(s) < 128 \/ Len(s) = 1
           B == {s \in Strings : Last(s)}
           size == [s \in Strings |-> Len(s)]
           base == [s \in Strings |-> Head(s)]
           prev == [s \in Strings |-> Tail(s)]
           Sum(s, y) == (Head(s) % 128) + 128 * y
           step == [s \in Strings |-> [y \in Nat |-> Sum(s, y)]]
           Solves(f) == f = [s \in Strings |-> IF Last(s) THEN Head(s) ELSE Sum(s, f[Tail(s)])]
<1>1. ASSUME NEW s \in Strings
      PROVE  /\ s \in Seq(0..255) /\ Len(s) \in Nat /\ Len(s) >= 1
             /\ Head(s) \in 0..255
             /\ Tail(s) \in Seq(0..255) /\ Len(Tail(s)) = Len(s) - 1
             /\ Len(s) # 1 => Tail(s) \in Strings
      <2>1. s \in Seq(0..255) /\ s # <<>>
            BY DEF Strings
      <2>2. Len(s) \in Nat \ {0}
            BY <2>1, EmptySeq
      <2>3. Head(s) \in 0..255 /\ Tail(s) \in Seq(0..255) /\ Len(Tail(s)) = Len(s) - 1
            BY <2>1, HeadTailProperties
      <2>4. Len(s) # 1 => Tail(s) # <<>>
            <3>1. \A t \in Seq(0..255) : Len(t) # 0 => t # <<>>
                  OBVIOUS
            <3>2. Len(s) # 1 => Len(Tail(s)) # 0
                  BY <2>2, <2>3
            <3> QED BY <2>3, <3>1, <3>2
      <2> QED BY <2>1, <2>2, <2>3, <2>4 DEF Strings
<1>2. ASSUME NEW s \in Strings
      PROVE  /\ size[s] = Len(s) /\ base[s] = Head(s) /\ prev[s] = Tail(s)
             /\ s \in B <=> Last(s)
      OBVIOUS
<1>3. ASSUME NEW s \in Strings, NEW y \in Nat
      PROVE  step[s][y] = Sum(s, y) /\ step[s][y] \in Nat
      <2>1. Head(s) \in 0..255
            BY <1>1
      <2>2. \A h \in 0..255 : (h % 128) + 128 * y \in Nat
            OBVIOUS
      <2> QED BY <2>1, <2>2
<1>4. size \in [Strings -> Nat]
      BY <1>1
<1> HIDE DEF Strings, B, size, base, prev, step, Sum
<1>5. ASSUME NEW s \in Strings, s \notin B
      PROVE  /\ prev[s] = Tail(s) /\ Tail(s) \in Strings /\ size[Tail(s)] < size[s] /\ ~Last(s)
      <2>1. ~Last(s) /\ prev[s] = Tail(s) /\ size[s] = Len(s)
            BY <1>2, <1>5
      <2>2. Len(s) # 1
            BY <2>1
      <2> HIDE DEF Last
      <2>3. Tail(s) \in Strings /\ size[Tail(s)] = Len(s) - 1 /\ Len(s) \in Nat
            BY <1>1, <1>2, <2>2
      <2> QED BY <2>1, <2>3
<1> HIDE DEF Last
<1>6. WellDefined(Strings, Nat, size, B, base, prev, step)
      <2>1. ASSUME NEW s \in Strings \cap B
            PROVE  base[s] \in Nat
            <3>1. Head(s) \in 0..255
                  BY <1>1
            <3>2. base[s] = Head(s)
                  BY <1>2
            <3> QED BY <3>1, <3>2
      <2>2. \A s \in Strings \ B : prev[s] \in Strings /\ size[prev[s]] < size[s]
            BY <1>5
      <2>3. \A s \in Strings \ B : \A y \in Nat : step[s][y] \in Nat
            BY <1>3
      <2> QED BY <1>4, <2>1, <2>2, <2>3 DEF WellDefined
<1>7. ASSUME NEW f, Solves(f)
      PROVE  Solution(f, Strings, Nat, B, base, prev, step)
      <2>1. ASSUME NEW s \in Strings \cap B PROVE f[s] = base[s]
            BY <1>2, <1>7
      <2>2. ASSUME NEW s \in Strings \ B, f[prev[s]] \in Nat
            PROVE  f[s] = step[s][f[prev[s]]]
            <3>1. f[s] = Sum(s, f[Tail(s)])
                  BY <1>5, <1>7
            <3>2. step[s][f[prev[s]]] = Sum(s, f[prev[s]])
                  BY <1>3, <2>2
            <3> QED BY <1>5, <3>1, <3>2
      <2>3. f = [s \in Strings |-> f[s]]
            BY <1>7
      <2> QED BY <2>1, <2>2, <2>3 DEF Solution
<1>8. ASSUME NEW f, f \in [Strings -> Nat], Solution(f, Strings, Nat, B, base, prev, step)
      PROVE  Solves(f)
      <2>1. ASSUME NEW s \in Strings, Last(s)
            PROVE  f[s] = Head(s)
            BY <1>2, <1>8, <2>1 DEF Solution
      <2>2. ASSUME NEW s \in Strings, ~Last(s)
            PROVE  f[s] = Sum(s, f[Tail(s)])
            <3>1. s \notin B /\ prev[s] = Tail(s) /\ f[prev[s]] \in Nat
                  BY <1>2, <1>5, <1>8, <2>2
            <3>2. f[s] = step[s][f[prev[s]]]
                  BY <1>8, <3>1 DEF Solution
            <3> QED BY <1>3, <3>1, <3>2
      <2> QED BY <1>8, <2>1, <2>2
<1>9. \E f : Solves(f)
      <2> HIDE DEF Solves
      <2> QED BY <1>6, <1>8, Recursion, RecursionType
<1>10. Solves(Decoded)
       BY <1>9 DEF Decoded, Strings, Last, Sum
<1>11. Decoded \in [Strings -> Nat]
       <2> HIDE DEF Solves
       <2> QED BY <1>6, <1>7, <1>10, RecursionType
<1>12. \A s \in Strings : Decoded[s] = IF Last(s) THEN Head(s) ELSE Sum(s, Decoded[Tail(s)])
       BY <1>10
<1> QED BY <1>11, <1>12 DEF Last, Sum

\* The reader gets back the length that was encoded, and finds its last byte by
\* the missing eighth bit.
LEMMA Framing ==
    ASSUME NEW n \in Nat
    PROVE  /\ Varint(n) \in Strings
           /\ Decoded[Varint(n)] = n
           /\ \A b \in 1..Len(Varint(n)) : Varint(n)[b] < 128 <=> b = Len(Varint(n))
<1> DEFINE Ends(s) == \A b \in 1..Len(s) : s[b] < 128 <=> b = Len(s)
           A == {k \in Nat : Encoded[k] # <<>> /\ Decoded[Encoded[k]] = k /\ Ends(Encoded[k])}
<1>1. \A k \in Nat : Encoded[k] \in Seq(0..255)
      BY EncodedBytes
<1>2. ASSUME NEW k \in Nat, \A j \in Nat : j < k => j \in A
      PROVE  k \in A
      <2>1. CASE k < 128
            <3>1. Encoded[k] = <<k>> /\ <<k>> \in Strings
                  BY <1>1, <2>1, EncodedBytes DEF Strings
            <3>2. Decoded[<<k>>] = k
                  BY <3>1, DecodedValue
            <3>3. Ends(<<k>>)
                  BY <2>1
            <3> QED BY <3>1, <3>2, <3>3 DEF Strings
      <2>2. CASE ~(k < 128)
            <3> DEFINE r == Encoded[k \div 128]
                       d == 128 + (k % 128)
                       s == <<d>> \o r
            <3>1. /\ k \div 128 \in Nat /\ k \div 128 < k /\ d \in 128..255
                  /\ (d % 128) + 128 * (k \div 128) = k
                  BY <2>2
            <3>2. Encoded[k] = s
                  BY <2>2, EncodedBytes
            <3>3. r # <<>> /\ Decoded[r] = k \div 128 /\ Ends(r) /\ r \in Seq(0..255)
                  BY <1>1, <1>2, <3>1
            <3>4. d \in 0..255
                  BY <3>1
            <3> HIDE DEF r, d
            <3>5. /\ Head(s) = d /\ Tail(s) = r /\ Len(s) = Len(r) + 1 /\ Len(r) \in Nat \ {0}
                  /\ s \in Seq(0..255) /\ s # <<>>
                  /\ s[1] = d /\ \A b \in 2..Len(s) : s[b] = r[b - 1]
                  BY <3>3, <3>4
            <3>6. Decoded[s] = (d % 128) + 128 * Decoded[r]
                  <4>1. s \in Strings /\ ~(Head(s) < 128) /\ Len(s) # 1
                        BY <3>1, <3>5 DEF Strings
                  <4>2. Decoded[s] = (Head(s) % 128) + 128 * Decoded[Tail(s)]
                        BY <4>1, DecodedValue
                  <4> QED BY <3>5, <4>2
            <3>7. Ends(s)
                  <4> SUFFICES ASSUME NEW b \in 1..Len(s)
                               PROVE  s[b] < 128 <=> b = Len(s)
                      OBVIOUS
                  <4>1. CASE b = 1
                        BY <3>1, <3>5, <4>1
                  <4>2. CASE b # 1
                        <5>1. b \in 2..Len(s) /\ b - 1 \in 1..Len(r)
                              BY <3>5, <4>2
                        <5>2. r[b - 1] < 128 <=> b - 1 = Len(r)
                              BY <3>3, <5>1
                        <5>3. s[b] = r[b - 1]
                              BY <3>5, <5>1
                        <5> HIDE DEF s
                        <5> QED BY <3>5, <5>1, <5>2, <5>3
                  <4> QED BY <4>1, <4>2
            <3> HIDE DEF s
            <3> QED BY <3>1, <3>2, <3>3, <3>5, <3>6, <3>7
      <2> QED BY <2>1, <2>2
<1>3. A = Nat
      <2> HIDE DEF A
      <2> QED BY <1>2, SetInduction DEF A
<1> QED BY <1>1, <1>3 DEF Varint, Strings

\* The length before a message is the message's own.
Framed(m) == m.length \in Nat /\ m.header \in {<<>>, Varint(m.length)}

\* A reader of the REST stream finds the frames: the length of each is decoded to
\* what was encoded, from exactly the bytes written for it, for frames of any
\* size.
THEOREM FramesFound == Spec => []FramesDelimited
<1> DEFINE AllFramed == \A i \in 1..Len(wire) : Framed(wire[i])
<1>1. Init => AllFramed
      BY DEF Init
<1>2. BatchInv /\ AllFramed /\ [Next]_vars => AllFramed'
      <2> SUFFICES ASSUME BatchInv, AllFramed, [Next]_vars, wire' # wire
                   PROVE  AllFramed'
          OBVIOUS
      <2>1. PICK m \in Messages :
               /\ wire' = Append(wire, m)
               /\ \/ \E length \in FrameSizes \cup {0} : m = Chunk(length)
                  \/ m = Single(start + 1)
            BY StreamGrows
      <2>2. Framed(m)
            <3>1. ASSUME NEW length \in FrameSizes \cup {0}
                  PROVE  Framed(Chunk(length))
                  <4>1. length \in Nat
                        BY SizeAssumption DEF SizeAssumption
                  <4>2. /\ Chunk(length).length = length
                        /\ Chunk(length).header = (IF call.transport = "rest" THEN Varint(length)
                                                                             ELSE <<>>)
                        BY Zenon DEF Chunk, ChunkMarked
                  <4> QED BY <4>1, <4>2 DEF Framed
            <3>2. Framed(Single(start + 1))
                  BY DEF Framed, Single
            <3> QED BY <2>1, <3>1, <3>2
      <2>3. /\ Len(wire) \in Nat /\ Len(wire') = Len(wire) + 1
            /\ \A i \in 1..Len(wire) : wire'[i] = wire[i]
            /\ wire'[Len(wire) + 1] = m
            BY <2>1, Added DEF BatchInv, Types
      <2> QED BY <2>2, <2>3
<1>3. AllFramed => FramesDelimited
      <2> SUFFICES ASSUME AllFramed, NEW i \in 1..Len(wire), wire[i].header # <<>>
                   PROVE  /\ Decoded[wire[i].header] = wire[i].length
                          /\ \A b \in 1..Len(wire[i].header) :
                                wire[i].header[b] < 128 <=> b = Len(wire[i].header)
          BY DEF FramesDelimited
      <2>1. wire[i].length \in Nat /\ wire[i].header = Varint(wire[i].length)
            BY DEF Framed
      <2> QED BY <2>1, Framing
<1> HIDE DEF AllFramed
<1> QED BY <1>1, <1>2, <1>3, BatchInvariant, PTL DEF Spec
=============================================================================
