----------------------------- MODULE Transport -----------------------------
(***************************************************************************)
(* How the bytes of a TCP stream become packets: Connection::onReceivedData *)
(* (Connection.cpp) with the buffer that keeps what a read leaves over     *)
(* (restOfTheData, lastPacketLength), and the buffers of NativeByteBuffer  *)
(* and BuffersStorage it uses.                                             *)
(*                                                                         *)
(* A byte is <<connection, frame, offset>>: where the server put it.  The  *)
(* loop of onReceivedData is one step per round, so that what a callback   *)
(* does to the connection is seen by the rounds after it.  Decryption is   *)
(* the identity on this abstraction: it works on the bytes of a read       *)
(* before they are put behind older ones.                                  *)
(***************************************************************************)
EXTENDS Integers, Sequences, SequencesExt, FiniteSetsExt

CONSTANTS
    Protocols,      \* those of "EF", "EE", "DD" that are used
    HeaderLength,   \* bytes of an acknowledgement and of a long header, of which
                    \* a length is a multiple, but with DD: 4
    LongFrom,       \* lengths from here on have a long header with EF: 0x7f * 4
    MaxPacket,      \* longest packet that is accepted: 2 MB
    LeftoverSize,   \* size asked for to keep a piece of a header: 16384
    Capacities,     \* capacities of the buffers that are kept for reuse
    PacketLengths,  \* bound: lengths the server uses
    MaxFrames,      \* bound: frames on the first connection
    MaxFramesAfter, \* bound: frames on a later connection
    MaxRead         \* bytes a recv returns at most: READ_BUFFER_SIZE

ASSUME SizesAssumption ==
    /\ Protocols \subseteq {"EF", "EE", "DD"}
    /\ {HeaderLength, LongFrom, MaxRead, LeftoverSize} \subseteq Nat \ {0}
    /\ {MaxPacket, MaxFrames, MaxFramesAfter} \subseteq Nat
    /\ PacketLengths \subseteq Nat /\ Capacities \subseteq Nat
    /\ HeaderLength <= LeftoverSize

VARIABLES
    proto,    \* currentProtocolType
    conn,     \* the connection: connections are numbered 1, 2, 1, 2 ...
    stream,   \* the frames the server sends on it
    open,     \* its socket is open
    got,      \* bytes of it that were read
    rest,     \* restOfTheData: the bytes up to its position, and its capacity
    last,     \* lastPacketLength
    loop,     \* the loop of onReceivedData, when it runs
    log,      \* frames of the connection handed on, 0 for what is not one
    spoilt,   \* history: why the bytes of this connection are no longer in order
    held      \* buffers taken from BuffersStorage and not given back

vars == <<proto, conn, stream, open, got, rest, last, loop, log, spoilt, held>>

----------------------------------------------------------------------------
(* The server's frames: acknowledgements and packets.  A packet whose length
   is refused is cut off behind its header. *)
Ack == [kind |-> "ack", len |-> 0]
Packet(n) == [kind |-> "packet", len |-> n]

Frames == {Ack} \cup {Packet(n) : n \in
              IF proto = "EF" THEN {l \in PacketLengths : l % HeaderLength = 0} ELSE PacketLengths}

Refused(len) == (proto # "DD" /\ len % HeaderLength # 0) \/ len > MaxPacket

Header(f) ==
    IF proto = "EF" /\ f.kind = "packet" /\ f.len < LongFrom THEN 1 ELSE HeaderLength

Body(f) == IF Refused(f.len) THEN 0 ELSE f.len
Size(f) == Header(f) + Body(f)

FrameBytes(i) == [o \in 1 .. Size(stream[i]) |-> <<conn, i, o>>]

StreamBytes ==
    FlattenSeq([i \in 1 .. Len(stream) |-> FrameBytes(i)])

----------------------------------------------------------------------------
(* BuffersStorage and NativeByteBuffer.  Between two calls the position of
   restOfTheData is behind its last byte, so its bytes are a sequence. *)
none == [bytes |-> <<>>, cap |-> 0]

Capacity(size) ==
    LET fitting == {c \in Capacities : c >= size}
    IN  IF fitting = {} THEN size ELSE Min(fitting)

(* The bytes of a buffer of that size into which source is copied.  When the
   source was given back to the storage, getFreeBuffer may return the source
   itself: it then holds whatever it held, and is full. *)
Junk == <<0, 0, 0>>

getFreeBuffer(size, source, sourceFreed) ==
    {[bytes |-> source, cap |-> Capacity(size)]}
    \cup IF sourceFreed THEN {[bytes |-> [i \in 1 .. size |-> Junk], cap |-> Capacity(size)]}
         ELSE {}

(* The buffer the loop reads: the network buffer ("net"), restOfTheData, or
   what was restOfTheData before a callback gave it back ("freed"). *)
idle == [in |-> "nothing", bytes |-> <<>>, pos |-> 0, later |-> <<>>]

Buffer == IF loop.in = "rest" THEN rest.bytes ELSE loop.bytes
Remaining == Len(Buffer) - loop.pos
Unread == SubSeq(Buffer, loop.pos + 1, Len(Buffer))

----------------------------------------------------------------------------
Init ==
    /\ proto \in Protocols
    /\ conn = 1
    /\ stream \in BoundedSeq(Frames, MaxFrames)
    /\ open = TRUE
    /\ got = 0
    /\ rest = none /\ last = 0
    /\ loop = idle
    /\ log = <<>>
    /\ spoilt = "no"
    /\ held = 0

(* restOfTheData = nullptr, after it was given back. *)
FreeRest ==
    /\ rest' = none
    /\ held' = held - (IF rest = none THEN 0 ELSE 1)

(* onDisconnected, reached by suspendConnection and by a closed socket. *)
Dropped ==
    /\ open' = FALSE
    /\ FreeRest
    /\ last' = 0

(* connect: the next connection and what the server will send on it. *)
NextConnection ==
    /\ conn' = 3 - conn
    /\ stream' \in BoundedSeq(Frames, MaxFramesAfter)
    /\ open' = TRUE
    /\ got' = 0
    /\ log' = <<>>
    /\ FreeRest
    /\ last' = 0

(* The socket closes; what the server sent on it does not matter any more. *)
Close ==
    /\ open
    /\ loop = idle
    /\ Dropped
    /\ stream' = <<>> /\ got' = 0 /\ log' = <<>>
    /\ UNCHANGED <<proto, conn, loop, spoilt>>

Connect ==
    /\ ~open
    /\ loop = idle
    /\ NextConnection
    /\ spoilt' = "no"
    /\ UNCHANGED <<proto, loop>>

----------------------------------------------------------------------------
(* onReceivedData up to its loop: the bytes of a read go behind what is left
   over, or complete the packet that is left over. *)
StartLoop(in, bytes, later) ==
    loop' = [in |-> in, bytes |-> bytes, pos |-> 0, later |-> later]

(* Varies Missing: the part of the packet that is there is not counted. *)
MissingWhole == last

Missing == last - Len(rest.bytes)

Joined(chunk) ==
    CASE rest = none ->
             /\ StartLoop("net", chunk, <<>>)
             /\ UNCHANGED rest
      [] rest # none /\ last = 0 ->
             /\ rest' = [bytes |-> rest.bytes \o chunk,
                         cap |-> IF rest.cap - Len(rest.bytes) >= Len(chunk) THEN rest.cap
                                 ELSE Capacity(Len(rest.bytes) + Len(chunk))]
             /\ StartLoop("rest", <<>>, <<>>)
      [] OTHER ->
             LET taken == Min({Missing, Len(chunk)})
                 joined == rest.bytes \o SubSeq(chunk, 1, taken)
             IN  /\ rest' = [rest EXCEPT !.bytes = joined]
                 /\ IF Len(joined) = last
                    THEN StartLoop("rest", <<>>, SubSeq(chunk, taken + 1, Len(chunk)))
                    ELSE UNCHANGED loop

Receive ==
    /\ open
    /\ loop = idle
    /\ \E n \in 1 .. Min({MaxRead, Len(StreamBytes) - got}) :
           /\ Joined(SubSeq(StreamBytes, got + 1, got + n))
           /\ got' = got + n
    /\ UNCHANGED <<proto, conn, stream, open, last, log, spoilt, held>>

----------------------------------------------------------------------------
(* One round of the loop. *)

(* The frame whose header the round reads.  Bytes that are not the start of
   a frame say anything. *)
Starts(f) == \A o \in 1 .. Min({Header(f), Remaining}) :
                 /\ Buffer[loop.pos + o][3] = o
                 /\ \A i \in 1 .. 2 : Buffer[loop.pos + o][i] = Buffer[loop.pos + 1][i]

HeaderRead ==
    LET at == Buffer[loop.pos + 1]
    IN  IF at[1] = conn /\ at[3] = 1 /\ Starts(stream[at[2]]) THEN {stream[at[2]]} ELSE Frames

(* What is handed on is the frame of the current connection it is, or 0; on
   a connection that met the bytes of another it is not recorded. *)
Meaning(bytes) ==
    LET at == IF bytes = <<>> THEN Junk ELSE bytes[1]
    IN  IF at[1] = conn /\ bytes = FrameBytes(at[2]) THEN at[2] ELSE 0

Handed(f) ==
    IF spoilt # "no" THEN log ELSE Append(log, Meaning(SubSeq(Unread, 1, Size(f))))

(* A piece of a header is kept in a new buffer. *)
Keep ==
    /\ rest' \in getFreeBuffer(LeftoverSize, Unread, loop.in = "freed")
    /\ held' = held + (IF rest = none THEN 1 ELSE 0)
    /\ last' = 0

(* restOfTheData already is that piece, or the piece is copied. *)
KeepHeader ==
    IF rest # none /\ loop.in = "rest" /\ loop.pos = 0
    THEN UNCHANGED <<rest, last, held>>
    ELSE Keep

(* Varies KeepPacket: a buffer that is too small is not given back. *)
KeepPacketLeaking(f) ==
    /\ IF rest = none \/ rest.cap < Size(f)
       THEN /\ rest' \in getFreeBuffer(Size(f), Unread, loop.in = "freed")
            /\ held' = held + 1
       ELSE /\ rest' = [rest EXCEPT !.bytes = SubSeq(@, 1, Min({Len(@), Size(f)}))]
            /\ UNCHANGED held
    /\ last' = Size(f)
    /\ UNCHANGED spoilt

(* A packet that is not there as a whole.  restOfTheData is taken to begin
   with it when it is large enough, although an acknowledgement that was read
   from it is still in front; its limit becomes the packet's length. *)
KeepPacket(f) ==
    /\ IF rest = none \/ rest.cap < Size(f)
       THEN /\ rest' \in getFreeBuffer(Size(f), Unread, loop.in = "freed")
            /\ held' = held + (IF rest = none THEN 1 ELSE 0)
            /\ UNCHANGED spoilt
       ELSE /\ rest' = [rest EXCEPT !.bytes = SubSeq(@, 1, Min({Len(@), Size(f)}))]
            /\ spoilt' = IF loop.pos > 0 /\ spoilt = "no" THEN "ack" ELSE spoilt
            /\ UNCHANGED held
    /\ last' = Size(f)

Return ==
    /\ loop' = idle
    /\ UNCHANGED <<proto, conn, stream, open, got, log>>

(* Varies HandAck: the position goes back to the mark. *)
HandAckAtMark(f) == UNCHANGED vars

(* An acknowledgement; the bytes before the position stay in the buffer. *)
HandAck(f) ==
    /\ log' = Handed(f)
    /\ loop' = [loop EXCEPT !.pos = @ + HeaderLength]
    /\ UNCHANGED <<proto, conn, stream, open, got, rest, last, spoilt, held>>

(* Varies GoOn: what followed the packet is not looked at. *)
GoOnWithoutLater(in, bytes, pos) ==
    loop' = [loop EXCEPT !.in = in, !.bytes = bytes, !.pos = pos, !.later = <<>>]

(* The loop goes on in the same buffer behind the packet, or in what followed
   the packet that restOfTheData held. *)
GoOn(in, bytes, pos) ==
    loop' = IF loop.later # <<>>
            THEN [in |-> "net", bytes |-> loop.later, pos |-> 0, later |-> <<>>]
            ELSE [loop EXCEPT !.in = in, !.bytes = bytes, !.pos = pos]

(* Behind a packet: restOfTheData is given back when it was read to its end,
   else moved to its start.  The buffer that is read is restOfTheData itself,
   whose position the code asks for, as long as no byte is spoilt. *)
AfterPacket(end) ==
    IF rest = none
    THEN /\ GoOn(loop.in, loop.bytes, end)
         /\ UNCHANGED <<rest, last, held>>
    ELSE IF (last # 0 /\ end = last) \/ (last = 0 /\ end = Len(rest.bytes))
         THEN /\ FreeRest
              /\ GoOn("net", <<>>, 0)
              /\ UNCHANGED last
         ELSE /\ rest' = [rest EXCEPT !.bytes = SubSeq(@, end + 1, Len(@))]
              /\ GoOn("rest", <<>>, 0)
              /\ UNCHANGED <<last, held>>

(* The loop after a callback that gave restOfTheData back; after a reconnect
   the bytes of the connection before are not told apart any more. *)
GoOnAfterDrop(end) ==
    GoOn(IF loop.in = "rest" THEN "freed" ELSE loop.in, Buffer, end)

Anonymous(bytes) == [i \in DOMAIN bytes |-> Junk]

GoOnAfterReconnect(end) ==
    LET left == IF loop.later # <<>> THEN loop.later ELSE SubSeq(Buffer, end + 1, Len(Buffer))
        in == IF loop.later # <<>> THEN "net"
              ELSE IF loop.in = "rest" THEN "freed" ELSE loop.in
    IN  /\ loop' = [in |-> in, bytes |-> Anonymous(left), pos |-> 0, later |-> <<>>]
        /\ spoilt' = IF left = <<>> THEN "no" ELSE "callback"

HandPacket(f) ==
    LET end == loop.pos + Size(f)
    IN  \/ /\ AfterPacket(end)
           /\ log' = Handed(f)
           /\ UNCHANGED <<proto, conn, stream, open, got, spoilt>>
        \/ (* The callback suspends the connection. *)
           /\ open
           /\ Dropped
           /\ GoOnAfterDrop(end)
           /\ log' = Handed(f)
           /\ UNCHANGED <<proto, conn, stream, got, spoilt>>
        \/ (* The callback reconnects. *)
           /\ NextConnection
           /\ GoOnAfterReconnect(end)
           /\ UNCHANGED proto

(* A length that is refused: reconnect, and the rest of the read is left. *)
RefusePacket ==
    /\ loop' = idle
    /\ UNCHANGED proto
    /\ \/ Dropped /\ UNCHANGED <<conn, stream, got, log, spoilt>>
       \/ NextConnection /\ spoilt' = "no"

TooShort(f) ==
    /\ Remaining < HeaderLength
    /\ proto # "EF" \/ f.kind = "ack" \/ f.len >= LongFrom

Round ==
    /\ loop # idle
    /\ Remaining > 0
    /\ \E f \in HeaderRead :
           \/ /\ TooShort(f)
              /\ IF proto = "EF" /\ f.kind = "ack" THEN Keep ELSE KeepHeader
              /\ Return
              /\ UNCHANGED spoilt
           \/ /\ ~TooShort(f)
              /\ \/ f.kind = "ack" /\ HandAck(f)
                 \/ f.kind = "packet" /\ Refused(f.len) /\ RefusePacket
                 \/ f.kind = "packet" /\ ~Refused(f.len)
                    /\ \/ Size(f) <= Remaining /\ HandPacket(f)
                       \/ Size(f) > Remaining /\ KeepPacket(f) /\ Return

LoopEnd ==
    /\ loop # idle
    /\ Remaining <= 0
    /\ Return
    /\ UNCHANGED <<rest, last, held, spoilt>>

----------------------------------------------------------------------------
Next == Close \/ Connect \/ Receive \/ Round \/ LoopEnd

(* The loop of a call is run by the network thread until it returns, and
   epoll reports a socket that can be read. *)
Spec == Init /\ [][Next]_vars /\ WF_vars(Round \/ LoopEnd) /\ WF_vars(Receive)

----------------------------------------------------------------------------
(* Types of the buffers, the loop and what was handed on. *)
Bytes == {Junk} \cup (1 .. 2) \X (1 .. MaxFrames) \X Nat

TypeOK ==
    /\ proto \in Protocols
    /\ open \in BOOLEAN /\ spoilt \in {"no", "ack", "callback"}
    /\ got \in Nat /\ last \in Nat /\ held \in Int
    /\ rest.cap \in Nat /\ rest.bytes \in Seq(Bytes) /\ Len(rest.bytes) <= rest.cap
    /\ loop.in \in {"nothing", "net", "rest", "freed"}
    /\ loop.pos \in Nat /\ loop.bytes \in Seq(Bytes) /\ loop.later \in Seq(Bytes)
    /\ log \in Seq(0 .. MaxFrames)
    /\ conn \in 1 .. 2 /\ stream \in Seq(Frames)

(* The frames that are complete in the first n bytes of the connection. *)
Complete(n) ==
    {i \in 1 .. Len(stream) :
        FoldLeft(LAMBDA sum, f : sum + Size(f), 0, SubSeq(stream, 1, i)) <= n}

IsPacket(i) == i = 0 \/ stream[i].kind = "packet"

(* However the reads cut the stream, after each of them the packets that are
   complete were handed on, byte for byte, each once and in their order, and
   so were the acknowledgements that are complete (onReceivedData,
   Connection.cpp:83-277).  Two cases are not in order: a packet that is cut
   behind an acknowledgement that was itself cut, and a callback that
   reconnects while bytes of the old connection are in the loop. *)
Reassembled ==
    open /\ loop = idle /\ spoilt = "no" =>
        /\ SelectSeq(log, IsPacket) = SetToSortSeq({i \in Complete(got) : IsPacket(i)}, <)
        /\ Range(log) = Complete(got)

(* Every buffer that was taken from BuffersStorage is restOfTheData or was
   given back, once (reuseLater and the frees of onReceivedData, connect and
   onDisconnected). *)
BuffersBalance == held = IF rest = none THEN 0 ELSE 1

(* What is kept for the next read is of this connection, also after a
   connection that a callback suspended while the loop had bytes left, or on
   which bytes got lost (Connection.cpp:352, :653). *)
LeftoverIsOwn ==
    open /\ spoilt # "callback" =>
        \A i \in DOMAIN rest.bytes : rest.bytes[i][1] = conn

(* The buffers of onReceivedData are in order: no byte is written behind the
   end of one, none is leaked or given back twice, and none carries bytes into
   the next connection. *)
BuffersSound == TypeOK /\ BuffersBalance /\ LeftoverIsOwn

(* Every call of onReceivedData returns, whatever the bytes say: each round of
   its loop moves on in the buffer or leaves it (Connection.cpp:126). *)
LoopReturns == loop # idle ~> loop = idle

(* All that the server sends is handed on in the end, unless the connection
   ends or its bytes are no longer in order. *)
StreamHandedOn ==
    \A c \in 1 .. 2 :
        open /\ conn = c ~> \/ ~open \/ conn # c \/ spoilt # "no"
                           \/ Range(log) = DOMAIN stream
=============================================================================
