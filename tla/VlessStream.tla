---------------------------- MODULE VlessStream ----------------------------
(***************************************************************************)
(* The byte stream of one VLESS connection: what the application writes to *)
(* and reads from the stack of layers that connect_with_options builds     *)
(* (vless.rs), over a socket that delivers bytes a few at a time.          *)
(*                                                                         *)
(*    "tcp"     ResponseStream over TCP or ordinary TLS                    *)
(*    "ws"      ResponseStream over WsStream       (websocket.rs)          *)
(*    "raw"     the same with V2Ray HTTP Upgrade   (websocket.rs)          *)
(*    "grpc"    ResponseStream over GrpcStream     (grpc.rs)               *)
(*    "vision"  VisionStream over ResponseStream over RecordStream over    *)
(*              BoringSSL over RecordBoundedStream (vision.rs, record.rs)  *)
(*                                                                         *)
(* A cell stands for the bytes that the code treats as one unit: a header, *)
(* a piece of payload, a piece of padding.  A step is one turn of a loop   *)
(* inside poll_read or poll_write; every layer keeps its progress in its   *)
(* own fields, so a poll that returns Pending resumes at the same step.    *)
(* The task is polled again only after something wakes it (asleep).        *)
(***************************************************************************)
EXTENDS Integers, Sequences

CONSTANTS
    Links,      \* the connections to look at: [kind, wire, up, fast]
    Buffer,     \* cells of the application's read buffer
    Budget      \* cells InnerTls looks at (65536 bytes in the code)

VARIABLES
    link,       \* the connection: its stack, all that its peer sends, all it uploads
    arrived,    \* how much of link.wire has reached the socket
    at,         \* how much of it the stream has taken from the socket
    peer,       \* "open", or "closed" its sending side, or "reset" the connection
    asleep,     \* the last poll returned Pending and nothing has woken the task
    upgraded,   \* WsStream.upgraded
    incoming,   \* WsStream/GrpcStream.incoming; the ciphertext BoringSSL holds
    payload,    \* the rest of their payload; the plaintext BoringSSL holds
    closed,     \* WsStream/GrpcStream.closed
    bio,        \* RecordBoundedStream: header_filled, record_remaining, yield_after_record
    readDirect, \* RecordStream.read_direct
    response,   \* ResponseStream: header_read, header[0], discard
    unpad,      \* the reading half of VisionStream
    delivered,  \* what the application has read
    outcome,    \* "open", or how reading has ended: "eof" or "error"
    accepted,   \* how many cells of link.up poll_write has accepted
    pending,    \* VisionStream.pending[written..], WsStream.outgoing[outgoing_at..]
    pad,        \* the writing half of VisionStream: first, plain, switch
    writeDirect,\* RecordStream.write_direct
    sniff,      \* InnerTls
    sent        \* what has been written to the socket, with or without the outer TLS

socketVars == <<link, arrived, peer>>
transportVars == <<at, upgraded, incoming, payload, closed, bio, readDirect>>
readVars == <<asleep, response, unpad, delivered, outcome>>
writeVars == <<accepted, pending, pad, writeDirect, sent>>
vars == <<socketVars, transportVars, readVars, writeVars, sniff>>

-----------------------------------------------------------------------------
(* Cells.  v is a value, command, opcode or version; n a length or, for    *)
(* data, its class; p a length of padding.                                 *)
Cell(k, v, n, p) == [k |-> k, v |-> v, n |-> n, p |-> p]
HelloStart == 2     \* data: the first piece of a ServerHello
Hello12 == 12       \* data: its last piece, TLS 1.2 ...
Hello13 == 13       \* ... or TLS 1.3 with one of its cipher suites
ClientHello == 1    \* data: a ClientHello
AppData == 23       \* data: a TLS application data record
HEADER == 2         \* cells of a TLS record header

IsData(c) == c.k = "data"
Says(cells) ==
    LET kept[i \in 0..Len(cells)] ==
            IF i = 0 THEN <<>>
            ELSE IF IsData(cells[i]) THEN Append(kept[i - 1], cells[i]) ELSE kept[i - 1]
    IN  kept[Len(cells)]
Smaller(a, b) == IF a <= b THEN a ELSE b
First(s, n) == SubSeq(s, 1, Smaller(n, Len(s)))
After(s, n) == SubSeq(s, n + 1, Len(s))

\* what the application writes is payload
Payload == [k : {"data"}, v : Nat, n : Nat, p : Nat]
ASSUME LinksAssumption == \A l \in Links : l.up \in Seq(Payload)

Kind == link.kind
Vision == Kind = "vision"
Drained == at = arrived
\* What one read of the socket yields.
Socket(limit) == SubSeq(link.wire, at + 1, Smaller(at + limit, arrived))
Everything == Len(link.wire)

Init ==
    /\ link \in Links
    /\ arrived = 0 /\ at = 0 /\ peer = "open" /\ asleep = FALSE
    /\ upgraded = (Kind \notin {"ws", "raw"})
    /\ incoming = <<>> /\ payload = <<>> /\ closed = FALSE
    /\ bio = [filled |-> 0, remaining |-> 0, yield |-> FALSE]
    /\ readDirect = FALSE
    /\ response = [read |-> 0, version |-> 0, discard |-> 0]
    /\ unpad = [first |-> TRUE, header |-> <<>>, content |-> 0, padding |-> 0,
                command |-> 0, plain |-> FALSE]
    /\ delivered = <<>> /\ outcome = "open"
    /\ accepted = 0 /\ pending = <<>>
    /\ pad = [first |-> TRUE, plain |-> FALSE, switch |-> FALSE]
    /\ writeDirect = FALSE
    /\ sniff = [client |-> <<>>, server |-> <<>>, tls |-> FALSE, tls13 |-> FALSE,
                remaining |-> Budget]
    /\ sent = <<>>

-----------------------------------------------------------------------------
(* InnerTls::observe: both directions of a Vision stream feed it.          *)
Looks == sniff.remaining # 0 /\ ~sniff.tls13
Left(cells) == IF sniff.remaining > Len(cells) THEN sniff.remaining - Len(cells) ELSE 0
Classes(cells) == [i \in DOMAIN cells |-> cells[i].n]

\* TlsHello::observe and server_hello: the first two pieces decide.
ObserveServer(cells) ==
    LET seen == First(sniff.server \o Classes(cells), 2)
        hello == Len(seen) = 2 /\ seen[1] = HelloStart /\ seen[2] \in {Hello12, Hello13}
    IN  IF Looks
        THEN [sniff EXCEPT !.server = seen, !.remaining = Left(cells),
                           !.tls = @ \/ hello, !.tls13 = hello /\ seen[2] = Hello13]
        ELSE sniff

\* The first eight bytes, which a cell always has, decide.
ObserveClient(cells) ==
    LET seen == First(sniff.client \o Classes(cells), 1)
    IN  IF Looks
        THEN [sniff EXCEPT !.client = seen, !.remaining = Left(cells),
                           !.tls = @ \/ (seen # <<>> /\ seen[1] = ClientHello)]
        ELSE sniff

-----------------------------------------------------------------------------
(* Who reads from the transport next, and how much it asks for.            *)
\* The cells of a header, the first time with the identity.
Need == IF unpad.first THEN 2 ELSE 1

Reader ==
    CASE response.read < 2                     -> "version"
      [] response.read = 2 /\ response.discard > 0 -> "addon"
      [] ~Vision \/ unpad.plain                -> "app"
      [] unpad.content > 0                     -> "content"
      [] unpad.padding > 0                     -> "padding"
      [] unpad.command # 0                     -> "switch"
      [] OTHER                                 -> "frame"

\* The unframed downlink's first cells, put back by the header parser.
PutBack == unpad.plain /\ unpad.header # <<>>

Limit ==
    CASE Reader = "version" -> 2 - response.read
      [] Reader = "addon"   -> response.discard
      [] Reader = "content" -> Smaller(Buffer, unpad.content)
      [] Reader = "padding" -> unpad.padding
      [] Reader = "frame"   -> Need - Len(unpad.header)
      [] OTHER              -> Buffer

\* Mutant: an end between two frames is an error too.
EndOfStrict(reader) == IF reader = "app" THEN "eof" ELSE "error"
\* A read of no bytes from the transport, as the layers above report it.
EndOf(reader) ==
    IF reader = "app" \/ (reader = "frame" /\ unpad.header = <<>>) THEN "eof" ELSE "error"

Polled == outcome = "open" /\ ~asleep

\* What a read of the application leaves of the cells that were put back.
\* Mutant: all of them are taken for delivered.
KeptNone(header) == <<>>
Kept(header) == After(header, Buffer)

\* The header is complete: a frame, or a downlink that is not framed at all.
Parse(header) ==
    LET h == header[Len(header)]
    IN  IF unpad.first /\ header[1].k # "id"
        THEN /\ delivered' = delivered \o First(header, Buffer)
             /\ unpad' = [unpad EXCEPT !.first = FALSE, !.plain = TRUE,
                                       !.header = Kept(header)]
             /\ UNCHANGED outcome
        ELSE /\ unpad' = [unpad EXCEPT !.first = FALSE, !.header = <<>>, !.command = h.v,
                                       !.content = h.n, !.padding = h.p]
             /\ outcome' = IF h.v > 2 THEN "error" ELSE outcome
             /\ UNCHANGED delivered

\* The cells go to the layer that has asked for them.
Hand(cells) ==
    LET n == Len(cells)
    IN  CASE Reader = "version" ->
                LET seen == response.read + n
                    version == IF response.read = 0 THEN Head(cells).v ELSE response.version
                IN  /\ response' = [read |-> seen, version |-> version,
                                    discard |-> IF seen = 2 THEN cells[Len(cells)].n ELSE 0]
                    /\ outcome' = IF seen = 2 /\ version # 0 THEN "error" ELSE outcome
                    /\ UNCHANGED <<unpad, delivered, sniff>>
          [] Reader = "addon" ->
                /\ response' = [response EXCEPT !.discard = @ - n]
                /\ UNCHANGED <<unpad, delivered, outcome, sniff>>
          [] Reader = "content" ->
                /\ delivered' = delivered \o cells
                /\ unpad' = [unpad EXCEPT !.content = @ - n]
                /\ sniff' = ObserveServer(cells)
                /\ UNCHANGED <<response, outcome>>
          [] Reader = "padding" ->
                /\ unpad' = [unpad EXCEPT !.padding = @ - n]
                /\ UNCHANGED <<response, delivered, outcome, sniff>>
          [] Reader = "frame" ->
                /\ IF Len(unpad.header) + n < Need
                   THEN /\ unpad' = [unpad EXCEPT !.header = @ \o cells]
                        /\ UNCHANGED <<delivered, outcome>>
                   ELSE Parse(unpad.header \o cells)
                /\ UNCHANGED <<response, sniff>>
          [] OTHER ->
                /\ delivered' = delivered \o cells
                /\ UNCHANGED <<response, unpad, outcome, sniff>>

\* RecordStream, WsStream and plain streams that pass the socket through.
Direct == \/ Kind = "tcp"
          \/ Vision /\ readDirect
          \/ Kind = "raw" /\ upgraded /\ incoming = <<>>

Buffered == IF Kind = "raw" THEN incoming ELSE payload

(***************************************************************************)
(* Steps of poll_read.                                                     *)
(***************************************************************************)
\* The transport has cells for the layer above.
TakeBuffered ==
    /\ Polled /\ upgraded /\ ~Direct /\ ~PutBack /\ Reader # "switch"
    /\ Buffered # <<>>
    /\ Hand(First(Buffered, Limit))
    /\ IF Kind = "raw" THEN incoming' = After(incoming, Limit) /\ UNCHANGED payload
                       ELSE payload' = After(payload, Limit) /\ UNCHANGED incoming
    /\ UNCHANGED <<socketVars, writeVars, at, upgraded, closed, bio, readDirect, asleep>>

\* ... or passes on what the socket has.
TakeDirect ==
    /\ Polled /\ Direct /\ ~PutBack /\ Reader # "switch"
    /\ ~Drained
    /\ Hand(Socket(Limit))
    /\ at' = at + Len(Socket(Limit))
    /\ bio' = [bio EXCEPT !.yield = FALSE]
    /\ UNCHANGED <<socketVars, writeVars, upgraded, incoming, payload, closed, readDirect, asleep>>

\* The socket has nothing: the end, or a poll that returns Pending.
Idle(reader) ==
    /\ asleep' = (peer = "open")
    /\ outcome' = [open |-> outcome, closed |-> EndOf(reader), reset |-> "error"][peer]

TakeNothing ==
    /\ Polled /\ Direct /\ ~PutBack /\ Reader # "switch"
    /\ Drained
    /\ Idle(Reader)
    /\ UNCHANGED <<socketVars, transportVars, writeVars, sniff, response, unpad, delivered>>

\* The cells of an unframed downlink that the header parser had taken.
TakePutBack ==
    /\ Polled /\ PutBack
    /\ delivered' = delivered \o First(unpad.header, Buffer)
    /\ unpad' = [unpad EXCEPT !.header = Kept(@)]
    /\ UNCHANGED <<socketVars, transportVars, writeVars, sniff, asleep, response, outcome>>

\* A frame with command 1 or 2 has been read to its end.
EndFraming ==
    /\ Polled /\ Reader = "switch"
    /\ readDirect' = (readDirect \/ unpad.command = 2)
    /\ unpad' = [unpad EXCEPT !.plain = TRUE]
    /\ UNCHANGED <<socketVars, writeVars, sniff, asleep, response, delivered, outcome,
                   at, upgraded, incoming, payload, closed, bio>>

(***************************************************************************)
(* BoringSSL over RecordBoundedStream.  BoringSSL (external) asks for as   *)
(* much as it can hold; it opens a record once it has all of it.           *)
(***************************************************************************)
Sealed == Vision /\ ~readDirect /\ payload = <<>> /\ ~PutBack /\ Reader # "switch"

\* the rest of the record the BIO is in, so that nothing is read ahead of it
BioLimit == IF bio.filled < HEADER THEN HEADER - bio.filled ELSE bio.remaining

BioTakes(cells) ==
    LET header == bio.filled < HEADER
        filled == IF header THEN bio.filled + Len(cells) ELSE bio.filled
        left == IF ~header THEN bio.remaining - Len(cells)
                ELSE IF filled = HEADER THEN cells[Len(cells)].n ELSE 0
        complete == filled = HEADER /\ left = 0
    IN  [filled |-> IF complete THEN 0 ELSE filled, remaining |-> left, yield |-> complete]

\* SSL_read on the ciphertext read so far.
Opens(cells) ==
    LET header == Len(cells) >= HEADER
        whole == header /\ Len(cells) >= HEADER + cells[HEADER].n
        end == HEADER + cells[HEADER].n
    IN  /\ payload' = IF whole THEN SubSeq(cells, HEADER + 1, end) ELSE <<>>
        /\ incoming' = IF whole THEN After(cells, end) ELSE cells
        /\ outcome' = IF header /\ cells[1].k # "rec" THEN "error" ELSE outcome

SslReads ==
    /\ Polled /\ Sealed /\ ~bio.yield /\ ~Drained
    /\ Opens(incoming \o Socket(BioLimit))
    /\ bio' = BioTakes(Socket(BioLimit))
    /\ at' = at + Len(Socket(BioLimit))
    /\ UNCHANGED <<socketVars, writeVars, sniff, upgraded, closed, readDirect, asleep,
                   response, unpad, delivered>>

\* Mutant: without the call of wake_by_ref.
SleepsOn == asleep' = TRUE
\* After a whole record the BIO reports WouldBlock once, and wakes the task.
WakesItself == asleep' = FALSE

SslYields ==
    /\ Polled /\ Sealed /\ bio.yield
    /\ bio' = [bio EXCEPT !.yield = FALSE]
    /\ WakesItself
    /\ UNCHANGED <<socketVars, writeVars, sniff, at, upgraded, incoming, payload, closed,
                   readDirect, response, unpad, delivered, outcome>>

SslIdles ==
    /\ Polled /\ Sealed /\ ~bio.yield /\ Drained
    /\ Idle(Reader)
    /\ UNCHANGED <<socketVars, transportVars, writeVars, sniff, response, unpad, delivered>>

(***************************************************************************)
(* WsStream.                                                               *)
(***************************************************************************)
\* read_upgrade, or the part of poll_read that replaces it for fast open.
Upgrade ==
    LET cells == incoming \o Socket(Everything)
        ends == {i \in DOMAIN cells : cells[i].k = "up"}
    IN  /\ Polled /\ ~upgraded
        /\ IF Drained
           THEN /\ Idle("version")
                /\ UNCHANGED <<incoming, upgraded, at>>
           ELSE /\ at' = arrived
                /\ upgraded' = (ends # {})
                /\ incoming' = IF ends = {} THEN cells ELSE After(cells, CHOOSE i \in ends : TRUE)
                /\ outcome' = IF \E i \in ends : cells[i].v # 101 THEN "error" ELSE outcome
                /\ UNCHANGED asleep
        /\ UNCHANGED <<socketVars, writeVars, sniff, payload, closed, bio, readDirect,
                       response, unpad, delivered>>

Whole(cells) == cells # <<>> /\ Len(cells) >= 1 + Head(cells).n
Body(cells) == SubSeq(cells, 2, 1 + Head(cells).n)
Rest(cells) == After(cells, 1 + Head(cells).n)
Pong == Cell("ws", 10, 0, 0)

WsReads == Polled /\ Kind = "ws" /\ upgraded /\ payload = <<>>

WsClosed ==
    /\ WsReads /\ closed
    /\ outcome' = EndOf(Reader)
    /\ UNCHANGED <<socketVars, transportVars, writeVars, sniff, asleep, response, unpad, delivered>>

CarriesData(cells) == Whole(cells) /\ Head(cells).v \in {0, 2} /\ Head(cells).n > 0

\* parse_frame finds payload.
WsPayload ==
    /\ WsReads /\ ~closed /\ CarriesData(incoming)
    /\ payload' = Body(incoming)
    /\ incoming' = Rest(incoming)
    /\ UNCHANGED <<socketVars, readVars, writeVars, sniff, at, upgraded, closed, bio, readDirect>>

\* parse_frame finds a control frame, an empty frame or no whole frame, and
\* the loop reads the socket whatever is left in incoming.
WsSocket ==
    LET whole == Whole(incoming)
        opcode == IF whole THEN Head(incoming).v ELSE 0
        left == IF whole THEN Rest(incoming) ELSE incoming
    IN  /\ WsReads /\ ~closed /\ ~CarriesData(incoming)
        /\ closed' = (opcode = 8)
        /\ pending' = IF opcode = 9 THEN Append(pending, Pong) ELSE pending
        /\ IF opcode \notin {0, 2, 8, 9, 10}
           THEN outcome' = "error" /\ UNCHANGED <<at, incoming, asleep>>
           ELSE IF Drained
           THEN Idle(Reader) /\ incoming' = left /\ UNCHANGED at
           ELSE at' = arrived /\ incoming' = left \o Socket(Everything) /\ UNCHANGED <<outcome, asleep>>
        /\ UNCHANGED <<socketVars, sniff, upgraded, payload, bio, readDirect, response, unpad,
                       delivered, accepted, pad, writeDirect, sent>>

(***************************************************************************)
(* GrpcStream.                                                             *)
(***************************************************************************)
GrpcReads == Polled /\ Kind = "grpc" /\ payload = <<>>
\* parse: a message that is compressed or not Gun's fails the stream.
Malformed(cells) == cells # <<>> /\ (Head(cells).k # "msg" \/ Head(cells).v # 0)

GrpcParse ==
    /\ GrpcReads /\ incoming # <<>>
    /\ IF Malformed(incoming)
       THEN outcome' = "error" /\ UNCHANGED <<payload, incoming>>
       ELSE /\ Whole(incoming)
            /\ payload' = Body(incoming)
            /\ incoming' = Rest(incoming)
            /\ UNCHANGED outcome
    /\ UNCHANGED <<socketVars, writeVars, sniff, at, upgraded, closed, bio, readDirect,
                   asleep, response, unpad, delivered>>

\* The response's status first, then its body, then its end.
GrpcSocket ==
    /\ GrpcReads /\ ~Malformed(incoming) /\ ~Whole(incoming)
    /\ IF closed
       THEN outcome' = EndOf(Reader) /\ UNCHANGED <<at, incoming, closed, asleep>>
       ELSE IF Drained
       THEN /\ closed' = (peer = "closed")
            /\ asleep' = (peer = "open")
            /\ outcome' = IF peer = "reset" \/ (peer = "closed" /\ at = 0) THEN "error" ELSE outcome
            /\ UNCHANGED <<at, incoming>>
       ELSE IF at = 0
       THEN /\ at' = 1
            /\ outcome' = IF Head(link.wire).v # 200 THEN "error" ELSE outcome
            /\ UNCHANGED <<incoming, closed, asleep>>
       ELSE /\ at' = arrived
            /\ incoming' = incoming \o Socket(Everything)
            /\ UNCHANGED <<closed, asleep, outcome>>
    /\ UNCHANGED <<socketVars, writeVars, sniff, upgraded, payload, bio, readDirect,
                   response, unpad, delivered>>

-----------------------------------------------------------------------------
(***************************************************************************)
(* Steps of poll_write, poll_flush and poll_shutdown.  A socket that is    *)
(* full is a step that is not taken.                                       *)
(***************************************************************************)
OnWire(cells) == [i \in DOMAIN cells |-> [cell |-> cells[i], sealed |-> ~writeDirect]]
Flushed == pending = <<>> /\ ~pad.switch
MoreToWrite == accepted < Len(link.up)
Chunk == <<link.up[accepted + 1]>>
\* Writing wakes the task, which then polls both directions.
Accept == accepted' = accepted + 1 /\ asleep' = FALSE

WriteUnchanged == <<socketVars, transportVars, response, unpad, delivered, outcome>>

\* TCP, HTTP Upgrade, and Vision after its last frame pass bytes on.
WriteThrough ==
    /\ MoreToWrite /\ Flushed
    /\ Kind = "tcp" \/ (Vision /\ pad.plain) \/ (Kind = "raw" /\ (upgraded \/ link.fast))
    /\ sent' = sent \o OnWire(Chunk)
    /\ Accept
    /\ UNCHANGED <<WriteUnchanged, pending, pad, writeDirect, sniff>>

\* GrpcStream::poll_write hands the whole message to HTTP/2.
WriteMessage ==
    /\ MoreToWrite /\ Kind = "grpc"
    /\ sent' = sent \o OnWire(<<Cell("msg", 0, Len(Chunk), 0)>> \o Chunk)
    /\ Accept
    /\ UNCHANGED <<WriteUnchanged, pending, pad, writeDirect, sniff>>

\* WsStream::poll_write frames the bytes into outgoing.
WriteFrame ==
    /\ MoreToWrite /\ Kind = "ws" /\ (upgraded \/ link.fast) /\ Flushed
    /\ pending' = <<Cell("ws", 2, Len(Chunk), 0)>> \o Chunk
    /\ Accept
    /\ UNCHANGED <<WriteUnchanged, sent, pad, writeDirect, sniff>>

\* VisionStream::poll_write: the command that the frame carries.
Command(seen, cells) ==
    IF seen.tls /\ Head(cells).n = AppData THEN (IF seen.tls13 THEN 2 ELSE 1)
    ELSE IF seen.remaining = 0 \/ (~seen.tls /\ seen.client # <<>>) THEN 1 ELSE 0

WritePadded ==
    LET seen == ObserveClient(Chunk)
        command == Command(seen, Chunk)
    IN  /\ MoreToWrite /\ Vision /\ ~pad.plain /\ Flushed
        /\ sniff' = seen
        /\ \E padding \in 0..1 :
              pending' = (IF pad.first THEN <<Cell("id", 0, 0, 0)>> ELSE <<>>)
                         \o <<Cell("cmd", command, Len(Chunk), padding)>> \o Chunk
                         \o [i \in 1..padding |-> Cell("pad", 0, 0, 0)]
        /\ pad' = [first |-> FALSE, plain |-> command # 0, switch |-> command = 2]
        /\ Accept
        /\ UNCHANGED <<WriteUnchanged, sent, writeDirect>>

\* Mutant: the direct switch does not wait for the frame.
FrameAccepted == TRUE
FrameOut == pending = <<>>

\* flush_frame, flush_outgoing: some of the frame goes out; once it is all
\* out and flushed, a frame with command 2 ends the outer TLS.
Flush ==
    /\ \/ /\ pending # <<>>
          /\ sent' = sent \o OnWire(<<Head(pending)>>)
          /\ pending' = Tail(pending)
          /\ UNCHANGED <<pad, writeDirect>>
       \/ /\ FrameOut /\ pad.switch
          /\ writeDirect' = TRUE
          /\ pad' = [pad EXCEPT !.switch = FALSE]
          /\ UNCHANGED <<sent, pending>>
    /\ UNCHANGED <<WriteUnchanged, asleep, accepted, sniff>>

\* Mutant: poll_read leaves the frame to the writer.
FlushedByReaderNever == FALSE
FlushedByReader == Vision /\ outcome = "open"
FlushInRead == FlushedByReader /\ Flush
FlushInWrite == Kind \in {"ws", "vision"} /\ Flush

-----------------------------------------------------------------------------
(* The peer (external).                                                    *)
Arrive ==
    /\ peer = "open" /\ arrived < Len(link.wire)
    /\ arrived' = arrived + 1
    /\ asleep' = FALSE
    /\ UNCHANGED <<link, peer, transportVars, response, unpad, delivered, outcome, writeVars, sniff>>

PeerEnds ==
    /\ peer = "open"
    /\ peer' \in {"closed", "reset"}
    /\ asleep' = FALSE
    /\ UNCHANGED <<link, arrived, transportVars, response, unpad, delivered, outcome, writeVars, sniff>>

PollRead == \/ TakeBuffered \/ TakeDirect \/ TakeNothing \/ TakePutBack \/ EndFraming
            \/ SslReads \/ SslYields \/ SslIdles
            \/ Upgrade \/ WsClosed \/ WsPayload \/ WsSocket
            \/ GrpcParse \/ GrpcSocket
PollWrite == WriteThrough \/ WriteMessage \/ WriteFrame \/ WritePadded

Next == PollRead \/ PollWrite \/ FlushInRead \/ FlushInWrite \/ Arrive \/ PeerEnds

Spec == Init /\ [][Next]_vars
\* A task that is awake is polled, and a flush inside poll_read goes on when
\* the socket is writable; nothing obliges anyone to write, flush or send.
LiveSpec == Spec /\ WF_vars(PollRead) /\ WF_vars(FlushInRead)

-----------------------------------------------------------------------------
(* Properties.                                                             *)

\* Whatever way the bytes were cut up on the wire, every byte of payload taken
\* from the socket is, in order, in what the application has read or in a
\* buffer of a layer that still has to pass it on, and nothing else was read.
NothingLost ==
    delivered \o Says(unpad.header \o payload \o incoming) = Says(First(link.wire, at))

\* The bytes are framed correctly.
WellFormed(wire) ==
    \A i \in DOMAIN wire :
        CASE wire[i].k = "ver" -> wire[i].v = 0
          [] wire[i].k = "cmd" -> wire[i].v <= 2
          [] wire[i].k = "up"  -> wire[i].v = 101
          [] wire[i].k = "resp" -> wire[i].v = 200
          [] wire[i].k = "msg" -> wire[i].v = 0
          [] wire[i].k = "ws"  -> wire[i].v \in {0, 2, 8, 9, 10}
          [] OTHER -> TRUE

\* A frame behind a control frame that came with the same read of the socket:
\* poll_read looks at it only after another read (websocket.rs, loop of poll_read).
Behind == Kind = "ws" /\ Whole(incoming) /\ (asleep \/ outcome = "eof")
\* An unframed Vision downlink shorter than the first frame's header.
TooShort == Vision /\ unpad.first /\ unpad.header # <<>>

\* A peer that sends everything and closes is read to the end: the application
\* gets all of it and a clean end, never an error; the exceptions are named.
WholeStreamRead ==
    peer = "closed" /\ arrived = Len(link.wire) /\ WellFormed(link.wire) /\ outcome # "open"
        => \/ outcome = "eof" /\ delivered = Says(link.wire)
           \/ Behind \/ TooShort

\* The peer can take the upload apart: the payload on the wire and in the
\* frame buffer is what poll_write accepted, and the outer TLS covers exactly
\* the bytes up to the end of the frame that announces direct copying.
UploadIntact ==
    LET cells == [i \in DOMAIN sent |-> sent[i].cell]
        Announced(i) == \E j \in 1..(i - 1) :
                            cells[j].k = "cmd" /\ cells[j].v = 2 /\ i > j + cells[j].n + cells[j].p
    IN  /\ Says(cells \o pending) = First(link.up, accepted)
        /\ Vision => \A i \in DOMAIN sent : sent[i].sealed <=> ~Announced(i)

\* What has arrived is read without anything more arriving: no poll returns
\* Pending without a wake-up to come.  The exceptions are named.
EverythingRead ==
    (arrived = Len(link.wire) /\ WellFormed(link.wire) /\ peer # "reset") ~>
        (delivered = Says(link.wire) \/ peer = "reset" \/ Behind \/ TooShort)

\* "Writes accepted into our bounded frame buffer must not wait for a second
\* application write before reaching the peer" (vision.rs, poll_read).
FlushesWhileReading ==
    (Vision /\ pending # <<>>) ~> (pending = <<>> \/ outcome # "open")
=============================================================================
