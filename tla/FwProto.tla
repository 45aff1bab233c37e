------------------------------- MODULE FwProto --------------------------------
(***************************************************************************)
(* The command channel between a client and the firmware: the firmware     *)
(* protocol (fw/tk1/proto.c) on top of the USB mode protocol               *)
(* (libcommon/io.c) on top of the receive FIFO (UartFifo).                 *)
(*                                                                         *)
(* The client sends a frame and waits for its reply.  The host cuts the    *)
(* bytes into USB packets as it likes, the CH552 puts a mode and a length  *)
(* before each packet, and packets of the debug endpoint may come in       *)
(* between.  The CH552 waits for clear-to-send before each data byte, but  *)
(* not before the two header bytes (debug.h, CH554UART1SendByte).          *)
(*                                                                         *)
(* Bytes are numbers; headers have their real bits.  A step of the         *)
(* firmware is at most one access to the UART and happens on one clock     *)
(* edge; other edges come in between as they like.                         *)
(***************************************************************************)
EXTENDS UartFifo

CONSTANTS
  USBMODE_PACKET_SIZE,  \* 64
  CMDSIZE,              \* 128
  Length,               \* Length[c]: bytes of cmdlen c, <<1, 4, 32, 128>> from 0
  Clients,              \* the frames each client sends, in order
  MaxStray,             \* packets of the debug endpoint
  StraySizes

CONSTANT None

\* io.h, enum ioend
IO_NONE == 0
IO_CDC == 8
IO_DEBUG == 64

\* proto.h
DST_FW == 2
LEN_4 == 1
LEN_32 == 2
LEN_128 == 3
FW_CMD_NAME_VERSION == 1
FW_RSP_NAME_VERSION == 2
FW_CMD_LOAD_APP == 3
FW_RSP_LOAD_APP == 4
FW_CMD_LOAD_APP_DATA == 5
FW_RSP_LOAD_APP_DATA == 6
FW_RSP_LOAD_APP_DATA_READY == 7
FW_CMD_GET_UDI == 8
FW_RSP_GET_UDI == 9

ASSUME ProtoAssumption ==
  /\ Byte = 0 .. 255
  /\ USBMODE_PACKET_SIZE \in 1 .. 255 /\ CMDSIZE \in 1 .. 255
  /\ \A c \in 0 .. 3 : Length[c] \in 1 .. CMDSIZE
  /\ MaxStray \in Nat
  /\ StraySizes \subseteq 1 .. USBMODE_PACKET_SIZE

\* The bytes the CH552 still sends after it was asked to stop, a data byte and
\* the header of the next packet, fit above the mark.
ASSUME RoomAssumption == CTS_AT + 3 < FIFO_WORDS

\* A client sends whole frames: a header and as many bytes as it announces.
IsFrame(f) == f \in Seq(Byte) /\ f # <<>> /\ Len(f) = 1 + Length[f[1] % 4]
ClientFrames == UNION {{c[i] : i \in DOMAIN c} : c \in Clients}
ASSUME ClientAssumption ==
  /\ \A c \in Clients : c \in Seq(ClientFrames)
  /\ \A f \in ClientFrames : IsFrame(f) /\ f # None
  /\ None \notin [id : 0 .. 3, endpoint : 0 .. 3, len : 1 .. CMDSIZE]

VARIABLES
  \* the client, the host and the CH552
  todo,          \* frames the client has still to send
  asked,         \* the frame it waits for a reply to, or None
  host,          \* its bytes that are not in a USB packet yet
  packet,        \* the rest of what the CH552 sends for the current packet
  header,        \* bytes of it that are header
  line,          \* the byte on the line to the FPGA, if any
  stray,         \* debug packets sent
  got,           \* the bytes of the reply it has got so far
  \* the firmware
  pc,
  after,         \* where readselect() returns to
  cur_endpoint,  \* io.c: endpoint and len
  hdr, cmd,      \* the frame header and the command read
  n,             \* bytes of it read so far
  available,     \* bytes to read or discard in this loop
  out            \* rest of the reply still to be written
clientvars == <<todo, asked, host, stray>>
ch552vars == <<packet, header, line>>
fwvars == <<pc, after, cur_endpoint, hdr, cmd, n, available, out>>
vars == <<fifovars, clientvars, ch552vars, got, fwvars>>

Take(s, k) == SubSeq(s, 1, k)
Drop(s, k) == SubSeq(s, k + 1, Len(s))
Least(a, b) == IF a < b THEN a ELSE b

(***************************************************************************)
(* The conversions of proto.c.                                             *)
(***************************************************************************)
genhdr(id, endpoint, status, len) == 32 * id + 8 * endpoint + 4 * status + len

bytelen(cmdlen) == Length[cmdlen]

BadVersion(b) == b \div 128 = 1
StatusBit(b) == (b \div 4) % 2 = 1

\* None stands for -1.
parseframe(b) ==
  IF BadVersion(b) \/ StatusBit(b) THEN None
  ELSE [id |-> (b \div 32) % 4, endpoint |-> (b \div 8) % 4, len |-> bytelen(b % 4)]

RspLen(rspcode) ==
  CASE rspcode \in {FW_RSP_NAME_VERSION, FW_RSP_GET_UDI} -> LEN_32
    [] rspcode \in {FW_RSP_LOAD_APP, FW_RSP_LOAD_APP_DATA} -> LEN_4
    [] rspcode = FW_RSP_LOAD_APP_DATA_READY -> LEN_128

\* The payload of a reply is a run of bytes of its own.
ReplyFrame(h, rspcode) ==
  LET nbytes == bytelen(RspLen(rspcode))
  IN  <<genhdr(h.id, h.endpoint, 0, RspLen(rspcode)), rspcode>>
      \o [i \in 1 .. nbytes - 1 |-> 200 + i]

\* What the state machine of main.c may answer to a valid command.
Responses(code) ==
  CASE code = FW_CMD_NAME_VERSION -> {FW_RSP_NAME_VERSION}
    [] code = FW_CMD_GET_UDI -> {FW_RSP_GET_UDI}
    [] code = FW_CMD_LOAD_APP -> {FW_RSP_LOAD_APP}
    [] code = FW_CMD_LOAD_APP_DATA -> {FW_RSP_LOAD_APP_DATA, FW_RSP_LOAD_APP_DATA_READY}
    [] OTHER -> {}

NoHeader == [id |-> 0, endpoint |-> 0, len |-> 0]
Zeros == [i \in 1 .. CMDSIZE |-> 0]

Init ==
  /\ fifo_mem = [s \in Slot |-> 0] /\ rxd_byte_reg = 0
  /\ FifoInit
  /\ todo \in Clients /\ asked = None /\ host = <<>>
  /\ packet = <<>> /\ header = 0 /\ line = <<>>
  /\ stray = 0
  /\ got = <<>>
  /\ pc = "select" /\ after = "header"
  /\ cur_endpoint = [endpoint |-> IO_NONE, len |-> 0]
  /\ hdr = NoHeader /\ cmd = Zeros /\ n = 0 /\ available = 0
  /\ out = <<>>

(***************************************************************************)
(* The client, the host and the CH552.                                     *)
(***************************************************************************)
SendCommand ==
  /\ asked = None /\ todo # <<>>
  /\ asked' = Head(todo) /\ host' = Head(todo)
  /\ todo' = Tail(todo)
  /\ UNCHANGED <<stray, fifovars, ch552vars, got, fwvars>>

Idle == packet = <<>> /\ line = <<>>
Framed(mode, data) == <<mode, Len(data)>> \o data

CdcPacket ==
  /\ Idle /\ host # <<>>
  /\ \E k \in 1 .. Least(Len(host), USBMODE_PACKET_SIZE) :
       packet' = Framed(IO_CDC, Take(host, k)) /\ host' = Drop(host, k)
  /\ header' = 2
  /\ UNCHANGED <<todo, asked, stray, line, fifovars, got, fwvars>>

DebugPacket ==
  /\ Idle /\ stray < MaxStray
  /\ \E k \in StraySizes : packet' = Framed(IO_DEBUG, [i \in 1 .. k |-> IO_CDC])
  /\ header' = 2
  /\ stray' = stray + 1
  /\ UNCHANGED <<todo, asked, host, line, fifovars, got, fwvars>>

Ch552Send ==
  /\ packet # <<>> /\ line = <<>>
  /\ header > 0 \/ ~fpga_cts_reg
  /\ line' = <<Head(packet)>> /\ packet' = Tail(packet)
  /\ header' = IF header > 0 THEN header - 1 ELSE 0
  /\ UNCHANGED <<fifovars, clientvars, got, fwvars>>

(* A byte takes many clocks, so when the next one is complete the engine has
   handed over the last one, unless the FIFO is full. *)
StopBit == line # <<>> /\ (~rxd_syn_reg \/ fifo_full)

Arrive ==
  /\ StopBit
  /\ Edge(FALSE, TRUE, line[1])
  /\ line' = <<>>
  /\ UNCHANGED <<packet, header, clientvars, got, fwvars>>

Tick ==
  /\ Unsettled
  /\ Edge(FALSE, FALSE, 0)
  /\ UNCHANGED <<clientvars, ch552vars, got, fwvars>>

(***************************************************************************)
(* The reply at the client: the CH552 takes each piece out of its frame.   *)
(***************************************************************************)
Unframe(f) == IF f[1] = IO_CDC THEN SubSeq(f, 3, 2 + f[2]) ELSE <<>>

WholeReply(r) == r # <<>> /\ Len(r) = 1 + bytelen(r[1] % 4)

ReceiveReply ==
  /\ WholeReply(got)
  /\ asked' = None /\ got' = <<>>
  /\ UNCHANGED <<todo, host, stray, fifovars, ch552vars, fwvars>>

(***************************************************************************)
(* readselect(IO_CDC, ...) in io.c.                                        *)
(***************************************************************************)
\* readbyte(): blocks until there is a byte; a byte may arrive on the same edge.
readbyte ==
  /\ can_rx
  /\ \/ /\ Edge(TRUE, FALSE, 0)
        /\ UNCHANGED line
     \/ /\ StopBit
        /\ Edge(TRUE, TRUE, line[1])
        /\ line' = <<>>
  /\ UNCHANGED <<packet, header>>

Internal == UNCHANGED <<fifovars, ch552vars>>

ReadMode ==
  /\ pc = "select" /\ cur_endpoint.len = 0
  /\ readbyte
  /\ cur_endpoint' = [cur_endpoint EXCEPT !.endpoint = rx]
  /\ pc' = "length"
  /\ UNCHANGED <<clientvars, got, after, hdr, cmd, n, available, out>>

ReadLength ==
  /\ pc = "length"
  /\ readbyte
  /\ cur_endpoint' = [cur_endpoint EXCEPT !.len = rx]
  /\ pc' = "check"
  /\ UNCHANGED <<clientvars, got, after, hdr, cmd, n, available, out>>

InBitmask == (cur_endpoint.endpoint \div IO_CDC) % 2 = 1

Check ==
  /\ pc = "check" \/ (pc = "select" /\ cur_endpoint.len # 0)
  /\ available' = cur_endpoint.len
  /\ pc' = IF InBitmask THEN after
           ELSE IF cur_endpoint.len > 0 THEN "discard" ELSE "select"
  /\ Internal
  /\ UNCHANGED <<clientvars, got, after, cur_endpoint, hdr, cmd, n, out>>

Less(e) == [e EXCEPT !.len = (e.len + 255) % 256]

discard ==
  /\ pc = "discard"
  /\ readbyte
  /\ cur_endpoint' = Less(cur_endpoint)
  /\ available' = available - 1
  /\ pc' = IF available = 1 THEN "select" ELSE "discard"
  /\ UNCHANGED <<clientvars, got, after, hdr, cmd, n, out>>

(***************************************************************************)
(* readcommand() in proto.c; its result -1 leads to FW_STATE_FAIL.         *)
(***************************************************************************)
Fail == pc' = "failed"

ReadHeader ==
  /\ pc = "header"
  /\ readbyte
  /\ cur_endpoint' = Less(cur_endpoint)
  /\ IF parseframe(rx) = None
     THEN Fail /\ UNCHANGED <<after, hdr, cmd, n>>
     ELSE /\ hdr' = parseframe(rx)
          /\ cmd' = Zeros /\ n' = 0
          /\ pc' = "select" /\ after' = "body"
  /\ UNCHANGED <<clientvars, got, available, out>>

Clamp(k) == IF k > hdr.len THEN hdr.len ELSE k

ReadBodyStrict ==
  /\ pc = "body"
  /\ available' = Clamp(available)
  /\ IF n >= CMDSIZE \/ Clamp(available) >= CMDSIZE - n THEN Fail
     ELSE pc' = "read"
  /\ Internal
  /\ UNCHANGED <<clientvars, got, after, cur_endpoint, hdr, cmd, n, out>>

ReadBody ==
  /\ pc = "body"
  /\ available' = Clamp(available)
  /\ IF n >= CMDSIZE \/ Clamp(available) > CMDSIZE - n THEN Fail
     ELSE pc' = "read"
  /\ Internal
  /\ UNCHANGED <<clientvars, got, after, cur_endpoint, hdr, cmd, n, out>>

ReadAnyDestination ==
  /\ pc = "read"
  /\ readbyte
  /\ cmd' = [cmd EXCEPT ![n + 1] = rx]
  /\ cur_endpoint' = Less(cur_endpoint)
  /\ n' = n + 1
  /\ available' = available - 1
  /\ pc' = IF available > 1 THEN "read"
           ELSE IF n + 1 < hdr.len THEN "select" ELSE "handle"
  /\ UNCHANGED <<clientvars, got, after, hdr, out>>

(* The loop of read(), and, after its last byte, the test of the loop in
   readcommand() and of the destination. *)
ReadByte ==
  /\ pc = "read"
  /\ readbyte
  /\ cmd' = [cmd EXCEPT ![n + 1] = rx]
  /\ cur_endpoint' = Less(cur_endpoint)
  /\ n' = n + 1
  /\ available' = available - 1
  /\ pc' = IF available > 1 THEN "read"
           ELSE IF n + 1 < hdr.len THEN "select"
           ELSE IF hdr.endpoint # DST_FW THEN "failed" ELSE "handle"
  /\ UNCHANGED <<clientvars, got, after, hdr, out>>

(***************************************************************************)
(* The state machine answers with fwreply(); write() cuts the frame into   *)
(* pieces with a USB mode header each.                                     *)
(***************************************************************************)
Handle ==
  /\ pc = "handle"
  /\ IF Responses(cmd[1]) = {}
     THEN Fail /\ UNCHANGED out
     ELSE /\ \E rspcode \in Responses(cmd[1]) : out' = ReplyFrame(hdr, rspcode)
          /\ pc' = "write"
  /\ Internal
  /\ UNCHANGED <<clientvars, got, after, cur_endpoint, hdr, cmd, n, available>>

(* write_with_header() for the next piece.  Nothing reads what is written
   before the piece is complete, so its bytes go out in one step. *)
WritePacket ==
  /\ pc = "write" /\ out # <<>>
  /\ LET len == Least(Len(out), USBMODE_PACKET_SIZE)
     IN  got' = got \o Unframe(Framed(IO_CDC, Take(out, len))) /\ out' = Drop(out, len)
  /\ Internal
  /\ UNCHANGED <<clientvars, pc, after, cur_endpoint, hdr, cmd, n, available>>

NextCommand ==
  /\ pc = "write" /\ out = <<>>
  /\ pc' = "select" /\ after' = "header"
  /\ Internal
  /\ UNCHANGED <<clientvars, got, cur_endpoint, hdr, cmd, n, available, out>>

Environment == SendCommand \/ CdcPacket \/ DebugPacket \/ Ch552Send \/ ReceiveReply
Hardware == Arrive \/ Tick
Firmware ==
  \/ ReadMode \/ ReadLength \/ Check \/ discard
  \/ ReadHeader \/ ReadBody \/ ReadByte
  \/ Handle \/ WritePacket \/ NextCommand

Finished ==
  /\ pc = "failed" \/ (todo = <<>> /\ asked = None)
  /\ UNCHANGED vars

Next == Environment \/ Hardware \/ Firmware \/ Finished

(* The clock runs, the CPU runs, the CH552 forwards what it has and the host
   sends what the client has written and takes what comes back. *)
Fairness ==
  /\ WF_vars(CdcPacket) /\ WF_vars(Ch552Send) /\ WF_vars(ReceiveReply)
  /\ WF_vars(Arrive) /\ WF_vars(Tick)
  /\ WF_vars(Firmware)

Spec == Init /\ [][Next]_vars /\ Fairness

(***************************************************************************)
(* Properties                                                              *)
(***************************************************************************)
\* The bytes on their way to the firmware, the mode byte it holds first.
OnTheWay ==
  (IF pc = "length" THEN <<cur_endpoint.endpoint>> ELSE <<>>) \o Received \o line \o packet

left == IF pc = "length" THEN 0 ELSE cur_endpoint.len

(* B is where packets of s begin after its first L bytes, and its end. *)
Starts(s, b) ==
  /\ b + 2 <= Len(s)
  /\ s[b + 1] \in {IO_CDC, IO_DEBUG}
  /\ s[b + 2] \in 1 .. USBMODE_PACKET_SIZE
Cuts(s, L, B) ==
  /\ L \in B /\ Len(s) \in B
  /\ \A b \in B \ {Len(s)} : Starts(s, b) /\ b + 2 + s[b + 2] \in B
Places(s, L) == {b \in L .. Len(s) : b = Len(s) \/ Starts(s, b)}

(* The firmware is in step with the CH552: behind the rest of the packet it is
   reading there are whole packets and nothing else.  No byte has been lost in
   the FIFO, none was taken twice, none too many by read(). *)
InStep == \E B \in SUBSET Places(OnTheWay, left) : Cuts(OnTheWay, left, B)

(* The layers implement the channel: what readcommand() delivers is the frame
   the client sent, what the client gets is the reply that was given, and only
   a frame that is not for the firmware makes it fail. *)
IsGood(f) ==
  /\ parseframe(f[1]) # None
  /\ parseframe(f[1]).endpoint = DST_FW
  /\ Responses(f[2]) # {}
Delivered(f) ==
  [hdr |-> parseframe(f[1]),
   cmd |-> [i \in 1 .. CMDSIZE |-> IF i < Len(f) THEN f[i + 1] ELSE 0]]
RepliesTo(f) == {ReplyFrame(parseframe(f[1]), r) : r \in Responses(f[2])}

Phase ==
  CASE asked = None -> "idle"
    [] asked # None /\ pc = "failed" -> "failed"
    [] asked # None /\ WholeReply(got) -> "answered"
    [] pc = "handle" /\ Responses(cmd[1]) # {} -> "taken"
    [] pc = "write" /\ out # <<>> -> "taken"
    [] OTHER -> "asked"

Channel ==
  INSTANCE CommandChannel
    WITH Frames <- ClientFrames,
         Good <- IsGood, Delivered <- Delivered, Replies <- RepliesTo,
         phase <- Phase,
         taken <- IF Phase = "taken" THEN [hdr |-> hdr, cmd |-> cmd] ELSE None,
         answer <- IF Phase = "answered" THEN got ELSE None
ImplementsChannel == Channel!Spec

(* A client that asks for something gets its reply, however the host cuts the
   bytes into packets and whatever the debug endpoint sends. *)
RepliesArrive == (asked # None /\ IsGood(asked)) ~> asked = None
=============================================================================
