------------------------------ MODULE IoxWebsocket ------------------------------
(***************************************************************************)
(* The WebSocket server stream of dtiox_linux_websocket.c: one client at a *)
(* time, written to and never read from.  One thread calls attach, write,  *)
(* enable, detach and dispose; clients connect, send and close between any *)
(* two of its system calls, and what they do is known to the server only   *)
(* when it arrives.                                                        *)
(*                                                                         *)
(* A socket is its number among all sockets of its kind.  What a client    *)
(* sends is told apart as far as the server does: a piece of the upgrade   *)
(* request, its acceptable or unacceptable end, or a frame afterwards.     *)
(***************************************************************************)
EXTENDS Integers, Sequences, SequencesExt

CONSTANTS Lengths,       \* lengths of the messages the caller writes
          RequestMax,    \* pieces that fill the request buffer; 8191 bytes in the code
          MaxBinds,      \* bounds of model checking: listening sockets,
          MaxConns,      \*   connections,
          MaxWrites,     \*   writes that send something,
          MaxEnables     \*   calls of enable

ASSUME LengthsAssumption == \A len \in Lengths : len \in Nat /\ len <= 2147483647   \* INT32_MAX
ASSUME BoundsAssumption == /\ {RequestMax, MaxBinds, MaxConns} \subseteq Nat \ {0}
                           /\ {MaxWrites, MaxEnables} \subseteq Nat

VARIABLES
    self,                \* listen_fd, client_fd (0 for -1), is_connected, write_enabled, and
                         \* whether handshake_timeout_ms is set
    call,                \* the call under way and its locals
    listeners, binds,    \* listening sockets that are open, and how many were made
    conns,               \* connections: the server's end; the client's end, which is open, closed with the
                         \* FIN under way, closed, or reset; what waits to be received
    wire,                \* history: the frames sent on each connection,
    reported,            \*   the lengths that write reported on it,
    unseen,              \*   and how many of these after the client's FIN had arrived,
    writes, enables      \*   writes that sent something, calls of enable

vars == <<self, call, listeners, binds, conns, wire, reported, unseen, writes, enables>>
sent == <<wire, reported, unseen>>

Conns == 1 .. MaxConns
Idle == [at |-> "idle", listen_fd |-> 0, client_fd |-> 0, used |-> 0, len |-> 0]

SelfType == [listen_fd : 0 .. MaxBinds, client_fd : 0 .. MaxConns, is_connected : BOOLEAN,
             write_enabled : BOOLEAN, timed : BOOLEAN]
CallType == [at : {"idle", "accept", "handshake", "respond", "header", "payload", "disposed"},
             listen_fd : 0 .. MaxBinds, client_fd : 0 .. MaxConns, used : 0 .. RequestMax,
             len : Lengths \union {0}]
ConnType == [end : {"none", "queued", "open", "closed"}, client : {"open", "closing", "closed", "reset"},
             inbox : {"empty", "piece", "good", "bad", "frame"}]

TypeOK ==
    /\ self \in SelfType /\ call \in CallType
    /\ listeners \subseteq 1 .. binds /\ binds \in 0 .. MaxBinds
    /\ conns \in [Conns -> ConnType]
    /\ unseen \in [Conns -> Nat] /\ reported \in [Conns -> Seq(Lengths)]
    /\ writes \in 0 .. MaxWrites /\ enables \in 0 .. MaxEnables

\* dtiox_linux_websocket_init and _configure.
Init ==
    /\ self \in [listen_fd : {0}, client_fd : {0}, is_connected : {FALSE}, write_enabled : {TRUE}, timed : BOOLEAN]
    /\ call = Idle /\ listeners = {} /\ binds = 0
    /\ conns = [c \in Conns |-> [end |-> "none", client |-> "open", inbox |-> "empty"]]
    /\ wire = [c \in Conns |-> <<>>] /\ reported = [c \in Conns |-> <<>>]
    /\ unseen = [c \in Conns |-> 0] /\ writes = 0 /\ enables = 0

(***************************************************************************)
(* Sockets                                                                 *)
(***************************************************************************)

\* close() of a listening socket, of which only one is open at a time, and of a
\* connection, with what waits to be received; -1 is left alone.  Connections nobody
\* accepted go with the listener.
Close(l, c) ==
    /\ listeners' = listeners \ {l}
    /\ conns' = [d \in Conns |->
                   IF d = c \/ (conns[d].end = "queued" /\ l \in listeners)
                   THEN [conns[d] EXCEPT !.end = "closed", !.inbox = "empty"] ELSE conns[d]]

ClientConnects(c) ==
    /\ conns[c].end = "none" /\ listeners # {}
    /\ \A d \in Conns : d < c => conns[d].end # "none"
    /\ conns' = [conns EXCEPT ![c].end = "queued"]
    /\ UNCHANGED <<self, call, listeners, binds, sent, writes, enables>>

\* What the server makes of a whole request: a GET whose Upgrade, Connection and
\* Sec-WebSocket-Key fields are those of a WebSocket client, or not.
Verdicts == {"good", "bad"}

\* A piece of the request or its end, and once it is answered a frame.
ClientSends(c) ==
    /\ conns[c].end \in {"queued", "open"} /\ conns[c].client = "open" /\ conns[c].inbox = "empty"
    /\ \E what \in IF self.client_fd = c THEN {"frame"} ELSE {"piece"} \union Verdicts :
          conns' = [conns EXCEPT ![c].inbox = what]
    /\ UNCHANGED <<self, call, listeners, binds, sent, writes, enables>>

ClientCloses(c) ==
    /\ conns[c].end \in {"queued", "open"} /\ conns[c].client = "open"
    /\ conns' = [conns EXCEPT ![c].client = "closing"]
    /\ UNCHANGED <<self, call, listeners, binds, sent, writes, enables>>

\* The FIN of a client that closed arrives,
CloseArrives(c) ==
    /\ conns[c].end \in {"queued", "open"} /\ conns[c].client = "closing"
    /\ conns' = [conns EXCEPT ![c].client = "closed"]
    /\ UNCHANGED <<self, call, listeners, binds, sent, writes, enables>>

\* or the connection breaks: an RST arrives, as from a client that closed with
\* frames unread, or the peer is given up.
ConnectionBreaks(c) ==
    /\ conns[c].end \in {"queued", "open"} /\ conns[c].client \in {"open", "closing"}
    /\ conns' = [conns EXCEPT ![c].client = "reset"]
    /\ UNCHANGED <<self, call, listeners, binds, sent, writes, enables>>

(***************************************************************************)
(* attach                                                                  *)
(***************************************************************************)

\* A listening socket is made unless there is one already; call.listen_fd is the
\* one that _bind_listen_accept made and has to close.
AttachBinds ==
    /\ call.at = "idle" /\ self.client_fd = 0 /\ self.listen_fd = 0 /\ binds < MaxBinds
    /\ binds' = binds + 1 /\ listeners' = listeners \union {binds + 1}
    /\ call' = [Idle EXCEPT !.at = "accept", !.listen_fd = binds + 1]
    /\ UNCHANGED <<self, conns, sent, writes, enables>>

AttachReuses ==
    /\ call.at = "idle" /\ self.client_fd = 0 /\ self.listen_fd # 0
    /\ call' = [Idle EXCEPT !.at = "accept"]
    /\ UNCHANGED <<self, listeners, binds, conns, sent, writes, enables>>

Listener == IF call.listen_fd # 0 THEN call.listen_fd ELSE self.listen_fd

\* accept() and the socket's options; attach now holds both descriptors.
AttachAccepts(c) ==
    /\ call.at = "accept" /\ Listener \in listeners /\ conns[c].end = "queued"
    /\ conns' = [conns EXCEPT ![c].end = "open"]
    /\ call' = [call EXCEPT !.at = "handshake", !.listen_fd = Listener, !.client_fd = c]
    /\ UNCHANGED <<self, listeners, binds, sent, writes, enables>>

\* Mutant: the connection stays open.
Mutant_AttachFailsOpen ==
    /\ Close(call.listen_fd, 0)
    /\ call' = Idle
    /\ UNCHANGED <<self, binds, sent, writes, enables>>

\* The cleanup of attach: both descriptors are closed, the reused listener too.
AttachFails ==
    /\ Close(call.listen_fd, call.client_fd)
    /\ call' = Idle
    /\ UNCHANGED <<self, binds, sent, writes, enables>>

\* accept() fails, as it always does on a socket that was closed.
AttachAcceptFails == call.at = "accept" /\ AttachFails

\* An option cannot be set.
AttachOptionFails(c) ==
    /\ call.at = "accept" /\ Listener \in listeners /\ conns[c].end = "queued"
    /\ Close(call.listen_fd, c)
    /\ call' = Idle
    /\ UNCHANGED <<self, binds, sent, writes, enables>>

Received == conns' = [conns EXCEPT ![call.client_fd].inbox = "empty"]

\* Mutant: the request buffer is never full.
Mutant_HandshakeUnlimited ==
    /\ call.at = "handshake" /\ conns[call.client_fd].inbox = "piece"
    /\ Received
    /\ UNCHANGED <<self, call, listeners, binds, sent, writes, enables>>

\* A piece of the request, with room for more.
HandshakePiece ==
    /\ call.at = "handshake" /\ conns[call.client_fd].inbox = "piece" /\ call.used + 1 < RequestMax
    /\ Received
    /\ call' = [call EXCEPT !.used = @ + 1]
    /\ UNCHANGED <<self, listeners, binds, sent, writes, enables>>

HandshakeDone ==
    /\ call.at = "handshake" /\ conns[call.client_fd].inbox = "good"
    /\ Received
    /\ call' = [call EXCEPT !.at = "respond"]
    /\ UNCHANGED <<self, listeners, binds, sent, writes, enables>>

\* A request that is too large or not an upgrade, a client that is gone, and no
\* byte for as long as the timeout says; zero means no limit.
HandshakeFails ==
    LET c == conns[call.client_fd] IN
    /\ call.at = "handshake"
    /\ \/ c.inbox = "bad"
       \/ c.inbox = "piece" /\ call.used + 1 = RequestMax
       \/ c.inbox = "empty" /\ (c.client \in {"closed", "reset"} \/ self.timed)
    /\ AttachFails

Respond ==
    /\ call.at = "respond" /\ conns[call.client_fd].client # "reset"
    /\ self' = [self EXCEPT !.listen_fd = call.listen_fd, !.client_fd = call.client_fd, !.is_connected = TRUE]
    /\ call' = Idle
    /\ UNCHANGED <<listeners, binds, conns, sent, writes, enables>>

\* send() fails.
RespondFails == call.at = "respond" /\ AttachFails

(***************************************************************************)
(* write: one message, one frame                                           *)
(***************************************************************************)
\* The byte of n whose unit is w.
Byte(n, w) == (n \div w) % 256

\* Mutant: 126 fits the short form.
Mutant_HeaderShort(len) ==
    IF len <= 126 THEN <<130, len>>
    ELSE IF len <= 65535 THEN <<130, 126, Byte(len, 256), Byte(len, 1)>>
    ELSE <<130, 127, 0, 0, 0, 0, Byte(len, 16777216), Byte(len, 65536), Byte(len, 256), Byte(len, 1)>>

\* The header of a binary frame; an int32_t leaves the four high bytes zero.
Header(len) ==
    IF len <= 125 THEN <<130, len>>
    ELSE IF len <= 65535 THEN <<130, 126, Byte(len, 256), Byte(len, 1)>>
    ELSE <<130, 127, 0, 0, 0, 0, Byte(len, 16777216), Byte(len, 65536), Byte(len, 256), Byte(len, 1)>>

\* The cleanup of write.
WriteFails ==
    /\ self' = [self EXCEPT !.is_connected = FALSE, !.client_fd = 0]
    /\ Close(0, self.client_fd)
    /\ call' = Idle
    /\ UNCHANGED <<binds, writes, enables>>

\* recv() with MSG_PEEK and MSG_DONTWAIT returns no byte and no end of stream.  It
\* sees a FIN that has arrived; the error of a broken connection passes for life.
Alive(c) == conns[c].inbox = "empty" /\ conns[c].client # "closed"

\* Mutant: only bytes are taken for a sign of the client's end.
Mutant_WriteProbesBytes(len) ==
    /\ call.at = "idle" /\ self.write_enabled /\ self.client_fd # 0 /\ self.is_connected
    /\ \/ /\ conns[self.client_fd].inbox = "empty"
          /\ writes < MaxWrites /\ writes' = writes + 1
          /\ call' = [Idle EXCEPT !.at = "header", !.len = len]
          /\ UNCHANGED <<self, listeners, binds, conns, sent, enables>>
       \/ conns[self.client_fd].inbox # "empty" /\ WriteFails /\ UNCHANGED sent

\* After the probe: an end of the stream and any byte mean that the client is leaving.
\* While disabled, or not attached, write does nothing.
Write(len) ==
    /\ call.at = "idle" /\ self.write_enabled /\ self.client_fd # 0 /\ self.is_connected
    /\ \/ /\ Alive(self.client_fd)
          /\ writes < MaxWrites /\ writes' = writes + 1
          /\ call' = [Idle EXCEPT !.at = "header", !.len = len]
          /\ UNCHANGED <<self, listeners, binds, conns, sent, enables>>
       \/ ~Alive(self.client_fd) /\ WriteFails /\ UNCHANGED sent

\* A broken connection takes no bytes; one whose client has closed does.
Takes(c) == conns[c].client # "reset"

\* The last frame becomes f, and the write reports it when it is whole.
Frame(c, f) == wire' = [wire EXCEPT ![c] = IF call.at = "header" THEN Append(@, f) ELSE Front(@) \o <<f>>]
Reports(c) ==
    /\ reported' = [reported EXCEPT ![c] = Append(@, call.len)]
    /\ unseen' = [unseen EXCEPT ![c] = IF conns[c].client = "closed" THEN @ + 1 ELSE @]
    /\ call' = Idle

SendHeader ==
    /\ call.at = "header" /\ Takes(self.client_fd)
    /\ Frame(self.client_fd, [header |-> Header(call.len), payload |-> 0])
    /\ \/ call.len = 0 /\ Reports(self.client_fd)
       \/ call.len > 0 /\ call' = [call EXCEPT !.at = "payload"] /\ UNCHANGED <<reported, unseen>>
    /\ UNCHANGED <<self, listeners, binds, conns, writes, enables>>

SendPayload ==
    /\ call.at = "payload" /\ Takes(self.client_fd)
    /\ Frame(self.client_fd, [header |-> Header(call.len), payload |-> call.len])
    /\ Reports(self.client_fd)
    /\ UNCHANGED <<self, listeners, binds, conns, writes, enables>>

\* send() fails after part of the header or part of the payload went out.
SendFails ==
    /\ call.at \in {"header", "payload"}
    /\ \E n \in {0, 1} :
          Frame(self.client_fd, IF call.at = "header"
                                THEN [header |-> SubSeq(Header(call.len), 1, n), payload |-> 0]
                                ELSE [header |-> Header(call.len), payload |-> n * (call.len - 1)])
    /\ WriteFails
    /\ UNCHANGED <<reported, unseen>>

(***************************************************************************)
(* enable, detach, dispose                                                 *)
(***************************************************************************)
Enable(enabled) ==
    /\ call.at = "idle" /\ enables < MaxEnables
    /\ self' = [self EXCEPT !.write_enabled = enabled]
    /\ enables' = enables + 1
    /\ UNCHANGED <<call, listeners, binds, conns, sent, writes>>

Detach ==
    /\ call.at = "idle"
    /\ self' = [self EXCEPT !.is_connected = FALSE, !.client_fd = 0, !.listen_fd = 0]
    /\ Close(self.listen_fd, self.client_fd)
    /\ UNCHANGED <<call, binds, sent, writes, enables>>

Dispose ==
    /\ call.at = "idle"
    /\ Close(self.listen_fd, self.client_fd)
    /\ self' = [self EXCEPT !.client_fd = 0, !.listen_fd = 0]
    /\ call' = [Idle EXCEPT !.at = "disposed"]
    /\ UNCHANGED <<binds, sent, writes, enables>>

Handshake == HandshakePiece \/ HandshakeDone \/ HandshakeFails \/ Respond \/ RespondFails

Next ==
    \/ \E c \in Conns : ClientConnects(c) \/ ClientSends(c) \/ ClientCloses(c) \/ CloseArrives(c) \/ ConnectionBreaks(c)
    \/ AttachBinds \/ AttachReuses \/ AttachAcceptFails
    \/ \E c \in Conns : AttachAccepts(c) \/ AttachOptionFails(c)
    \/ Handshake
    \/ \E len \in Lengths : Write(len)
    \/ SendHeader \/ SendPayload \/ SendFails
    \/ \E enabled \in BOOLEAN : Enable(enabled)
    \/ Detach \/ Dispose

Spec == Init /\ [][Next]_vars

\* The thread in attach runs, and the time of its select() passes.
FairSpec == Spec /\ WF_vars(Handshake)

(***************************************************************************)
(* Properties                                                              *)
(***************************************************************************)

\* Whatever fails in attach and write, every socket that is open is one that
\* the object, or the attach under way, will close.
NoSocketLeak ==
    /\ listeners \subseteq {self.listen_fd, call.listen_fd}
    /\ {c \in Conns : conns[c].end = "open"} \subseteq {self.client_fd, call.client_fd}

\* What a client reads from a header of RFC 6455.
Declared(h) ==
    IF h[2] <= 125 THEN h[2]
    ELSE IF h[2] = 126 THEN h[3] * 256 + h[4]
    ELSE ((h[7] * 256 + h[8]) * 256 + h[9]) * 256 + h[10]
HeaderSize(h) == IF h[2] <= 125 THEN 2 ELSE IF h[2] = 126 THEN 4 ELSE 10
Whole(f) == Len(f.header) >= 2 /\ Len(f.header) = HeaderSize(f.header) /\ f.payload = Declared(f.header)

\* "one write() call => one complete websocket binary message": a client that
\* takes the bytes apart finds the messages that write reported, in order and
\* no others; a frame that was cut short is the last of its connection, and the
\* server has closed that connection.
WholeMessages ==
    \A c \in Conns :
        LET torn == wire[c] # <<>> /\ ~Whole(Last(wire[c]))
            frames == IF torn THEN Front(wire[c]) ELSE wire[c] IN
        /\ \A i \in DOMAIN frames : Whole(frames[i])
        /\ [i \in DOMAIN frames |-> frames[i].payload] = reported[c]
        /\ torn => conns[c].end = "closed" \/ (self.client_fd = c /\ call.at = "payload")

\* The probe before every write bounds what is lost in silence once the server's
\* host knows: of the messages that write reported on a connection at most one
\* was finished after the client's FIN had arrived.  While the FIN is under way
\* there is no bound: every probe and send succeeds.
OneAfterEnd == \A c \in Conns : unseen[c] <= 1

\* "Fix: websocket server keeps `listen_fd` alive across client reconnects": the
\* listening socket that the object holds on to is open.
ListenerKept == self.listen_fd # 0 => self.listen_fd \in listeners

\* With a timeout, an attach that has accepted a client returns, however slowly
\* or wrongly the client behaves.
AttachEnds == (call.at \in {"handshake", "respond"} /\ self.timed) ~> call.at = "idle"
=============================================================================
