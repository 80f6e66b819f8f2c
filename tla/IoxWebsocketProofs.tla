-------------------------- MODULE IoxWebsocketProofs --------------------------
(* Machine-checked proofs about IoxWebsocket, for every number of listening   *)
(* sockets, connections and writes, and for every message length an int32_t   *)
(* can hold.                                                                  *)
EXTENDS IoxWebsocket, SequenceTheorems, TLAPS

-----------------------------------------------------------------------------
(* The frame header. *)

\* A number is its quotient and its remainder by 256.
LEMMA DivMod256 ==
  ASSUME NEW n \in Nat
  PROVE  n \div 256 \in Nat /\ n % 256 \in 0..255 /\ n = 256 * (n \div 256) + (n % 256)
  <1>1. n \div 256 \in Nat  BY Z3
  <1>2. n % 256 \in 0..255  BY Z3
  <1>3. n = 256 * (n \div 256) + (n % 256)  BY SMT
  <1>4. QED  BY <1>1, <1>2, <1>3

\* A shift by 16 and by 24 bits is made of shifts by 8.
LEMMA DivDiv256 ==
  ASSUME NEW n \in Nat
  PROVE  /\ n \div 65536 = (n \div 256) \div 256
         /\ n \div 16777216 = ((n \div 256) \div 256) \div 256
  <1>1. (n \div 256) \div 256 = n \div 65536  BY Z3
  <1>2. (n \div 65536) \div 256 = n \div 16777216  BY Z3
  <1>3. QED  BY <1>1, <1>2

\* A byte of a length is a natural number.
LEMMA ByteType == \A n \in Nat : \A w \in Nat \ {0} : Byte(n, w) \in Nat
  <1> TAKE n \in Nat
  <1> TAKE w \in Nat \ {0}
  <1>1. n \div w \in Nat  BY Z3
  <1>2. (n \div w) % 256 \in Nat  BY <1>1, DivMod256
  <1>3. QED  BY <1>2 DEF Byte

\* The two bytes of a length below 2^16 give it back.
LEMMA TwoBytes ==
  ASSUME NEW n \in Nat, n <= 65535
  PROVE  Byte(n, 256) * 256 + Byte(n, 1) = n
  <1>1. n \div 1 = n  BY Z3
  <1>2. n \div 256 \in 0..255  BY Z3
  <1>3. (n \div 256) % 256 = n \div 256  BY <1>2, Z3
  <1>4. n = 256 * (n \div 256) + (n % 256)  BY DivMod256
  <1>5. n \div 256 \in Nat /\ n % 256 \in Nat  BY DivMod256
  <1>6. QED  BY <1>1, <1>3, <1>4, <1>5 DEF Byte

\* The four bytes of a nonnegative int32_t give it back.
LEMMA FourBytes ==
  ASSUME NEW n \in Nat, n <= 2147483647
  PROVE  ((Byte(n, 16777216) * 256 + Byte(n, 65536)) * 256 + Byte(n, 256)) * 256 + Byte(n, 1) = n
  <1> DEFINE a == n \div 256
             b == a \div 256
             c == b \div 256
  <1>1. a \in Nat /\ n % 256 \in Nat /\ n = 256 * a + (n % 256)  BY DivMod256
  <1>2. b \in Nat /\ a % 256 \in Nat /\ a = 256 * b + (a % 256)  BY <1>1, DivMod256
  <1>3. c \in Nat /\ b % 256 \in Nat /\ b = 256 * c + (b % 256)  BY <1>2, DivMod256
  <1>4. n \div 1 = n /\ n \div 65536 = b /\ n \div 16777216 = c
    <2>1. n \div 1 = n  BY Z3
    <2>2. QED  BY <2>1, DivDiv256
  <1>5. c % 256 = c
    <2>1. n \div 16777216 <= 127  BY SMT
    <2>2. c <= 127  BY <1>4, <2>1
    <2> HIDE DEF c
    <2>3. QED  BY <1>3, <2>2, Z3
  <1>6. /\ Byte(n, 16777216) = c /\ Byte(n, 65536) = b % 256
        /\ Byte(n, 256) = a % 256 /\ Byte(n, 1) = n % 256
    BY <1>4, <1>5 DEF Byte
  <1> HIDE DEF a, b, c
  <1>7. ((c * 256 + (b % 256)) * 256 + (a % 256)) * 256 + (n % 256) = n
    <2>1. c * 256 + (b % 256) = b  BY <1>3
    <2>2. b * 256 + (a % 256) = a  BY <1>2
    <2>3. a * 256 + (n % 256) = n  BY <1>1
    <2>4. QED  BY <2>1, <2>2, <2>3
  <1>8. QED  BY <1>6, <1>7

\* What _send_ws_binary_frame puts before a message of len bytes is a whole
\* header, and a client reads len from it: at 125, 126, 65535 and 65536, where
\* the form changes, and everywhere else.
THEOREM HeaderDeclares ==
  ASSUME NEW len \in Nat, len <= 2147483647
  PROVE  /\ Header(len) \in Seq(Nat)
         /\ Len(Header(len)) >= 2 /\ Len(Header(len)) = HeaderSize(Header(len))
         /\ Declared(Header(len)) = len
  <1>b. Byte(len, 1) \in Nat /\ Byte(len, 256) \in Nat /\ Byte(len, 65536) \in Nat /\ Byte(len, 16777216) \in Nat
    BY ByteType, SMT
  <1>1. CASE len <= 125
    <2>1. Header(len) = <<130, len>>  BY <1>1 DEF Header
    <2>2. QED  BY <1>1, <2>1 DEF Declared, HeaderSize
  <1>2. CASE len > 125 /\ len <= 65535
    <2> DEFINE h == Header(len)
    <2>1. h = <<130, 126, Byte(len, 256), Byte(len, 1)>>  BY <1>2 DEF Header, Byte
    <2> HIDE DEF h
    <2>2. /\ h \in Seq(Nat) /\ Len(h) = 4
          /\ h[2] = 126 /\ h[3] = Byte(len, 256) /\ h[4] = Byte(len, 1)
      BY <1>b, <2>1
    <2>3. Declared(h) = len  BY <1>2, <2>2, TwoBytes DEF Declared
    <2>4. HeaderSize(h) = 4  BY <2>2 DEF HeaderSize
    <2>5. QED  BY <2>2, <2>3, <2>4 DEF h
  <1>3. CASE len > 65535
    <2> DEFINE h == Header(len)
    <2>1. h = <<130, 127, 0, 0, 0, 0, Byte(len, 16777216), Byte(len, 65536), Byte(len, 256), Byte(len, 1)>>
      BY <1>3 DEF Header, Byte
    <2> HIDE DEF h
    <2>2. /\ h \in Seq(Nat) /\ Len(h) = 10
          /\ h[2] = 127 /\ h[7] = Byte(len, 16777216) /\ h[8] = Byte(len, 65536)
          /\ h[9] = Byte(len, 256) /\ h[10] = Byte(len, 1)
      BY <1>b, <2>1
    <2>3. Declared(h) = len  BY <2>2, FourBytes DEF Declared
    <2>4. HeaderSize(h) = 10  BY <2>2 DEF HeaderSize
    <2>5. QED  BY <2>2, <2>3, <2>4 DEF h
  <1>4. QED  BY <1>1, <1>2, <1>3

-----------------------------------------------------------------------------
(* The descriptors that attach and the object hold. *)

\* Which descriptors belong to the call under way and which to the object: attach
\* holds a listener of its own or the object's, and never beside a client.
HeldOK ==
    /\ call.at \in {"idle", "disposed", "header", "payload"} => call.listen_fd = 0 /\ call.client_fd = 0
    /\ call.at \in {"accept", "handshake", "respond"} => self.client_fd = 0
    /\ call.at = "accept" => call.client_fd = 0 /\ (call.listen_fd # 0 => self.listen_fd = 0)
    /\ call.at \in {"handshake", "respond"} =>
          /\ call.client_fd \in Conns /\ conns[call.client_fd].end = "open"
          /\ self.listen_fd \in {0, call.listen_fd}
    /\ call.at \in {"header", "payload"} => self.client_fd \in Conns /\ call.len \in Lengths
    /\ call.at = "payload" => call.len > 0
    /\ self.client_fd # 0 => conns[self.client_fd].end = "open"

\* A report after the client's FIN had arrived was the last of that connection: no
\* write is under way on it, and the next one will find the client gone.
SilenceOK ==
    \A c \in Conns :
        /\ unseen[c] <= 1
        /\ unseen[c] # 0 => /\ conns[c].client = "closed"
                            /\ ~(self.client_fd = c /\ call.at \in {"header", "payload"})

\* The inductive invariant of the descriptors.
SocketInv == TypeOK /\ HeldOK /\ NoSocketLeak /\ SilenceOK

\* The sizes are natural numbers.
LEMMA Sizes == /\ RequestMax \in Nat \ {0} /\ MaxBinds \in Nat \ {0} /\ MaxConns \in Nat \ {0}
               /\ MaxWrites \in Nat /\ MaxEnables \in Nat
  BY BoundsAssumption

\* A message has a length that fits an int32_t.
LEMMA LengthFits == \A len \in Lengths \union {0} : len \in Nat /\ len <= 2147483647
  BY LengthsAssumption, SMT

\* The initial state satisfies the invariant.
LEMMA SocketInit == Init => SocketInv
  <1> SUFFICES ASSUME Init PROVE SocketInv
    OBVIOUS
  <1>1. TypeOK
    <2>1. self \in SelfType
      <3>1. PICK b \in BOOLEAN : self = [listen_fd |-> 0, client_fd |-> 0, is_connected |-> FALSE,
                                         write_enabled |-> TRUE, timed |-> b]
        BY DEF Init
      <3>2. 0 \in 0 .. MaxBinds /\ 0 \in 0 .. MaxConns  BY Sizes
      <3>3. QED  BY <3>1, <3>2 DEF SelfType
    <2>2. call \in CallType
      BY Sizes DEF Init, Idle, CallType
    <2>3. unseen \in [Conns -> Nat] /\ reported \in [Conns -> Seq(Lengths)]
      BY DEF Init
    <2>4. conns \in [Conns -> ConnType]  BY DEF Init, ConnType
    <2>5. QED  BY <2>1, <2>2, <2>3, <2>4, Sizes DEF Init, TypeOK
  <1>2. HeldOK  BY DEF Init, HeldOK, Idle
  <1>3. NoSocketLeak  BY DEF Init, NoSocketLeak
  <1>4. SilenceOK  BY DEF Init, SilenceOK
  <1>5. QED  BY <1>1, <1>2, <1>3, <1>4 DEF SocketInv

\* What closing a listener and a connection does to the sockets.
LEMMA CloseEffect ==
  ASSUME TypeOK, NEW l \in 0 .. MaxBinds, NEW c \in 0 .. MaxConns, Close(l, c)
  PROVE  /\ listeners' = listeners \ {l} /\ listeners' \subseteq 1 .. binds
         /\ conns' \in [Conns -> ConnType]
         /\ \A d \in Conns : /\ conns'[d].client = conns[d].client
                             /\ conns'[d].end \in {conns[d].end, "closed"}
                             /\ d = c => conns'[d].end = "closed"
                             /\ conns[d].end = "open" /\ d # c => conns'[d].end = "open"
  <1>1. listeners' = listeners \ {l} /\ listeners' \subseteq 1 .. binds
    BY DEF Close, TypeOK
  <1>2. \A d \in Conns : conns'[d] = IF d = c \/ (conns[d].end = "queued" /\ l \in listeners)
                                    THEN [conns[d] EXCEPT !.end = "closed", !.inbox = "empty"] ELSE conns[d]
    BY DEF Close
  <1>3. DOMAIN conns' = Conns /\ conns' = [d \in Conns |-> conns'[d]]  BY DEF Close
  <1>4. \A d \in Conns : conns[d] \in ConnType
    BY DEF TypeOK
  <1>5. ASSUME NEW d \in Conns
        PROVE  /\ conns'[d] \in ConnType /\ conns'[d].client = conns[d].client
               /\ conns'[d].end \in {conns[d].end, "closed"}
               /\ d = c => conns'[d].end = "closed"
               /\ conns[d].end = "open" /\ d # c => conns'[d].end = "open"
    <2>1. CASE d = c \/ (conns[d].end = "queued" /\ l \in listeners)
      <3>1. conns'[d] = [conns[d] EXCEPT !.end = "closed", !.inbox = "empty"]  BY <1>2, <2>1
      <3>2. QED  BY <1>4, <2>1, <3>1 DEF ConnType
    <2>2. CASE ~(d = c \/ (conns[d].end = "queued" /\ l \in listeners))
      <3>1. conns'[d] = conns[d]  BY <1>2, <2>2
      <3>2. QED  BY <1>4, <2>2, <3>1
    <2>3. QED  BY <2>1, <2>2
  <1>6. conns' \in [Conns -> ConnType]  BY <1>3, <1>5
  <1>7. QED  BY <1>1, <1>5, <1>6

\* The cleanup of attach, and of the accept that could not set an option.
LEMMA AttachFailsStep ==
  ASSUME SocketInv, call.at \in {"accept", "handshake", "respond"}, NEW c \in 0 .. MaxConns,
         c # call.client_fd => call.client_fd = 0,
         Close(call.listen_fd, c), call' = Idle, UNCHANGED <<self, binds, sent, writes, enables>>
  PROVE  SocketInv'
  <1>t. TypeOK  BY DEF SocketInv
  <1>1. call.listen_fd \in 0 .. MaxBinds  BY <1>t DEF TypeOK, CallType
  <1>2. /\ listeners' = listeners \ {call.listen_fd} /\ listeners' \subseteq 1 .. binds
        /\ conns' \in [Conns -> ConnType]
        /\ \A d \in Conns : /\ conns'[d].client = conns[d].client
                            /\ conns'[d].end \in {conns[d].end, "closed"}
                            /\ d = c => conns'[d].end = "closed"
                            /\ conns[d].end = "open" /\ d # c => conns'[d].end = "open"
    BY <1>t, <1>1, CloseEffect
  <1>3. TypeOK'
    <2>1. Idle \in CallType  BY Sizes DEF Idle, CallType
    <2>2. QED  BY <1>t, <1>2, <2>1 DEF TypeOK, sent
  <1>4. HeldOK'  BY DEF SocketInv, HeldOK, Idle
  <1>5. NoSocketLeak'
    <2>1. listeners' \subseteq {self.listen_fd}
      BY <1>2 DEF SocketInv, NoSocketLeak
    <2>2. \A d \in Conns : conns'[d].end = "open" => conns[d].end = "open" /\ d # c
      BY <1>2
    <2>3. \A d \in Conns : conns'[d].end = "open" => d = self.client_fd
      BY <2>2 DEF SocketInv, NoSocketLeak, Conns
    <2>4. QED  BY <2>1, <2>3 DEF NoSocketLeak
  <1>6. SilenceOK'  BY <1>2 DEF SocketInv, SilenceOK, Idle, sent
  <1>7. QED  BY <1>3, <1>4, <1>5, <1>6 DEF SocketInv

\* The cleanup of write.
LEMMA WriteFailsStep ==
  ASSUME SocketInv, self.client_fd \in Conns, call.listen_fd = 0, call.client_fd = 0, WriteFails,
         UNCHANGED <<reported, unseen>>
  PROVE  SocketInv'
  <1>t. TypeOK  BY DEF SocketInv
  <1>1. 0 \in 0 .. MaxBinds /\ self.client_fd \in 0 .. MaxConns  BY <1>t, Sizes DEF TypeOK, SelfType
  <1>2. /\ listeners' = listeners \ {0} /\ listeners' \subseteq 1 .. binds
        /\ conns' \in [Conns -> ConnType]
        /\ \A d \in Conns : /\ conns'[d].client = conns[d].client
                            /\ conns'[d].end \in {conns[d].end, "closed"}
                            /\ d = self.client_fd => conns'[d].end = "closed"
                            /\ conns[d].end = "open" /\ d # self.client_fd => conns'[d].end = "open"
    BY <1>t, <1>1, CloseEffect DEF WriteFails
  <1>3. self' = [self EXCEPT !.is_connected = FALSE, !.client_fd = 0] /\ call' = Idle
    BY DEF WriteFails
  <1>4. TypeOK'
    <2>0. 0 \in 0 .. MaxConns  BY Sizes
    <2>1. self' \in SelfType  BY <1>t, <1>3, <2>0 DEF TypeOK, SelfType
    <2>2. call' \in CallType  BY <1>3, Sizes DEF Idle, CallType
    <2>3. QED  BY <1>t, <1>2, <2>1, <2>2 DEF WriteFails, TypeOK
  <1>5. self'.client_fd = 0 /\ self'.listen_fd = self.listen_fd  BY <1>3, <1>t DEF TypeOK, SelfType
  <1>6. HeldOK'  BY <1>3, <1>5 DEF HeldOK, Idle
  <1>7. NoSocketLeak'
    BY <1>2, <1>3, <1>5 DEF SocketInv, NoSocketLeak, Idle
  <1>8. SilenceOK'  BY <1>2, <1>3, <1>5 DEF SocketInv, SilenceOK, Idle
  <1>9. QED  BY <1>4, <1>6, <1>7, <1>8 DEF SocketInv

\* detach and dispose close what the object holds.
LEMMA DetachStep ==
  ASSUME SocketInv, call.at = "idle", Close(self.listen_fd, self.client_fd),
         self'.client_fd = 0, self'.listen_fd = 0, call'.at \in {"idle", "disposed"},
         call'.listen_fd = 0, call'.client_fd = 0, TypeOK', UNCHANGED <<binds, sent, writes, enables>>
  PROVE  SocketInv'
  <1>t. TypeOK  BY DEF SocketInv
  <1>1. self.listen_fd \in 0 .. MaxBinds /\ self.client_fd \in 0 .. MaxConns  BY <1>t DEF TypeOK, SelfType
  <1>2. /\ listeners' = listeners \ {self.listen_fd} /\ listeners' \subseteq 1 .. binds
        /\ \A d \in Conns : /\ conns'[d].client = conns[d].client
                            /\ conns'[d].end \in {conns[d].end, "closed"}
                            /\ d = self.client_fd => conns'[d].end = "closed"
    BY <1>t, <1>1, CloseEffect
  <1>3. HeldOK'  BY DEF HeldOK
  <1>4. NoSocketLeak'
    BY <1>2 DEF SocketInv, HeldOK, NoSocketLeak, Conns
  <1>5. SilenceOK'  BY <1>2 DEF SocketInv, SilenceOK, sent
  <1>6. QED  BY <1>3, <1>4, <1>5 DEF SocketInv

\* Clients change what waits on their connections and close their ends.
LEMMA ClientStep ==
  ASSUME SocketInv, conns' \in [Conns -> ConnType], UNCHANGED <<self, call, listeners, binds, sent, writes, enables>>,
         \A d \in Conns : /\ conns[d].end = "open" => conns'[d].end = "open"
                          /\ conns'[d].end = "open" => conns[d].end = "open"
                          /\ conns[d].client = "closed" => conns'[d].client = "closed"
  PROVE  SocketInv'
  <1>1. TypeOK'  BY DEF SocketInv, TypeOK, sent
  <1>2. self.client_fd # 0 => self.client_fd \in Conns
    <2>1. self.client_fd \in 0 .. MaxConns  BY DEF SocketInv, TypeOK, SelfType
    <2>2. QED  BY <2>1, Sizes DEF Conns
  <1>u. self' = self /\ call' = call /\ listeners' = listeners /\ unseen' = unseen  BY DEF sent
  <1>3. HeldOK'  BY <1>2, <1>u DEF SocketInv, HeldOK
  <1>4. NoSocketLeak'
    <2>1. {c \in Conns : conns'[c].end = "open"} \subseteq {c \in Conns : conns[c].end = "open"}
      OBVIOUS
    <2>2. QED  BY <1>u, <2>1 DEF SocketInv, NoSocketLeak
  <1>5. SilenceOK'  BY <1>u DEF SocketInv, SilenceOK
  <1>6. QED  BY <1>1, <1>3, <1>4, <1>5 DEF SocketInv

\* Every step preserves the invariant.
LEMMA SocketStep == SocketInv /\ [Next]_vars => SocketInv'
  <1> SUFFICES ASSUME SocketInv, [Next]_vars PROVE SocketInv'
    OBVIOUS
  <1>t. TypeOK  BY DEF SocketInv
  <1>i. Idle \in CallType /\ Idle.at = "idle" /\ Idle.listen_fd = 0 /\ Idle.client_fd = 0
    BY Sizes DEF Idle, CallType
  <1>r. \A c \in Conns : conns[c] \in ConnType  BY <1>t DEF TypeOK
  <1>1. ASSUME NEW c \in Conns, ClientConnects(c)  PROVE SocketInv'
    <2>1. conns' = [conns EXCEPT ![c] = [conns[c] EXCEPT !.end = "queued"]] /\ conns[c].end = "none"
      BY <1>1 DEF ClientConnects
    <2>2. conns' \in [Conns -> ConnType]  BY <1>t, <1>r, <2>1 DEF TypeOK, ConnType
    <2>3. \A d \in Conns : /\ conns[d].end = "open" => conns'[d].end = "open"
                          /\ conns'[d].end = "open" => conns[d].end = "open"
                          /\ conns'[d].client = conns[d].client
      BY <1>t, <1>r, <2>1 DEF TypeOK, ConnType
    <2>4. QED  BY <1>1, <2>2, <2>3, ClientStep DEF ClientConnects
  <1>2. ASSUME NEW c \in Conns, ClientSends(c)  PROVE SocketInv'
    <2>1. PICK what \in {"piece", "good", "bad", "frame"} :
             conns' = [conns EXCEPT ![c] = [conns[c] EXCEPT !.inbox = what]]
      BY <1>2 DEF ClientSends, Verdicts
    <2>2. conns' \in [Conns -> ConnType]  BY <1>t, <1>r, <2>1 DEF TypeOK, ConnType
    <2>3. \A d \in Conns : conns'[d].end = conns[d].end /\ conns'[d].client = conns[d].client
      BY <1>t, <1>r, <2>1 DEF TypeOK, ConnType
    <2>4. QED  BY <1>2, <2>2, <2>3, ClientStep DEF ClientSends
  <1>3. ASSUME NEW c \in Conns, ClientCloses(c) \/ CloseArrives(c) \/ ConnectionBreaks(c)  PROVE SocketInv'
    <2>1. PICK how \in {"closing", "closed", "reset"} :
             /\ conns' = [conns EXCEPT ![c] = [conns[c] EXCEPT !.client = how]]
             /\ conns[c].client # "closed"
      BY <1>3 DEF ClientCloses, CloseArrives, ConnectionBreaks
    <2>2. conns' \in [Conns -> ConnType]  BY <1>t, <1>r, <2>1 DEF TypeOK, ConnType
    <2>3. \A d \in Conns : /\ conns'[d].end = conns[d].end
                          /\ conns[d].client = "closed" => conns'[d].client = "closed"
      <3>1. \A d \in Conns : d # c => conns'[d] = conns[d]  BY <1>t, <2>1 DEF TypeOK
      <3>2. conns'[c].end = conns[c].end  BY <1>t, <1>r, <2>1 DEF TypeOK, ConnType
      <3>3. QED  BY <2>1, <3>1, <3>2
    <2>4. CASE ClientCloses(c)  BY <2>2, <2>3, <2>4, ClientStep DEF ClientCloses
    <2>5. CASE CloseArrives(c)  BY <2>2, <2>3, <2>5, ClientStep DEF CloseArrives
    <2>6. CASE ConnectionBreaks(c)  BY <2>2, <2>3, <2>6, ClientStep DEF ConnectionBreaks
    <2>7. QED  BY <1>3, <2>4, <2>5, <2>6
  <1>4. CASE AttachBinds
    <2>1. /\ call.at = "idle" /\ self.client_fd = 0 /\ self.listen_fd = 0
          /\ binds' = binds + 1 /\ binds' \in 0 .. MaxBinds /\ listeners' = listeners \union {binds'}
          /\ UNCHANGED <<self, conns, sent, writes, enables>>
      BY <1>4, <1>t, Sizes DEF AttachBinds, TypeOK
    <2>2. call' \in CallType /\ call'.at = "accept" /\ call'.listen_fd = binds' /\ call'.client_fd = 0
      <3>1. call' = [Idle EXCEPT !.at = "accept", !.listen_fd = binds']  BY <1>4, <2>1 DEF AttachBinds
      <3>2. QED  BY <1>i, <2>1, <3>1 DEF CallType
    <2>3. listeners = {}
      BY <1>t, <2>1, Sizes DEF SocketInv, HeldOK, NoSocketLeak, TypeOK
    <2>4. TypeOK'  BY <1>t, <2>1, <2>2, <2>3 DEF TypeOK, sent
    <2>5. HeldOK'  BY <2>1, <2>2 DEF HeldOK
    <2>6. NoSocketLeak'  BY <2>1, <2>2, <2>3 DEF SocketInv, HeldOK, NoSocketLeak
    <2>7. SilenceOK'  BY <2>1, <2>2 DEF SocketInv, SilenceOK, sent
    <2>8. QED  BY <2>4, <2>5, <2>6, <2>7 DEF SocketInv
  <1>5. CASE AttachReuses
    <2>1. call.at = "idle" /\ self.client_fd = 0 /\ UNCHANGED <<self, listeners, binds, conns, sent, writes, enables>>
      BY <1>5 DEF AttachReuses
    <2>2. call' \in CallType /\ call'.at = "accept" /\ call'.listen_fd = 0 /\ call'.client_fd = 0
      BY <1>5, <1>i DEF AttachReuses, CallType
    <2>3. TypeOK'  BY <1>t, <2>1, <2>2 DEF TypeOK, sent
    <2>4. HeldOK'  BY <2>1, <2>2 DEF HeldOK
    <2>5. NoSocketLeak'  BY <2>1, <2>2 DEF SocketInv, HeldOK, NoSocketLeak
    <2>6. SilenceOK'  BY <2>1, <2>2 DEF SocketInv, SilenceOK, sent
    <2>7. QED  BY <2>3, <2>4, <2>5, <2>6 DEF SocketInv
  <1>6. ASSUME NEW c \in Conns, AttachAccepts(c)  PROVE SocketInv'
    <2>1. /\ call.at = "accept" /\ Listener \in listeners /\ Listener \in 0 .. MaxBinds
          /\ call.client_fd = 0 /\ self.client_fd = 0 /\ (call.listen_fd # 0 => self.listen_fd = 0)
          /\ UNCHANGED <<self, listeners, binds, sent, writes, enables>>
      BY <1>6, <1>t DEF AttachAccepts, Listener, SocketInv, HeldOK, TypeOK, SelfType, CallType
    <2>2. call' \in CallType /\ call'.at = "handshake" /\ call'.listen_fd = Listener /\ call'.client_fd = c
      <3>1. c \in 0 .. MaxConns  BY Sizes DEF Conns
      <3>2. QED  BY <1>6, <1>t, <2>1, <3>1 DEF AttachAccepts, TypeOK, CallType
    <2>3. conns' = [conns EXCEPT ![c] = [conns[c] EXCEPT !.end = "open"]]  BY <1>6 DEF AttachAccepts
    <2>4. conns' \in [Conns -> ConnType]  BY <1>t, <1>r, <2>3 DEF TypeOK, ConnType
    <2>5. /\ conns'[c].end = "open"
          /\ \A d \in Conns : /\ d # c => conns'[d].end = conns[d].end
                              /\ conns'[d].client = conns[d].client
      BY <1>t, <1>r, <2>3 DEF TypeOK, ConnType
    <2>6. TypeOK'  BY <1>t, <2>1, <2>2, <2>4 DEF TypeOK, sent
    <2>7. HeldOK'  BY <2>1, <2>2, <2>5 DEF HeldOK, Listener
    <2>8. NoSocketLeak'
      <3>1. listeners' \subseteq {self'.listen_fd, call'.listen_fd}
        BY <1>t, <2>1, <2>2 DEF SocketInv, NoSocketLeak, Listener, TypeOK
      <3>2. \A d \in Conns : conns[d].end # "open"
        BY <2>1 DEF SocketInv, NoSocketLeak, Conns
      <3>3. \A d \in Conns : conns'[d].end = "open" => d = c  BY <2>5, <3>2
      <3>4. QED  BY <2>2, <3>1, <3>3 DEF NoSocketLeak
    <2>9. SilenceOK'  BY <2>1, <2>2, <2>5 DEF SocketInv, SilenceOK, sent
    <2>10. QED  BY <2>6, <2>7, <2>8, <2>9 DEF SocketInv
  <1>7. CASE HandshakePiece \/ HandshakeDone
    <2>1. /\ call.at = "handshake" /\ UNCHANGED <<self, listeners, binds, sent, writes, enables>>
          /\ conns' = [conns EXCEPT ![call.client_fd] = [conns[call.client_fd] EXCEPT !.inbox = "empty"]]
      BY <1>7 DEF HandshakePiece, HandshakeDone, Received
    <2>2. call.client_fd \in Conns  BY <2>1 DEF SocketInv, HeldOK
    <2>3. /\ call' \in CallType /\ call'.at \in {"handshake", "respond"}
          /\ call'.listen_fd = call.listen_fd /\ call'.client_fd = call.client_fd
      <3>1. CASE HandshakeDone  BY <1>t, <2>1, <3>1 DEF HandshakeDone, TypeOK, CallType
      <3>2. CASE HandshakePiece
        <4>1. call.used + 1 \in 0 .. RequestMax  BY <1>t, <3>2, Sizes DEF HandshakePiece, TypeOK, CallType
        <4>2. QED  BY <1>t, <2>1, <3>2, <4>1 DEF HandshakePiece, TypeOK, CallType
      <3>3. QED  BY <1>7, <3>1, <3>2
    <2>4. conns' \in [Conns -> ConnType]  BY <1>t, <1>r, <2>1, <2>2 DEF TypeOK, ConnType
    <2>5. \A d \in Conns : conns'[d].end = conns[d].end /\ conns'[d].client = conns[d].client
      BY <1>t, <1>r, <2>1, <2>2 DEF TypeOK, ConnType
    <2>6. TypeOK'  BY <1>t, <2>1, <2>3, <2>4 DEF TypeOK, sent
    <2>7. HeldOK'  BY <2>1, <2>2, <2>3, <2>5 DEF SocketInv, HeldOK
    <2>8. NoSocketLeak'  BY <2>1, <2>3, <2>5 DEF SocketInv, NoSocketLeak
    <2>9. SilenceOK'  BY <2>1, <2>3, <2>5 DEF SocketInv, SilenceOK, sent
    <2>10. QED  BY <2>6, <2>7, <2>8, <2>9 DEF SocketInv
  <1>8. CASE Respond
    <2>1. call.at = "respond" /\ call' = Idle /\ UNCHANGED <<listeners, binds, conns, sent, writes, enables>>
      BY <1>8 DEF Respond
    <2>2. self' \in SelfType /\ self'.listen_fd = call.listen_fd /\ self'.client_fd = call.client_fd
      BY <1>8, <1>t DEF Respond, TypeOK, SelfType, CallType
    <2>3. /\ call.client_fd \in Conns /\ conns[call.client_fd].end = "open"
          /\ self.listen_fd \in {0, call.listen_fd} /\ self.client_fd = 0
      BY <2>1 DEF SocketInv, HeldOK
    <2>4. TypeOK'  BY <1>t, <1>i, <2>1, <2>2 DEF TypeOK, sent
    <2>5. HeldOK'  BY <1>i, <2>1, <2>2, <2>3 DEF HeldOK
    <2>6. NoSocketLeak'
      <3>1. 0 \notin listeners /\ 0 \notin Conns  BY <1>t DEF TypeOK, Conns
      <3>2. QED  BY <1>i, <2>1, <2>2, <2>3, <3>1 DEF SocketInv, NoSocketLeak
    <2>7. SilenceOK'  BY <1>i, <2>1 DEF SocketInv, SilenceOK, sent
    <2>8. QED  BY <2>4, <2>5, <2>6, <2>7 DEF SocketInv
  <1>9. ASSUME NEW len \in Lengths, Write(len)  PROVE SocketInv'
    <2>1. /\ call.at = "idle" /\ self.client_fd \in Conns /\ call.listen_fd = 0 /\ call.client_fd = 0
      BY <1>t, <1>9, Sizes DEF Write, SocketInv, HeldOK, TypeOK, SelfType, Conns
    <2>2. CASE /\ Alive(self.client_fd) /\ call' = [Idle EXCEPT !.at = "header", !.len = len]
               /\ writes < MaxWrites /\ writes' = writes + 1
               /\ UNCHANGED <<self, listeners, binds, conns, sent, enables>>
      <3>1. /\ call' \in CallType /\ call'.at = "header" /\ call'.len = len
            /\ call'.listen_fd = 0 /\ call'.client_fd = 0
        BY <1>i, <2>2 DEF CallType
      <3>2. writes' \in 0 .. MaxWrites  BY <1>t, <2>2, Sizes DEF TypeOK
      <3>3. TypeOK'  BY <1>t, <2>2, <3>1, <3>2 DEF TypeOK, sent
      <3>4. HeldOK'  BY <2>1, <2>2, <3>1 DEF SocketInv, HeldOK
      <3>5. NoSocketLeak'  BY <2>1, <2>2, <3>1 DEF SocketInv, NoSocketLeak
      <3>6. SilenceOK'  BY <2>2, <2>1 DEF SocketInv, SilenceOK, Alive, sent
      <3>7. QED  BY <3>3, <3>4, <3>5, <3>6 DEF SocketInv
    <2>3. CASE WriteFails /\ UNCHANGED sent
      BY <2>1, <2>3, WriteFailsStep DEF sent
    <2>4. QED  BY <1>9, <2>2, <2>3 DEF Write
  <1>10. CASE SendHeader \/ SendPayload
    <2>1. /\ call.at \in {"header", "payload"} /\ UNCHANGED <<self, listeners, binds, conns, writes, enables>>
          /\ self.client_fd \in Conns /\ call.listen_fd = 0 /\ call.client_fd = 0
      BY <1>10 DEF SendHeader, SendPayload, SocketInv, HeldOK
    <2>2. CASE Reports(self.client_fd)
      <3>1. call.len \in Lengths  BY <2>1 DEF SocketInv, HeldOK
      <3>2. /\ unseen[self.client_fd] = 0
            /\ \A d \in Conns : d # self.client_fd => unseen'[d] = unseen[d]
            /\ unseen'[self.client_fd] = IF conns[self.client_fd].client = "closed" THEN 1 ELSE 0
        BY <1>t, <2>1, <2>2 DEF Reports, SocketInv, SilenceOK, TypeOK
      <3>3. unseen' \in [Conns -> Nat]  BY <1>t, <2>1, <2>2 DEF Reports, TypeOK
      <3>4. reported' \in [Conns -> Seq(Lengths)]  BY <1>t, <2>1, <2>2, <3>1 DEF Reports, TypeOK
      <3>5. TypeOK'  BY <1>t, <1>i, <2>1, <2>2, <3>3, <3>4 DEF Reports, TypeOK
      <3>6. HeldOK'  BY <1>i, <2>1, <2>2 DEF Reports, SocketInv, HeldOK
      <3>7. NoSocketLeak'  BY <1>i, <2>1, <2>2 DEF Reports, SocketInv, NoSocketLeak
      <3>8. SilenceOK'  BY <1>i, <2>1, <2>2, <3>2 DEF Reports, SocketInv, SilenceOK
      <3>9. QED  BY <3>5, <3>6, <3>7, <3>8 DEF SocketInv
    <2>3. CASE call.len > 0 /\ call' = [call EXCEPT !.at = "payload"] /\ UNCHANGED <<reported, unseen>>
      <3>1. /\ call' \in CallType /\ call'.at = "payload" /\ call'.listen_fd = 0 /\ call'.client_fd = 0
            /\ call'.len = call.len
        BY <1>t, <2>1, <2>3 DEF TypeOK, CallType
      <3>2. TypeOK'  BY <1>t, <2>1, <2>3, <3>1 DEF TypeOK
      <3>3. HeldOK'  BY <2>1, <2>3, <3>1 DEF SocketInv, HeldOK
      <3>4. NoSocketLeak'  BY <2>1, <3>1 DEF SocketInv, NoSocketLeak
      <3>5. SilenceOK'  BY <2>1, <2>3, <3>1 DEF SocketInv, SilenceOK
      <3>6. QED  BY <3>2, <3>3, <3>4, <3>5 DEF SocketInv
    <2>4. QED  BY <1>10, <2>2, <2>3 DEF SendHeader, SendPayload
  <1>11. CASE SendFails
    BY <1>11, WriteFailsStep DEF SendFails, SocketInv, HeldOK
  <1>12. CASE AttachAcceptFails \/ HandshakeFails \/ RespondFails
    <2>1. call.client_fd \in 0 .. MaxConns  BY <1>t DEF TypeOK, CallType
    <2>2. call.at \in {"accept", "handshake", "respond"} /\ AttachFails
      BY <1>12 DEF AttachAcceptFails, HandshakeFails, RespondFails
    <2>3. QED  BY <2>1, <2>2, AttachFailsStep DEF AttachFails
  <1>13. ASSUME NEW c \in Conns, AttachOptionFails(c)  PROVE SocketInv'
    <2>1. c \in 0 .. MaxConns  BY Sizes DEF Conns
    <2>2. call.at = "accept" /\ call.client_fd = 0  BY <1>13 DEF AttachOptionFails, SocketInv, HeldOK
    <2>3. QED  BY <1>13, <2>1, <2>2, AttachFailsStep DEF AttachOptionFails
  <1>14. ASSUME NEW enabled \in BOOLEAN, Enable(enabled)  PROVE SocketInv'
    <2>1. enables' \in 0 .. MaxEnables /\ UNCHANGED <<call, listeners, binds, conns, sent, writes>>
      BY <1>14, <1>t, Sizes DEF Enable, TypeOK
    <2>2. self' \in SelfType /\ self'.listen_fd = self.listen_fd /\ self'.client_fd = self.client_fd
      BY <1>14, <1>t DEF Enable, TypeOK, SelfType
    <2>3. TypeOK'  BY <1>t, <2>1, <2>2 DEF TypeOK, sent
    <2>4. HeldOK'  BY <2>1, <2>2 DEF SocketInv, HeldOK
    <2>5. NoSocketLeak'  BY <2>1, <2>2 DEF SocketInv, NoSocketLeak
    <2>6. SilenceOK'  BY <2>1, <2>2 DEF SocketInv, SilenceOK, sent
    <2>7. QED  BY <2>3, <2>4, <2>5, <2>6 DEF SocketInv
  <1>15. CASE Detach \/ Dispose
    <2>1. /\ call.at = "idle" /\ call.listen_fd = 0 /\ call.client_fd = 0
          /\ Close(self.listen_fd, self.client_fd) /\ UNCHANGED <<binds, sent, writes, enables>>
      BY <1>15 DEF Detach, Dispose, SocketInv, HeldOK
    <2>2. listeners' \subseteq 1 .. binds /\ conns' \in [Conns -> ConnType]
      <3>1. self.listen_fd \in 0 .. MaxBinds /\ self.client_fd \in 0 .. MaxConns  BY <1>t DEF TypeOK, SelfType
      <3>2. QED  BY <1>t, <2>1, <3>1, CloseEffect
    <2>3. self' \in SelfType /\ self'.client_fd = 0 /\ self'.listen_fd = 0
      <3>1. 0 \in 0 .. MaxConns /\ 0 \in 0 .. MaxBinds  BY Sizes
      <3>2. CASE Detach  BY <1>t, <3>1, <3>2 DEF Detach, TypeOK, SelfType
      <3>3. CASE Dispose  BY <1>t, <3>1, <3>3 DEF Dispose, TypeOK, SelfType
      <3>4. QED  BY <1>15, <3>2, <3>3
    <2>4. call' \in CallType /\ call'.at \in {"idle", "disposed"} /\ call'.listen_fd = 0 /\ call'.client_fd = 0
      <3>1. CASE Detach  BY <1>t, <2>1, <3>1 DEF Detach, TypeOK
      <3>2. CASE Dispose  BY <1>i, <3>2 DEF Dispose, CallType
      <3>3. QED  BY <1>15, <3>1, <3>2
    <2>5. TypeOK'  BY <1>t, <2>1, <2>2, <2>3, <2>4 DEF TypeOK, sent
    <2>6. QED  BY <2>1, <2>3, <2>4, <2>5, DetachStep
  <1>16. CASE UNCHANGED vars
    BY <1>16 DEF vars, SocketInv, TypeOK, HeldOK, NoSocketLeak, SilenceOK
  <1>17. QED
    BY <1>1, <1>2, <1>3, <1>4, <1>5, <1>6, <1>7, <1>8, <1>9, <1>10, <1>11, <1>12, <1>13, <1>14, <1>15, <1>16
    DEF Next, Handshake

\* The descriptors stay in their invariant.
THEOREM SocketsCorrect == Spec => []SocketInv
  BY SocketInit, SocketStep, PTL DEF Spec

\* Whatever fails in attach, write, detach and dispose, no socket is left open
\* that neither the object nor the attach under way will close.
THEOREM NoSocketLeakHolds == Spec => []NoSocketLeak
  BY SocketsCorrect, PTL DEF SocketInv

\* The probe of dtiox_linux_websocket_write sees a FIN that has arrived: however
\* long the stream is, at most one message per connection, the one that was under
\* way, is reported after that.
THEOREM OneAfterEndHolds == Spec => []OneAfterEnd
  <1>1. SocketInv => OneAfterEnd  BY DEF SocketInv, SilenceOK, OneAfterEnd
  <1>2. QED  BY <1>1, SocketsCorrect, PTL

-----------------------------------------------------------------------------
(* The frames on the wire. *)

FrameType == [header : Seq(Nat), payload : Nat]

\* The frame of a message that was sent whole, and the frames of a sequence of them.
WholeFrame(len) == [header |-> Header(len), payload |-> len]
Frames(lens) == [i \in DOMAIN lens |-> WholeFrame(lens[i])]

\* The wire carries the frames that write reported, and behind them at most one
\* that is not whole: the one being written, or the last of a closed connection.
WireOK ==
    /\ wire \in [Conns -> Seq(FrameType)]
    /\ \A c \in Conns :
          \/ wire[c] = Frames(reported[c]) /\ ~(self.client_fd = c /\ call.at = "payload")
          \/ \E f \in FrameType :
                /\ ~Whole(f) /\ wire[c] = Append(Frames(reported[c]), f)
                /\ conns[c].end = "closed" \/ (self.client_fd = c /\ call.at = "payload")

\* The last element of a sequence and what comes before it.
LEMMA FrontLast ==
  ASSUME NEW S, NEW q \in Seq(S), NEW e \in S
  PROVE  /\ Append(q, e) # <<>> /\ Append(q, e) \in Seq(S)
         /\ Front(Append(q, e)) = q /\ Last(Append(q, e)) = e
  <1>1. /\ Append(q, e) \in Seq(S) /\ Append(q, e) # <<>> /\ Len(Append(q, e)) = Len(q) + 1
        /\ \A i \in 1 .. Len(q) : Append(q, e)[i] = q[i]
        /\ Append(q, e)[Len(q) + 1] = e
    BY AppendProperties
  <1>2. Last(Append(q, e)) = e  BY <1>1 DEF Last
  <1>3. Front(Append(q, e)) = q
    <2>1. Len(q) \in Nat  BY LenProperties
    <2>2. Front(Append(q, e)) = SubSeq(Append(q, e), 1, Len(q))  BY <1>1, <2>1 DEF Front
    <2>3. /\ SubSeq(Append(q, e), 1, Len(q)) \in Seq(S)
          /\ Len(SubSeq(Append(q, e), 1, Len(q))) = Len(q)
          /\ \A i \in 1 .. Len(q) : SubSeq(Append(q, e), 1, Len(q))[i] = Append(q, e)[i]
      BY <1>1, <2>1
    <2>4. SubSeq(Append(q, e), 1, Len(q)) = q  BY <1>1, <2>3, SeqEqual
    <2>5. QED  BY <2>2, <2>4
  <1>4. QED  BY <1>1, <1>2, <1>3

\* The frame of a message is whole; with another payload, or with less than two
\* bytes of its header, it is not.
LEMMA WholeIsWhole ==
  ASSUME NEW len \in Lengths \union {0}
  PROVE  /\ Whole(WholeFrame(len)) /\ WholeFrame(len) \in FrameType /\ Header(len) \in Seq(Nat)
         /\ \A p \in Nat : p # len => ~Whole([header |-> Header(len), payload |-> p])
  <1>1. len \in Nat /\ len <= 2147483647  BY LengthFits, SMT
  <1>2. /\ Header(len) \in Seq(Nat) /\ Len(Header(len)) >= 2
        /\ Len(Header(len)) = HeaderSize(Header(len)) /\ Declared(Header(len)) = len
    BY <1>1, HeaderDeclares, SMT
  <1> DEFINE f(p) == [header |-> Header(len), payload |-> p]
  <1>3. \A p \in Nat : f(p).header = Header(len) /\ f(p).payload = p  OBVIOUS
  <1>n. len \in Nat  BY <1>1, SMT
  <1>4. \A p \in Nat : Whole(f(p)) <=> p = len
    BY <1>2, <1>3, Zenon DEF Whole
  <1>5. WholeFrame(len) = f(len) /\ WholeFrame(len) \in FrameType
    BY <1>2, <1>n DEF WholeFrame, FrameType
  <1>6. QED  BY <1>2, <1>n, <1>4, <1>5, Zenon

\* A header of which at most one byte went out.
LEMMA TornHeader ==
  ASSUME NEW len \in Lengths \union {0}, NEW n \in {0, 1}
  PROVE  LET f == [header |-> SubSeq(Header(len), 1, n), payload |-> 0]
         IN  f \in FrameType /\ ~Whole(f)
  <1> DEFINE f == [header |-> SubSeq(Header(len), 1, n), payload |-> 0]
  <1>1. Header(len) \in Seq(Nat) /\ Len(Header(len)) >= 2
    <2>1. len \in Nat /\ len <= 2147483647  BY LengthFits, SMT
    <2>2. QED  BY <2>1, HeaderDeclares, SMT
  <1>2. SubSeq(Header(len), 1, n) \in Seq(Nat) /\ Len(SubSeq(Header(len), 1, n)) = n
    BY <1>1
  <1>3. f \in FrameType  BY <1>2 DEF FrameType
  <1>4. ~Whole(f)
    <2>1. f.header = SubSeq(Header(len), 1, n)  OBVIOUS
    <2>2. ~(Len(f.header) >= 2)  BY <1>2, <2>1
    <2>3. QED  BY <2>2 DEF Whole
  <1>5. QED  BY <1>3, <1>4

\* One more report is one more frame.
LEMMA FramesAppend ==
  ASSUME NEW lens \in Seq(Lengths), NEW len \in Lengths
  PROVE  /\ Frames(lens) \in Seq(FrameType) /\ Len(Frames(lens)) = Len(lens)
         /\ Frames(Append(lens, len)) = Append(Frames(lens), WholeFrame(len))
  <1>w. \A l \in Lengths : WholeFrame(l) \in FrameType  BY WholeIsWhole
  <1>1. \A q \in Seq(Lengths) : Frames(q) \in Seq(FrameType) /\ Len(Frames(q)) = Len(q)
                                /\ \A i \in 1 .. Len(q) : Frames(q)[i] = WholeFrame(q[i])
    <2> TAKE q \in Seq(Lengths)
    <2>1. DOMAIN q = 1 .. Len(q) /\ Len(q) \in Nat /\ \A i \in 1 .. Len(q) : q[i] \in Lengths
      BY LenProperties, ElementOfSeq
    <2>2. Frames(q) \in [1 .. Len(q) -> FrameType]  BY <1>w, <2>1 DEF Frames
    <2>3. QED  BY <2>1, <2>2 DEF Frames
  <1> DEFINE q == Append(lens, len)
  <1>2. /\ q \in Seq(Lengths) /\ Len(q) = Len(lens) + 1 /\ Len(lens) \in Nat
        /\ \A i \in 1 .. Len(lens) : q[i] = lens[i]
        /\ q[Len(lens) + 1] = len
    BY AppendProperties, LenProperties
  <1> HIDE DEF q
  <1> DEFINE u == Frames(lens)
             v == Append(u, WholeFrame(len))
             x == Frames(q)
  <1>3. u \in Seq(FrameType) /\ Len(u) = Len(lens) /\ \A i \in 1 .. Len(lens) : u[i] = WholeFrame(lens[i])
    BY <1>1
  <1>4. x \in Seq(FrameType) /\ Len(x) = Len(lens) + 1 /\ \A i \in 1 .. Len(lens) + 1 : x[i] = WholeFrame(q[i])
    BY <1>1, <1>2
  <1> HIDE DEF u, x
  <1>5. /\ v \in Seq(FrameType) /\ Len(v) = Len(lens) + 1
        /\ \A i \in 1 .. Len(lens) : v[i] = u[i]
        /\ v[Len(lens) + 1] = WholeFrame(len)
    BY <1>w, <1>3, AppendProperties
  <1> HIDE DEF v
  <1>6. \A i \in 1 .. Len(lens) + 1 : x[i] = v[i]
    <2> TAKE i \in 1 .. Len(lens) + 1
    <2>1. CASE i \in 1 .. Len(lens)
      <3>1. x[i] = WholeFrame(q[i]) /\ q[i] = lens[i]  BY <1>2, <1>4, <2>1
      <3>2. v[i] = WholeFrame(lens[i])  BY <1>3, <1>5, <2>1
      <3>3. QED  BY <3>1, <3>2
    <2>2. CASE i = Len(lens) + 1
      <3>1. x[i] = WholeFrame(q[i]) /\ q[i] = len  BY <1>2, <1>4, <2>2
      <3>2. QED  BY <1>5, <2>2, <3>1
    <2>3. QED  BY <1>2, <2>1, <2>2
  <1>7. x = v  BY <1>4, <1>5, <1>6, SeqEqual
  <1>8. QED  BY <1>3, <1>7 DEF q, u, v, x

\* What a step that sends nothing has to leave alone.
LEMMA NothingSent ==
  ASSUME WireOK, UNCHANGED <<wire, reported>>,
         \A c \in Conns : conns[c].end = "closed" => conns'[c].end = "closed",
         \A c \in Conns : self'.client_fd = c /\ call'.at = "payload" => self.client_fd = c /\ call.at = "payload",
         \A c \in Conns : self.client_fd = c /\ call.at = "payload" => self'.client_fd = c /\ call'.at = "payload"
  PROVE  WireOK'
  <1>1. wire' \in [Conns -> Seq(FrameType)]  BY DEF WireOK
  <1>2. ASSUME NEW c \in Conns
        PROVE  \/ wire'[c] = Frames(reported'[c]) /\ ~(self'.client_fd = c /\ call'.at = "payload")
               \/ \E f \in FrameType :
                     /\ ~Whole(f) /\ wire'[c] = Append(Frames(reported'[c]), f)
                     /\ conns'[c].end = "closed" \/ (self'.client_fd = c /\ call'.at = "payload")
    <2>1. wire'[c] = wire[c] /\ Frames(reported'[c]) = Frames(reported[c])  OBVIOUS
    <2>2. CASE wire[c] = Frames(reported[c]) /\ ~(self.client_fd = c /\ call.at = "payload")
      BY <2>1, <2>2
    <2>3. CASE \E f \in FrameType : /\ ~Whole(f) /\ wire[c] = Append(Frames(reported[c]), f)
                                    /\ conns[c].end = "closed" \/ (self.client_fd = c /\ call.at = "payload")
      BY <2>1, <2>3
    <2>4. QED  BY <2>2, <2>3 DEF WireOK
  <1>3. QED  BY <1>1, <1>2 DEF WireOK

\* What a step that sends on connection c has to leave there.
LEMMA SentOn ==
  ASSUME WireOK, NEW c \in Conns, self.client_fd = c, wire' \in [Conns -> Seq(FrameType)],
         \A d \in Conns \ {c} : wire'[d] = wire[d] /\ reported'[d] = reported[d],
         \A d \in Conns \ {c} : conns[d].end = "closed" => conns'[d].end = "closed",
         self'.client_fd \in {c, 0},
         \/ wire'[c] = Frames(reported'[c]) /\ call'.at # "payload"
         \/ \E f \in FrameType :
               /\ ~Whole(f) /\ wire'[c] = Append(Frames(reported'[c]), f)
               /\ conns'[c].end = "closed" \/ (self'.client_fd = c /\ call'.at = "payload")
  PROVE  WireOK'
  <1>0. 0 \notin Conns  BY Sizes DEF Conns
  <1>1. ASSUME NEW d \in Conns
        PROVE  \/ wire'[d] = Frames(reported'[d]) /\ ~(self'.client_fd = d /\ call'.at = "payload")
               \/ \E f \in FrameType :
                     /\ ~Whole(f) /\ wire'[d] = Append(Frames(reported'[d]), f)
                     /\ conns'[d].end = "closed" \/ (self'.client_fd = d /\ call'.at = "payload")
    <2>1. CASE d = c  BY <2>1
    <2>2. CASE d # c
      <3>1. self.client_fd # d /\ self'.client_fd # d  BY <1>0, <2>2
      <3>2. wire'[d] = wire[d] /\ Frames(reported'[d]) = Frames(reported[d])  BY <2>2
      <3>3. CASE wire[d] = Frames(reported[d])  BY <3>1, <3>2, <3>3
      <3>4. CASE \E f \in FrameType : /\ ~Whole(f) /\ wire[d] = Append(Frames(reported[d]), f)
                                      /\ conns[d].end = "closed"
        BY <2>2, <3>2, <3>4
      <3>5. QED  BY <3>1, <3>3, <3>4 DEF WireOK
    <2>3. QED  BY <2>1, <2>2
  <1>2. QED  BY <1>1 DEF WireOK

\* A connection that the server has closed stays closed.
LEMMA ClosedStays ==
  ASSUME SocketInv, [Next]_vars
  PROVE  \A c \in Conns : conns[c].end = "closed" => conns'[c].end = "closed"
  <1>t. TypeOK  BY DEF SocketInv
  <1>r. \A c \in Conns : conns[c] \in ConnType  BY <1>t DEF TypeOK
  <1>1. ASSUME NEW l, NEW k, Close(l, k)
        PROVE  \A c \in Conns : conns[c].end = "closed" => conns'[c].end = "closed"
    BY <1>1, <1>r DEF Close, ConnType
  <1>2. ASSUME NEW c \in Conns, ClientConnects(c) \/ ClientSends(c) \/ ClientCloses(c) \/ CloseArrives(c)
                           \/ ConnectionBreaks(c) \/ AttachAccepts(c)
        PROVE  \A d \in Conns : conns[d].end = "closed" => conns'[d].end = "closed"
    BY <1>2, <1>t, <1>r DEF ClientConnects, ClientSends, ClientCloses, CloseArrives, ConnectionBreaks,
                            AttachAccepts, TypeOK, ConnType
  <1>3. ASSUME HandshakePiece \/ HandshakeDone
        PROVE  \A d \in Conns : conns[d].end = "closed" => conns'[d].end = "closed"
    <2>1. call.client_fd \in Conns  BY <1>3 DEF HandshakePiece, HandshakeDone, SocketInv, HeldOK
    <2>2. conns' = [conns EXCEPT ![call.client_fd] = [conns[call.client_fd] EXCEPT !.inbox = "empty"]]
      BY <1>3 DEF HandshakePiece, HandshakeDone, Received
    <2>3. QED  BY <1>t, <1>r, <2>1, <2>2 DEF TypeOK, ConnType
  <1>4. ASSUME NEW c \in Conns, AttachOptionFails(c)
        PROVE  \A d \in Conns : conns[d].end = "closed" => conns'[d].end = "closed"
    BY <1>1, <1>4 DEF AttachOptionFails
  <1>5. ASSUME AttachAcceptFails \/ HandshakeFails \/ RespondFails \/ Detach \/ Dispose \/ SendFails
        PROVE  \A d \in Conns : conns[d].end = "closed" => conns'[d].end = "closed"
    BY <1>1, <1>5 DEF AttachAcceptFails, HandshakeFails, RespondFails, AttachFails, Detach, Dispose,
                      SendFails, WriteFails
  <1>6. ASSUME NEW len \in Lengths, Write(len)
        PROVE  \A d \in Conns : conns[d].end = "closed" => conns'[d].end = "closed"
    BY <1>1, <1>6 DEF Write, WriteFails
  <1>7. ASSUME UNCHANGED conns
        PROVE  \A d \in Conns : conns[d].end = "closed" => conns'[d].end = "closed"
    BY <1>7
  <1>8. AttachBinds \/ AttachReuses \/ Respond \/ SendHeader \/ SendPayload \/ UNCHANGED vars
           \/ (\E enabled \in BOOLEAN : Enable(enabled)) => UNCHANGED conns
    BY DEF AttachBinds, AttachReuses, Respond, SendHeader, SendPayload, Enable, vars
  <1>9. QED  BY <1>2, <1>3, <1>4, <1>5, <1>6, <1>7, <1>8 DEF Next, Handshake

\* The initial state satisfies the invariant.
LEMMA WireInit == Init => WireOK
  <1> SUFFICES ASSUME Init PROVE WireOK
    OBVIOUS
  <1>1. wire \in [Conns -> Seq(FrameType)]  BY EmptySeq DEF Init
  <1>2. \A c \in Conns : wire[c] = Frames(reported[c])
    <2>1. Frames(<<>>) = <<>>  BY DEF Frames
    <2>2. QED  BY <2>1 DEF Init
  <1>3. call.at = "idle"  BY DEF Init, Idle
  <1>4. QED  BY <1>1, <1>2, <1>3 DEF WireOK

\* Every step preserves the invariant of the wire.
LEMMA WireStep == SocketInv /\ WireOK /\ [Next]_vars => WireOK'
  <1> SUFFICES ASSUME SocketInv, WireOK, [Next]_vars PROVE WireOK'
    OBVIOUS
  <1>t. TypeOK  BY DEF SocketInv
  <1>c. \A c \in Conns : conns[c].end = "closed" => conns'[c].end = "closed"  BY ClosedStays
  <1>i. Idle.at = "idle"  BY DEF Idle
  <1> DEFINE c == self.client_fd
             done == Frames(reported[c])
  <1>1. ASSUME UNCHANGED <<wire, reported, self, call>>  PROVE WireOK'
    BY <1>1, <1>c, NothingSent
  <1>2. ASSUME UNCHANGED <<wire, reported>>, call.at # "payload", call'.at # "payload"  PROVE WireOK'
    BY <1>2, <1>c, NothingSent
  <1>3. ASSUME call.at \in {"header", "payload"}
        PROVE  /\ c \in Conns /\ conns[c].end = "open" /\ call.len \in Lengths
               /\ done \in Seq(FrameType)
               /\ Frames(Append(reported[c], call.len)) = Append(done, WholeFrame(call.len))
               /\ call.at = "header" => wire[c] = done
               /\ call.at = "payload" => call.len > 0 /\ wire[c] # <<>> /\ Front(wire[c]) = done
    <2>1. c \in Conns /\ conns[c].end = "open" /\ call.len \in Lengths /\ (call.at = "payload" => call.len > 0)
      <3>1. 0 \notin Conns  BY Sizes DEF Conns
      <3>2. QED  BY <1>3, <3>1 DEF SocketInv, HeldOK
    <2>2. reported[c] \in Seq(Lengths)  BY <1>t, <2>1 DEF TypeOK
    <2>3. done \in Seq(FrameType) /\ Frames(Append(reported[c], call.len)) = Append(done, WholeFrame(call.len))
      BY <2>1, <2>2, FramesAppend
    <2>4. CASE call.at = "header"
      <3>1. wire[c] = done  BY <2>1, <2>4 DEF WireOK
      <3>2. QED  BY <2>1, <2>3, <2>4, <3>1
    <2>5. CASE call.at = "payload"
      <3>1. PICK f \in FrameType : wire[c] = Append(done, f)  BY <2>1, <2>5 DEF WireOK
      <3>2. Append(done, f) # <<>> /\ Front(Append(done, f)) = done  BY <2>3, FrontLast
      <3>3. QED  BY <2>1, <2>3, <2>5, <3>1, <3>2
    <2>6. QED  BY <1>3, <2>4, <2>5
  <1>4. ASSUME call.at \in {"header", "payload"}, NEW f \in FrameType, Frame(c, f)
        PROVE  /\ wire' \in [Conns -> Seq(FrameType)] /\ wire'[c] = Append(done, f)
               /\ \A d \in Conns \ {c} : wire'[d] = wire[d]
    <2>1. c \in Conns /\ done \in Seq(FrameType)  BY <1>3, <1>4
    <2>2. wire \in [Conns -> Seq(FrameType)]  BY DEF WireOK
    <2>3. (IF call.at = "header" THEN Append(wire[c], f) ELSE Front(wire[c]) \o <<f>>) = Append(done, f)
      <3>1. CASE call.at = "header"  BY <1>3, <3>1
      <3>2. CASE call.at = "payload"
        <4>1. Front(wire[c]) = done  BY <1>3, <3>2
        <4>2. done \o <<f>> = Append(done, f)  BY <2>1, AppendIsConcat
        <4>3. QED  BY <3>2, <4>1, <4>2
      <3>3. QED  BY <1>4, <3>1, <3>2
    <2>4. Append(done, f) \in Seq(FrameType)  BY <2>1, AppendProperties
    <2>5. wire' = [wire EXCEPT ![c] = Append(done, f)]  BY <1>4, <2>3 DEF Frame
    <2> HIDE DEF c, done
    <2>6. QED  BY <2>1, <2>2, <2>4, <2>5
  <1>5. ASSUME call.at \in {"header", "payload"}, Frame(c, WholeFrame(call.len)), Reports(c), UNCHANGED <<self, conns>>
        PROVE  WireOK'
    <2>1. WholeFrame(call.len) \in FrameType  BY <1>3, <1>5, WholeIsWhole
    <2>2. /\ wire' \in [Conns -> Seq(FrameType)] /\ wire'[c] = Append(done, WholeFrame(call.len))
          /\ \A d \in Conns \ {c} : wire'[d] = wire[d]
      BY <1>4, <1>5, <2>1
    <2>3. c \in Conns  BY <1>3, <1>5
    <2>4. reported'[c] = Append(reported[c], call.len) /\ \A d \in Conns \ {c} : reported'[d] = reported[d]
      BY <1>5, <1>t, <2>3 DEF Reports, TypeOK
    <2>5. wire'[c] = Frames(reported'[c])  BY <1>3, <1>5, <2>2, <2>4
    <2>6. call'.at # "payload"  BY <1>5, <1>i DEF Reports
    <2>7. QED  BY <1>5, <2>2, <2>3, <2>4, <2>5, <2>6, SentOn
  <1>6. CASE SendHeader
    <2>1. call.at = "header" /\ Frame(c, [header |-> Header(call.len), payload |-> 0]) /\ UNCHANGED <<self, conns>>
      BY <1>6 DEF SendHeader
    <2>2. CASE call.len = 0 /\ Reports(c)
      <3>1. WholeFrame(call.len) = [header |-> Header(call.len), payload |-> 0]  BY <2>2 DEF WholeFrame
      <3>2. QED  BY <1>5, <2>1, <2>2, <3>1
    <2>3. CASE call.len > 0 /\ call' = [call EXCEPT !.at = "payload"] /\ UNCHANGED <<reported, unseen>>
      <3> DEFINE f == [header |-> Header(call.len), payload |-> 0]
      <3>1. f \in FrameType /\ ~Whole(f)
        <4>1. call.len \in Lengths  BY <1>3, <2>1
        <4>2. Header(call.len) \in Seq(Nat) /\ (0 # call.len => ~Whole(f))  BY <4>1, WholeIsWhole
        <4>3. QED  BY <2>3, <4>2 DEF FrameType
      <3>2. /\ wire' \in [Conns -> Seq(FrameType)] /\ wire'[c] = Append(done, f)
            /\ \A d \in Conns \ {c} : wire'[d] = wire[d]
        BY <1>4, <2>1, <3>1
      <3>3. c \in Conns /\ call'.at = "payload" /\ self'.client_fd = c
        BY <1>3, <1>t, <2>1, <2>3 DEF TypeOK, CallType
      <3> HIDE DEF f
      <3>4. QED  BY <2>1, <2>3, <3>1, <3>2, <3>3, SentOn
    <2>4. QED  BY <1>6, <2>2, <2>3 DEF SendHeader
  <1>7. CASE SendPayload
    BY <1>5, <1>7 DEF SendPayload, WholeFrame
  <1>8. CASE SendFails
    <2>1. call.at \in {"header", "payload"} /\ WriteFails /\ UNCHANGED <<reported, unseen>>
      BY <1>8 DEF SendFails
    <2>2. c \in Conns /\ call.len \in Lengths /\ call.len \in Nat
      BY <1>3, <2>1, LengthFits, SMT
    <2>3. PICK f \in FrameType : ~Whole(f) /\ Frame(c, f)
      <3>1. PICK n \in {0, 1} : Frame(c, IF call.at = "header"
                                         THEN [header |-> SubSeq(Header(call.len), 1, n), payload |-> 0]
                                         ELSE [header |-> Header(call.len), payload |-> n * (call.len - 1)])
        BY <1>8 DEF SendFails
      <3>2. CASE call.at = "header"
        BY <2>2, <3>1, <3>2, TornHeader
      <3>3. CASE call.at = "payload"
        <4>1. call.len > 0  BY <1>3, <3>3
        <4>2. n * (call.len - 1) \in Nat /\ n * (call.len - 1) # call.len
          <5>1. CASE n = 0  BY <2>2, <4>1, <5>1
          <5>2. CASE n = 1  BY <2>2, <4>1, <5>2
          <5>3. QED  BY <5>1, <5>2
        <4> DEFINE p == n * (call.len - 1)
        <4> HIDE DEF p
        <4>3. /\ [header |-> Header(call.len), payload |-> p] \in FrameType
              /\ ~Whole([header |-> Header(call.len), payload |-> p])
          BY <2>2, <4>2, WholeIsWhole DEF FrameType, p
        <4>4. QED  BY <3>1, <3>3, <4>3 DEF p
      <3>4. QED  BY <2>1, <3>2, <3>3
    <2>4. /\ wire' \in [Conns -> Seq(FrameType)] /\ wire'[c] = Append(done, f)
          /\ \A d \in Conns \ {c} : wire'[d] = wire[d]
      BY <1>4, <2>1, <2>3
    <2>5. conns'[c].end = "closed" /\ self'.client_fd = 0
      <3>1. self'.client_fd = 0  BY <1>t, <2>1 DEF WriteFails, TypeOK, SelfType
      <3>2. conns[c] \in ConnType  BY <1>t, <2>2 DEF TypeOK
      <3>3. conns'[c] = [conns[c] EXCEPT !.end = "closed", !.inbox = "empty"]  BY <2>1, <2>2 DEF WriteFails, Close
      <3>4. QED  BY <3>1, <3>2, <3>3 DEF ConnType
    <2>6. QED  BY <1>c, <2>1, <2>2, <2>3, <2>4, <2>5, SentOn
  <1>9. ASSUME NEW k \in Conns, ClientConnects(k) \/ ClientSends(k) \/ ClientCloses(k) \/ CloseArrives(k)
                           \/ ConnectionBreaks(k)  PROVE WireOK'
    BY <1>1, <1>9 DEF ClientConnects, ClientSends, ClientCloses, CloseArrives, ConnectionBreaks, sent
  <1>10. ASSUME NEW k \in Conns, AttachAccepts(k) \/ AttachOptionFails(k)  PROVE WireOK'
    BY <1>2, <1>10, <1>i, <1>t DEF AttachAccepts, AttachOptionFails, sent, TypeOK, CallType
  <1>11. CASE AttachBinds \/ AttachReuses \/ AttachAcceptFails
    BY <1>2, <1>11, <1>i DEF AttachBinds, AttachReuses, AttachAcceptFails, AttachFails, Idle, sent
  <1>12. CASE Handshake
    BY <1>2, <1>12, <1>i, <1>t DEF Handshake, HandshakePiece, HandshakeDone, HandshakeFails, Respond, RespondFails,
                                   AttachFails, sent, TypeOK, CallType
  <1>13. ASSUME NEW len \in Lengths, Write(len)  PROVE WireOK'
    BY <1>2, <1>13, <1>i DEF Write, WriteFails, Idle, sent
  <1>14. ASSUME NEW enabled \in BOOLEAN, Enable(enabled)  PROVE WireOK'
    BY <1>2, <1>14 DEF Enable, sent
  <1>15. CASE Detach \/ Dispose
    BY <1>2, <1>15 DEF Detach, Dispose, Idle, sent
  <1>16. CASE UNCHANGED vars
    BY <1>1, <1>16 DEF vars
  <1>17. QED
    BY <1>6, <1>7, <1>8, <1>9, <1>10, <1>11, <1>12, <1>13, <1>14, <1>15, <1>16 DEF Next

\* What the invariant means to a client that takes the bytes apart.
LEMMA WireMeans == SocketInv /\ WireOK => WholeMessages
  <1> SUFFICES ASSUME SocketInv, WireOK, NEW c \in Conns
               PROVE  LET torn == wire[c] # <<>> /\ ~Whole(Last(wire[c]))
                          frames == IF torn THEN Front(wire[c]) ELSE wire[c] IN
                      /\ \A i \in DOMAIN frames : Whole(frames[i])
                      /\ [i \in DOMAIN frames |-> frames[i].payload] = reported[c]
                      /\ torn => conns[c].end = "closed" \/ (self.client_fd = c /\ call.at = "payload")
    BY DEF WholeMessages
  <1> DEFINE torn == wire[c] # <<>> /\ ~Whole(Last(wire[c]))
             frames == IF torn THEN Front(wire[c]) ELSE wire[c]
             done == Frames(reported[c])
  <1>1. /\ reported[c] \in Seq(Lengths) /\ DOMAIN reported[c] = 1 .. Len(reported[c]) /\ Len(reported[c]) \in Nat
        /\ \A i \in 1 .. Len(reported[c]) : reported[c][i] \in Lengths
    <2>1. reported[c] \in Seq(Lengths)  BY DEF SocketInv, TypeOK
    <2>2. QED  BY <2>1, LenProperties, ElementOfSeq
  <1>2. /\ DOMAIN done = 1 .. Len(reported[c])
        /\ \A i \in 1 .. Len(reported[c]) : /\ done[i] = WholeFrame(reported[c][i])
                                            /\ Whole(done[i]) /\ done[i].payload = reported[c][i]
    <2>1. DOMAIN done = 1 .. Len(reported[c])  BY <1>1 DEF Frames
    <2>2. ASSUME NEW i \in 1 .. Len(reported[c])
          PROVE  done[i] = WholeFrame(reported[c][i]) /\ Whole(done[i]) /\ done[i].payload = reported[c][i]
      <3>1. done[i] = WholeFrame(reported[c][i])  BY <1>1 DEF Frames
      <3>2. reported[c][i] \in Lengths  BY <1>1
      <3>3. Whole(WholeFrame(reported[c][i]))  BY <3>2, WholeIsWhole
      <3>4. QED  BY <3>1, <3>3 DEF WholeFrame
    <2>3. QED  BY <2>1, <2>2
  <1>3. done \in Seq(FrameType) /\ Len(done) = Len(reported[c])
    <2>1. \A l \in Lengths : WholeFrame(l) \in FrameType  BY WholeIsWhole
    <2>2. done \in [1 .. Len(reported[c]) -> FrameType]  BY <1>1, <2>1 DEF Frames
    <2>3. QED  BY <1>1, <2>2
  <1>4. ASSUME frames = done
        PROVE  /\ \A i \in DOMAIN frames : Whole(frames[i])
               /\ [i \in DOMAIN frames |-> frames[i].payload] = reported[c]
    <2> HIDE DEF frames, done
    <2>1. \A i \in DOMAIN frames : Whole(frames[i])  BY <1>2, <1>4
    <2>2. [i \in DOMAIN frames |-> frames[i].payload] = [i \in 1 .. Len(reported[c]) |-> reported[c][i]]
      BY <1>2, <1>4
    <2>3. reported[c] = [i \in 1 .. Len(reported[c]) |-> reported[c][i]]  BY <1>1
    <2>4. QED  BY <2>1, <2>2, <2>3
  <1>5. CASE wire[c] = done
    <2>1. ~torn
      <3>1. CASE wire[c] # <<>>
        <4>1. Len(done) \in 1 .. Len(reported[c])  BY <1>1, <1>3, <1>5, <3>1
        <4>2. Whole(done[Len(done)])  BY <1>2, <4>1
        <4>3. Last(wire[c]) = done[Len(done)]  BY <1>5 DEF Last
        <4>4. QED  BY <4>2, <4>3
      <3>2. QED  BY <3>1
    <2>2. frames = done  BY <1>5, <2>1
    <2>3. QED  BY <1>4, <2>1, <2>2
  <1>6. CASE \E f \in FrameType : /\ ~Whole(f) /\ wire[c] = Append(done, f)
                                  /\ conns[c].end = "closed" \/ (self.client_fd = c /\ call.at = "payload")
    <2>1. PICK f \in FrameType : /\ ~Whole(f) /\ wire[c] = Append(done, f)
                                 /\ conns[c].end = "closed" \/ (self.client_fd = c /\ call.at = "payload")
      BY <1>6
    <2>2. Append(done, f) # <<>> /\ Front(Append(done, f)) = done /\ Last(Append(done, f)) = f
      BY <1>3, FrontLast
    <2>3. torn  BY <2>1, <2>2
    <2>4. frames = done  BY <2>1, <2>2, <2>3
    <2>5. QED  BY <1>4, <2>1, <2>4
  <1>7. QED  BY <1>5, <1>6 DEF WireOK

\* "one write() call => one complete websocket binary message": for messages of
\* every length, and wherever a send() fails, the client finds exactly the
\* messages that write reported, in order, and at most one torn frame behind them.
THEOREM WholeMessagesHold == Spec => []WholeMessages
  <1>1. Spec => []WireOK
    BY WireInit, WireStep, SocketsCorrect, PTL DEF Spec
  <1>2. QED  BY <1>1, SocketsCorrect, WireMeans, PTL
===============================================================================
