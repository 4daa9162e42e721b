---------------------------- MODULE HttpProofs ----------------------------
(***************************************************************************)
(* Proofs about Http, for every reply, every bound of http.c and every way *)
(* the network behaves: sockets are closed, a body fits, no transfer takes *)
(* longer than its clock allows, and only good replies are accepted.       *)
(***************************************************************************)
EXTENDS Http, FiniteSetTheorems, TLAPS

----------------------------------------------------------------------------
(* The invariant                                                           *)

\* No socket is open before it is asked for and after it was closed.
SocketInv ==
  /\ pc \in {"fcntl", "connect", "send", "line", "body"} => open = {s}
  /\ pc \in {"idle", "lookup", "socket", "ok", "failed"} => open = {}

\* The lines of the header are counted from 0 and never more than there may be.
LineInv ==
  /\ pc \in {"lookup", "socket", "fcntl", "connect", "send"} => lines = 0
  /\ pc = "line" => lines < MaxLines /\ moved = 0 /\ step = 0 /\ spent = 0

\* step counts the blocks that were completed.
BlockInv == pc = "body" => step = moved \div TcpBlock /\ BlockInTime

\* The inductive invariant.
HttpInv == TypeOK /\ SocketInv /\ LineInv /\ BodyFits /\ BlockInv

----------------------------------------------------------------------------
LEMMA Constants ==
  /\ TcpBlock \in Nat \ {0} /\ Chunk \in 1..TcpBlock
  /\ MaxLine \in Nat \ {0, 1} /\ MaxLines \in Nat \ {0} /\ MaxSize \in Nat /\ MaxRequests \in Nat
  /\ RecvTimeout \in Nat /\ SendTimeout \in Nat /\ ConnectTimeout \in Nat
  /\ \A e \in Errors : e \in Int /\ e < 0
  /\ Sockets \subseteq Nat
  /\ \A b \in DOMAIN StatusLine : StatusLine[b] \in Nat
  /\ \A b \in DOMAIN LengthLine : LengthLine[b] \in Nat
  /\ \A r \in Replies : r \in Seq(Nat)
BY HttpAssumption

LEMMA Appended ==
  ASSUME NEW a \in Seq(Nat), NEW b \in Seq(Nat)
  PROVE  a \o b \in Seq(Nat) /\ Len(a \o b) = Len(a) + Len(b)
  OBVIOUS

\* Nothing was done, or the next bytes complete a block at most.
LEMMA Blocks ==
  ASSUME NEW B \in Nat \ {0}, NEW m \in Nat, NEW n \in 1..B
  PROVE  /\ m \div B \in Nat /\ 0 \div B = 0
         /\ (m + n) \div B \in {m \div B, m \div B + 1}
<1>. DEFINE q == m \div B
            r == m % B
<1>1. q \in Nat /\ r \in 0..B - 1 /\ m = q * B + r  OBVIOUS
<1>2. (q + 1) * B = q * B + B  BY <1>1
<1>3. m + n \in Nat /\ (m + n) \div B \in Nat /\ (m + n) % B \in 0..B - 1
      /\ m + n = ((m + n) \div B) * B + ((m + n) % B)
  OBVIOUS
<1>4. 0 \div B = 0  OBVIOUS
<1>. DEFINE p == (m + n) \div B
            t == (m + n) % B
<1>5. p \in Nat /\ t \in 0..B - 1 /\ q * B + r + n = p * B + t  BY <1>1, <1>3
<1>. HIDE DEF p, q, r, t
<1>6. p < q + 2
  <2>1. SUFFICES ASSUME p >= q + 2  PROVE FALSE
    BY <1>1, <1>5
  <2>2. PICK d \in Nat : p = q + 2 + d  BY <1>1, <1>5, <2>1
  <2>3. p * B = q * B + B + B + d * B  BY <1>1, <2>2
  <2>4. d * B \in Nat /\ q * B \in Nat  BY <1>1
  <2>. QED  BY <1>1, <1>5, <2>3, <2>4
<1>7. p >= q
  <2>1. SUFFICES ASSUME p < q  PROVE FALSE
    BY <1>1, <1>5
  <2>2. PICK d \in Nat : q = p + 1 + d  BY <1>1, <1>5, <2>1
  <2>3. q * B = p * B + B + d * B  BY <1>5, <2>2
  <2>4. d * B \in Nat /\ p * B \in Nat  BY <1>5
  <2>. QED  BY <1>1, <1>5, <2>3, <2>4
<1>8. p \in {q, q + 1}  BY <1>1, <1>5, <1>6, <1>7
<1>. QED  BY <1>1, <1>4, <1>8 DEF p, q

----------------------------------------------------------------------------
(* The steps                                                               *)

LEMMA InitHolds == Init => HttpInv
<1>1. SUFFICES ASSUME Init  PROVE  HttpInv
  OBVIOUS
<1>2. /\ << >> \in Seq(Nat) /\ Len(<< >>) = 0 /\ 0 \in 0..0 /\ 0 < MaxLine
      /\ 0 \in 0..MaxLines /\ 0 \in 0..MaxRequests
  BY Constants
<1>3. TypeOK
  <2>1. /\ line \in Seq(Nat) /\ Len(line) < MaxLine /\ data \in Seq(Nat) /\ reply \in Seq(Nat)
        /\ at \in 0..Len(reply) /\ lines \in 0..MaxLines /\ requests \in 0..MaxRequests
    BY <1>1, <1>2 DEF Init
  <2>2. /\ pc \in Working \union {"idle", "ok", "failed", "crashed"}
        /\ s \in Int /\ open \subseteq Sockets
        /\ timer \in Nat /\ moved \in Nat /\ step \in Nat /\ spent \in Nat
        /\ status \in Nat /\ length \in Nat /\ lost \in Nat
        /\ result \in {"ok", "connect", "status", "toobig", "receive"}
    BY <1>1 DEF Init, Working
  <2>3. block \in BOOLEAN /\ names \in BOOLEAN  BY <1>1 DEF Init
  <2>. QED  BY <2>1, <2>2, <2>3 DEF TypeOK
<1>. QED  BY <1>1, <1>3 DEF Init, HttpInv, SocketInv, LineInv, BodyFits, BlockInv

LEMMA RequestKeeps == HttpInv /\ Request => HttpInv'
<1>1. SUFFICES ASSUME HttpInv, Request  PROVE  HttpInv'
  OBVIOUS
<1>2. /\ << >> \in Seq(Nat) /\ Len(<< >>) = 0 /\ 0 < MaxLine /\ 0 \in 0..MaxLines
      /\ \A r \in Replies : Len(r) \in Nat /\ 0 \in 0..Len(r)
  BY Constants
<1>3. TypeOK'
  <2>1. /\ line' \in Seq(Nat) /\ Len(line') < MaxLine /\ data' \in Seq(Nat) /\ reply' \in Seq(Nat)
        /\ at' \in 0..Len(reply') /\ lines' \in 0..MaxLines
    BY <1>1, <1>2, Constants DEF Request
  <2>2. /\ requests' \in 0..MaxRequests /\ lost' \in Nat
    BY <1>1, Constants DEF Request, HttpInv, TypeOK
  <2>3. /\ pc' \in Working \union {"idle", "ok", "failed", "crashed"}
        /\ s' \in Int /\ open' \subseteq Sockets
        /\ timer' \in Nat /\ moved' \in Nat /\ step' \in Nat /\ spent' \in Nat
        /\ status' \in Nat /\ length' \in Nat
        /\ result' \in {"ok", "connect", "status", "toobig", "receive"}
    BY <1>1 DEF Request, HttpInv, TypeOK, Working
  <2>4. block' \in BOOLEAN /\ names' \in BOOLEAN  BY <1>1 DEF Request
  <2>. QED  BY <2>1, <2>2, <2>3, <2>4 DEF TypeOK
<1>4. pc' = "lookup" /\ lines' = 0 /\ open' = {}  BY <1>1 DEF Request, HttpInv, SocketInv
<1>. QED  BY <1>3, <1>4 DEF HttpInv, SocketInv, LineInv, BodyFits, BlockInv

\* What becomes of a try to connect: an error has no socket, a success starts to send.
LEMMA ConnectionKept ==
  ASSUME HttpInv, NEW v \in Int, Connected(v),
         pc \in {"lookup", "socket", "fcntl", "connect"},
         v < 0 => open' = {}, v >= 0 => v \in Sockets /\ open' = {v},
         UNCHANGED <<at, header, body>>, Rest
  PROVE  HttpInv'
<1>1. CASE v < 0
  BY <1>1, Constants
     DEF Connected, Fail, HttpInv, TypeOK, Working, SocketInv, LineInv, BodyFits, BlockInv,
         Rest, header, body, transfer
<1>2. CASE v >= 0
  BY <1>2, Constants
     DEF Connected, HttpInv, TypeOK, Working, SocketInv, LineInv, BodyFits, BlockInv,
         Rest, header, body
<1>. QED  BY <1>1, <1>2

\* The steps that only connect.
LEMMA LookupKeeps == HttpInv /\ Lookup => HttpInv'
<1>1. SUFFICES ASSUME HttpInv, Lookup  PROVE  HttpInv'
  OBVIOUS
<1>2. CASE pc' = "socket" /\ UNCHANGED <<s, timer, transfer, result>>
  BY <1>1, <1>2 DEF Lookup, HttpInv, TypeOK, Working, SocketInv, LineInv, BodyFits, BlockInv,
     Rest, header, body, transfer
<1>3. ASSUME NEW e \in Errors, Connected(e)  PROVE  HttpInv'
  BY <1>1, <1>3, ConnectionKept, Constants DEF Lookup, HttpInv, SocketInv
<1>. QED  BY <1>1, <1>2, <1>3 DEF Lookup

LEMMA OpenSocketKeeps == HttpInv /\ OpenSocket => HttpInv'
<1>1. SUFFICES ASSUME HttpInv, OpenSocket  PROVE  HttpInv'
  OBVIOUS
<1>2. ASSUME NEW fd \in Sockets, s' = fd, open' = open \union {fd}, pc' = "fcntl",
             UNCHANGED <<timer, transfer, result>>
      PROVE  HttpInv'
  <2>1. pc = "socket" /\ UNCHANGED <<at, header, body>> /\ Rest  BY <1>1 DEF OpenSocket
  <2>2. open' = {fd} /\ open' \subseteq Sockets  BY <1>1, <1>2, <2>1 DEF HttpInv, SocketInv
  <2>3. s' \in Int  BY <1>2, Constants
  <2>. QED  BY <1>1, <1>2, <2>1, <2>2, <2>3
     DEF HttpInv, TypeOK, Working, SocketInv, LineInv, BodyFits, BlockInv,
     Rest, header, body, transfer
<1>3. ASSUME NEW e \in Errors, Connected(e), UNCHANGED open  PROVE  HttpInv'
  <2>1. e \in Int /\ e < 0  BY Constants
  <2>2. pc = "socket" /\ UNCHANGED <<at, header, body>> /\ Rest  BY <1>1 DEF OpenSocket
  <2>3. open' = {}  BY <1>1, <1>3, <2>2 DEF HttpInv, SocketInv
  <2>. QED  BY <1>1, <1>3, <2>1, <2>2, <2>3, ConnectionKept
<1>. QED  BY <1>1, <1>2, <1>3 DEF OpenSocket

LEMMA SetNonBlockingKeeps == HttpInv /\ SetNonBlocking => HttpInv'
<1>1. SUFFICES ASSUME HttpInv, SetNonBlocking  PROVE  HttpInv'
  OBVIOUS
<1>2. CASE pc' = "connect" /\ timer' = 0 /\ UNCHANGED <<s, open, transfer, result>>
  BY <1>1, <1>2
     DEF SetNonBlocking, HttpInv, TypeOK, Working, SocketInv, LineInv, BodyFits, BlockInv,
     Rest, header, body, transfer
<1>3. ASSUME NEW e \in Errors, Connected(e), Close  PROVE  HttpInv'
  BY <1>1, <1>3, ConnectionKept, Constants DEF SetNonBlocking, HttpInv, SocketInv, Close
<1>. QED  BY <1>1, <1>2, <1>3 DEF SetNonBlocking

LEMMA ConnectKeeps == HttpInv /\ Connect => HttpInv'
<1>1. SUFFICES ASSUME HttpInv, Connect  PROVE  HttpInv'
  OBVIOUS
<1>2. CASE Tick /\ UNCHANGED <<pc, s, open, transfer, result>>
  BY <1>1, <1>2
     DEF Connect, Tick, HttpInv, TypeOK, Working, SocketInv, LineInv, BodyFits, BlockInv,
     Rest, header, body, transfer
<1>3. ASSUME NEW e \in Errors, Connected(e), Close  PROVE  HttpInv'
  BY <1>1, <1>3, ConnectionKept, Constants DEF Connect, HttpInv, SocketInv, Close
<1>4. CASE Connected(s) /\ UNCHANGED open
  <2>1. s \in Sockets /\ open = {s} /\ s \in Int /\ s >= 0
    BY <1>1, Constants DEF Connect, HttpInv, SocketInv, TypeOK
  <2>. QED  BY <1>1, <1>4, <2>1, ConnectionKept DEF Connect
<1>. QED  BY <1>1, <1>2, <1>3, <1>4 DEF Connect

\* Bytes are moved: the blocks that are completed are counted, and each had its time.
LEMMA Moves ==
  ASSUME moved \in Nat, step \in Nat, spent \in Nat, timer \in Nat,
         NEW n \in 1..Chunk, Move(n)
  PROVE  /\ moved' = moved + n
         /\ moved' \in Nat /\ step' \in Nat /\ spent' \in Nat /\ timer' \in Nat
         /\ step = moved \div TcpBlock => step' = moved' \div TcpBlock
         /\ timer <= RecvTimeout /\ step = moved \div TcpBlock
              /\ spent <= step * (RecvTimeout + 1) + timer
            => timer' <= RecvTimeout + 1 /\ spent' <= step' * (RecvTimeout + 1) + timer'
<1>1. moved' = moved + n /\ n \in 1..TcpBlock  BY Constants DEF Move
<1>2. /\ moved \div TcpBlock \in Nat
      /\ moved' \div TcpBlock \in {moved \div TcpBlock, moved \div TcpBlock + 1}
  BY <1>1, Blocks, Constants
<1>. DEFINE q == moved \div TcpBlock
            p == moved' \div TcpBlock
<1>3. PICK ticks \in 0..1 :
        /\ spent' = spent + ticks
        /\ IF p > step THEN timer' = 0 /\ step' = step + 1
                       ELSE timer' = timer + ticks /\ step' = step
  BY DEF Move
<1>4. q \in Nat /\ p \in {q, q + 1}  BY <1>2
<1>5. moved' \in Nat  BY <1>1, Constants
<1>. HIDE DEF q, p
<1>6. step' \in Nat /\ spent' \in Nat /\ timer' \in Nat  BY <1>3, <1>4
<1>7. step = q => step' = p  BY <1>3, <1>4
<1>8. ASSUME timer <= RecvTimeout, step = q, spent <= step * (RecvTimeout + 1) + timer
      PROVE  timer' <= RecvTimeout + 1 /\ spent' <= step' * (RecvTimeout + 1) + timer'
  <2>1. RecvTimeout \in Nat /\ step * (RecvTimeout + 1) \in Nat  BY Constants
  <2>2. (step + 1) * (RecvTimeout + 1) = step * (RecvTimeout + 1) + RecvTimeout + 1
    BY Constants
  <2>. DEFINE all == step * (RecvTimeout + 1)
              more == (step + 1) * (RecvTimeout + 1)
  <2>3. CASE p > step
    <3>1. timer' = 0 /\ step' = step + 1 /\ spent' = spent + ticks  BY <1>3, <2>3
    <3>2. spent' <= more /\ more \in Nat
      <4>1. all \in Nat /\ more = all + RecvTimeout + 1 /\ spent <= all + timer  BY <1>8, <2>1, <2>2
      <4>. HIDE DEF all, more
      <4>. QED  BY <1>8, <2>1, <3>1, <4>1
    <3>3. step' * (RecvTimeout + 1) = more  BY <3>1
    <3>. HIDE DEF more
    <3>. QED  BY <2>1, <3>1, <3>2, <3>3
  <2>4. CASE ~(p > step)
    <3>1. timer' = timer + ticks /\ step' = step /\ spent' = spent + ticks  BY <1>3, <2>4
    <3>2. all \in Nat /\ spent <= all + timer /\ step' * (RecvTimeout + 1) = all
      BY <1>8, <2>1, <3>1
    <3>. HIDE DEF all
    <3>. QED  BY <1>8, <2>1, <3>1, <3>2
  <2>. QED  BY <2>3, <2>4
<1>. QED  BY <1>1, <1>5, <1>6, <1>7, <1>8 DEF p, q

\* A transfer goes on: bytes are moved, or nothing was ready.
LEMMA SendKeeps == HttpInv /\ Send => HttpInv'
<1>1. SUFFICES ASSUME HttpInv, Send  PROVE  HttpInv'
  OBVIOUS
<1>2. moved' \in Nat /\ step' \in Nat /\ spent' \in Nat /\ timer' \in Nat
  <2>1. moved \in Nat /\ step \in Nat /\ spent \in Nat /\ timer \in Nat  BY <1>1 DEF HttpInv, TypeOK
  <2>2. CASE Wait  BY <2>1, <2>2 DEF Wait, Tick
  <2>3. ASSUME NEW n \in 1..Chunk, Move(n)
        PROVE  moved' \in Nat /\ step' \in Nat /\ spent' \in Nat /\ timer' \in Nat
    BY <2>1, <2>3, Moves
  <2>. QED  BY <1>1, <2>2, <2>3 DEF Send
<1>. QED  BY <1>1, <1>2
     DEF Send, HttpInv, TypeOK, Working, SocketInv, LineInv, BodyFits, BlockInv,
         Rest, header, body

LEMMA SendEndsKeeps == HttpInv /\ SendEnds => HttpInv'
BY Constants
   DEF SendEnds, HttpInv, TypeOK, Working, SocketInv, LineInv, BodyFits, BlockInv,
         Rest, header, body

\* Without a line the request fails.
LEMMA NoLineKeeps ==
  ASSUME HttpInv, NoLine, pc = "line", at' \in 0..Len(reply), UNCHANGED <<s, transfer>>, Rest
  PROVE  HttpInv'
BY DEF NoLine, Fail, Close, HttpInv, TypeOK, Working, SocketInv, LineInv, BodyFits, BlockInv,
       Rest, body, transfer

LEMMA WaitForByteKeeps == HttpInv /\ WaitForByte => HttpInv'
BY DEF WaitForByte, Tick, HttpInv, TypeOK, Working, SocketInv, LineInv, BodyFits, BlockInv,
       Rest, header, body, transfer

LEMMA ReadLineFailsKeeps == HttpInv /\ ReadLineFails => HttpInv'
<1>1. SUFFICES ASSUME HttpInv, ReadLineFails  PROVE  HttpInv'
  OBVIOUS
<1>2. at' \in 0..Len(reply)  BY <1>1 DEF ReadLineFails, HttpInv, TypeOK
<1>. QED  BY <1>1, <1>2, NoLineKeeps DEF ReadLineFails

LEMMA LineTimesOutKeeps == HttpInv /\ LineTimesOut => HttpInv'
<1>1. SUFFICES ASSUME HttpInv, LineTimesOut  PROVE  HttpInv'
  OBVIOUS
<1>2. at' \in 0..Len(reply)  BY <1>1 DEF LineTimesOut, HttpInv, TypeOK
<1>. QED  BY <1>1, <1>2, NoLineKeeps DEF LineTimesOut

LEMMA HeaderLineKeeps ==
  ASSUME HttpInv, NEW l, HeaderLine(l), pc = "line", at' \in 0..Len(reply),
         UNCHANGED <<s, transfer>>, Rest
  PROVE  HttpInv'
<1>1. Scanned(l, StatusLine, status) \in Nat /\ Scanned(l, LengthLine, length) \in Nat
  BY Constants DEF Scanned, HttpInv, TypeOK
<1>2. length' \in Nat /\ lines' = lines + 1 /\ line' = << >> /\ timer' = 0 /\ UNCHANGED body
  BY <1>1 DEF HeaderLine
<1>3. status' \in Nat  BY <1>1 DEF HeaderLine
<1>4. lines \in Nat /\ lines + 1 <= MaxLines  BY Constants DEF HttpInv, LineInv, TypeOK
<1>5. << >> \in Seq(Nat) /\ Len(<< >>) = 0  OBVIOUS
<1>6. CASE lines + 1 = MaxLines
  <2>1. pc' = "failed" /\ result' = "status" /\ open' = open \ {s}
    BY <1>6 DEF HeaderLine, Fail, Close
  <2>. QED  BY <1>2, <1>3, <1>4, <1>5, <2>1, Constants
    DEF HttpInv, TypeOK, Working, SocketInv, LineInv, BodyFits, BlockInv, Rest, body, transfer
<1>7. CASE lines + 1 # MaxLines
  <2>1. pc' \in {"line", "crashed"} /\ UNCHANGED <<open, result>>
    BY <1>7 DEF HeaderLine
  <2>. QED  BY <1>2, <1>3, <1>4, <1>5, <1>7, <2>1, Constants
    DEF HttpInv, TypeOK, Working, SocketInv, LineInv, BodyFits, BlockInv, Rest, body, transfer
<1>. QED  BY <1>6, <1>7

LEMMA EmptyLineKeeps ==
  ASSUME HttpInv, EmptyLine, pc = "line", at' \in 0..Len(reply),
         UNCHANGED <<s, transfer>>, Rest
  PROVE  HttpInv'
<1>1. status' \in Nat /\ UNCHANGED <<line, lines, length>>  BY DEF EmptyLine, HttpInv, TypeOK
<1>2. CASE pc' = "failed"
  <2>1. result' \in {"status", "toobig"} /\ open' = open \ {s} /\ UNCHANGED <<timer, body>>
    BY <1>2 DEF EmptyLine, Fail, Close
  <2>. QED  BY <1>1, <1>2, <2>1
    DEF HttpInv, TypeOK, Working, SocketInv, LineInv, BodyFits, BlockInv, Rest, body, transfer
<1>3. CASE pc' # "failed"
  <2>1. /\ ~(length > MaxSize) /\ pc' \in {"body", "crashed"} /\ timer' = 0
        /\ block' = TRUE /\ data' = << >> /\ UNCHANGED <<open, result>>
    BY <1>3 DEF EmptyLine, Fail
  <2>2. << >> \in Seq(Nat) /\ Len(<< >>) = 0  OBVIOUS
  <2>3. moved = 0 /\ spent = 0 /\ step = 0 /\ UNCHANGED <<moved, spent, step>>
    BY DEF HttpInv, LineInv, transfer
  <2>4. TypeOK'  BY <1>1, <2>1, <2>2, <2>3 DEF HttpInv, TypeOK, Working, Rest
  <2>5. BodyFits'
    <3>1. length \in Nat /\ MaxSize \in Nat  BY Constants DEF HttpInv, TypeOK
    <3>. QED  BY <1>1, <2>1, <2>2, <2>3, <3>1 DEF BodyFits
  <2>6. BlockInv'
    <3>1. 0 \div TcpBlock = 0  BY Blocks, Constants
    <3>2. 0 * (RecvTimeout + 1) = 0 /\ 0 <= RecvTimeout + 1  BY Constants
    <3>. QED  BY <2>1, <2>3, <3>1, <3>2 DEF BlockInv, BlockInTime
  <2>. QED  BY <2>1, <2>4, <2>5, <2>6 DEF HttpInv, SocketInv, LineInv
<1>. QED  BY <1>2, <1>3

LEMMA ReadByteKeeps == HttpInv /\ ReadByte => HttpInv'
<1>1. SUFFICES ASSUME HttpInv, ReadByte  PROVE  HttpInv'
  OBVIOUS
<1>. DEFINE l == Append(line, reply[at + 1])
<1>2. /\ pc = "line" /\ at < Len(reply) /\ at' = at + 1 /\ UNCHANGED <<s, transfer>> /\ Rest
      /\ line \in Seq(Nat) /\ reply \in Seq(Nat) /\ at \in 0..Len(reply) /\ Len(line) < MaxLine
  BY <1>1 DEF ReadByte, HttpInv, TypeOK
<1>3. at' \in 0..Len(reply) /\ at + 1 \in 1..Len(reply)  BY <1>2
<1>4. l \in Seq(Nat) /\ Len(l) = Len(line) + 1
  <2>1. reply[at + 1] \in Nat  BY <1>2, <1>3
  <2>. QED  BY <1>2, <2>1
<1>. HIDE DEF l
<1>5. CASE NoLine  BY <1>1, <1>2, <1>3, <1>5, NoLineKeeps
<1>6. CASE EmptyLine  BY <1>1, <1>2, <1>3, <1>6, EmptyLineKeeps
<1>7. CASE HeaderLine(SubSeq(l, 1, Len(l) - 2))  BY <1>1, <1>2, <1>3, <1>7, HeaderLineKeeps
<1>8. CASE /\ ~Full(l) /\ line' = l /\ timer' \in {timer, timer + 1}
           /\ UNCHANGED <<pc, open, lines, status, length, body, result>>
  <2>1. Len(l) < MaxLine  BY <1>2, <1>4, <1>8, Constants DEF Full
  <2>2. timer' \in Nat  BY <1>1, <1>8 DEF HttpInv, TypeOK
  <2>. QED  BY <1>1, <1>2, <1>3, <1>4, <1>8, <2>1, <2>2
    DEF HttpInv, TypeOK, Working, SocketInv, LineInv, BodyFits, BlockInv, Rest, body, transfer
<1>. QED  BY <1>1, <1>5, <1>6, <1>7, <1>8 DEF ReadByte, l

LEMMA ReadBodyKeeps == HttpInv /\ ReadBody => HttpInv'
<1>1. SUFFICES ASSUME HttpInv, ReadBody  PROVE  HttpInv'
  OBVIOUS
<1>2. /\ pc = "body" /\ moved < length /\ timer <= RecvTimeout
      /\ UNCHANGED <<pc, s, open, line, lines, status, length, block, result, reply, names,
                      lost, requests>>
      /\ moved \in Nat /\ step \in Nat /\ spent \in Nat /\ timer \in Nat /\ length \in Nat
      /\ data \in Seq(Nat) /\ reply \in Seq(Nat) /\ at \in 0..Len(reply)
      /\ block /\ Len(data) = moved /\ length <= MaxSize
      /\ step = moved \div TcpBlock /\ spent <= step * (RecvTimeout + 1) + timer
  BY <1>1 DEF ReadBody, Rest, header, HttpInv, TypeOK, BodyFits, BlockInv, BlockInTime
<1>3. SUFFICES
        /\ moved' \in Nat /\ step' \in Nat /\ spent' \in Nat /\ timer' \in Nat
        /\ at' \in 0..Len(reply) /\ data' \in Seq(Nat) /\ Len(data') = moved' /\ moved' <= length
        /\ step' = moved' \div TcpBlock
        /\ timer' <= RecvTimeout + 1 /\ spent' <= step' * (RecvTimeout + 1) + timer'
  BY <1>1, <1>2, <1>3
     DEF HttpInv, TypeOK, Working, SocketInv, LineInv, BodyFits, BlockInv, BlockInTime
<1>4. CASE Wait /\ UNCHANGED <<at, data>>
  <2>1. /\ timer' = timer + 1 /\ spent' = spent + 1 /\ UNCHANGED <<moved, step, at, data>>
    BY <1>4 DEF Wait, Tick
  <2>. DEFINE all == step * (RecvTimeout + 1)
  <2>2. all \in Nat /\ spent <= all + timer /\ step' * (RecvTimeout + 1) = all
    BY <1>2, <2>1, Constants
  <2>. HIDE DEF all
  <2>3. spent' <= all + timer' /\ timer' <= RecvTimeout + 1  BY <1>2, <2>1, <2>2, Constants
  <2>. QED  BY <1>2, <2>1, <2>2, <2>3
<1>5. ASSUME NEW n \in 1..Chunk, moved + n <= length, at + n <= Len(reply), Move(n),
             at' = at + n, data' = data \o SubSeq(reply, at + 1, at + n)
      PROVE  /\ moved' \in Nat /\ step' \in Nat /\ spent' \in Nat /\ timer' \in Nat
             /\ at' \in 0..Len(reply) /\ data' \in Seq(Nat) /\ Len(data') = moved'
             /\ moved' <= length
             /\ step' = moved' \div TcpBlock
             /\ timer' <= RecvTimeout + 1 /\ spent' <= step' * (RecvTimeout + 1) + timer'
  <2>1. n \in Nat /\ n >= 1  BY <1>5, Constants
  <2>2. SubSeq(reply, at + 1, at + n) \in Seq(Nat) /\ Len(SubSeq(reply, at + 1, at + n)) = n
    BY <1>2, <1>5, <2>1
  <2>3. data' \in Seq(Nat) /\ Len(data') = moved + n
    <3>. DEFINE got == SubSeq(reply, at + 1, at + n)
    <3>1. data \in Seq(Nat) /\ got \in Seq(Nat) /\ Len(got) = n /\ data' = data \o got
          /\ Len(data) = moved
      BY <1>2, <1>5, <2>2
    <3>. HIDE DEF got
    <3>2. Len(data \o got) = Len(data) + Len(got) /\ data \o got \in Seq(Nat)
      BY ONLY <3>1, Appended
    <3>. QED  BY ONLY <3>1, <3>2
  <2>4. /\ moved' = moved + n /\ moved' \in Nat /\ step' \in Nat /\ spent' \in Nat /\ timer' \in Nat
        /\ step' = moved' \div TcpBlock
        /\ timer' <= RecvTimeout + 1 /\ spent' <= step' * (RecvTimeout + 1) + timer'
    <3>1. /\ moved \in Nat /\ step \in Nat /\ spent \in Nat /\ timer \in Nat /\ Move(n)
          /\ step = moved \div TcpBlock /\ timer <= RecvTimeout
          /\ spent <= step * (RecvTimeout + 1) + timer
      BY ONLY <1>2, <1>5
    <3>. QED  BY ONLY <1>5, <3>1, Moves
  <2>5. at' \in 0..Len(reply)
    <3>1. at' = at + n /\ at + n <= Len(reply) /\ at \in 0..Len(reply) /\ Len(reply) \in Nat
      BY <1>2, <1>5
    <3>. QED  BY ONLY <2>1, <3>1
  <2>6. Len(data') = moved' /\ moved' <= length  BY ONLY <1>5, <2>3, <2>4
  <2>. QED  BY ONLY <2>3, <2>4, <2>5, <2>6
<1>. QED  BY <1>1, <1>4, <1>5 DEF ReadBody

LEMMA BodyFailsKeeps == HttpInv /\ BodyFails => HttpInv'
BY DEF BodyFails, Fail, Close, HttpInv, TypeOK, Working, SocketInv, LineInv, BodyFits, BlockInv,
       Rest, header, transfer

LEMMA SucceedKeeps == HttpInv /\ Succeed => HttpInv'
BY DEF Succeed, Close, HttpInv, TypeOK, Working, SocketInv, LineInv, BodyFits, BlockInv,
       Rest, header, body, transfer

LEMMA GetResultKeeps == HttpInv /\ GetResult => HttpInv'
BY DEF GetResult, HttpInv, TypeOK, Working, SocketInv, LineInv, BodyFits, BlockInv,
       header, body, transfer

LEMMA NextKeeps == HttpInv /\ [Next]_vars => HttpInv'
<1>1. HttpInv /\ UNCHANGED vars => HttpInv'
  BY DEF vars, header, body, transfer, HttpInv, TypeOK, SocketInv, LineInv, BodyFits, BlockInv,
         BlockInTime
<1>. QED
  BY <1>1, RequestKeeps, LookupKeeps, OpenSocketKeeps, SetNonBlockingKeeps, ConnectKeeps,
     SendKeeps, SendEndsKeeps, ReadByteKeeps, WaitForByteKeeps, ReadLineFailsKeeps,
     LineTimesOutKeeps, ReadBodyKeeps, BodyFailsKeeps, SucceedKeeps, GetResultKeeps
  DEF Next, Work

THEOREM HttpInvariant == Spec => []HttpInv
<1>. QED  BY InitHolds, NextKeeps, PTL DEF Spec

----------------------------------------------------------------------------
(* What follows from it                                                    *)

\* No line grows beyond its buffer, no header beyond its lines, and what is read is
\* what was sent, for replies of any length.
THEOREM HttpTypes == Spec => []TypeOK
<1>1. HttpInv => TypeOK  BY DEF HttpInv
<1>. QED  BY <1>1, HttpInvariant, PTL

\* However many requests fail, wherever they do: only an open socket is used and
\* none stays open (http.c:44-124, 306-375).
THEOREM SocketsAreClosed == Spec => []SocketsClosed
<1>1. HttpInv => SocketsClosed  BY DEF HttpInv, SocketInv, SocketsClosed
<1>. QED  BY <1>1, HttpInvariant, PTL

\* Whatever length a reply announces and however it is cut into tries, what is
\* received fits (http.c:356-362).
THEOREM BodiesFit == Spec => []BodyFits
<1>1. HttpInv => BodyFits  BY DEF HttpInv
<1>. QED  BY <1>1, HttpInvariant, PTL

\* For every size of a block and every time-out: each block has its time and one try
\* more, and no more (http.c:188-223).
THEOREM BlocksInTime == Spec => []BlockInTime
<1>1. HttpInv => BlockInTime  BY DEF HttpInv, BlockInv, BlockInTime
<1>. QED  BY <1>1, HttpInvariant, PTL

----------------------------------------------------------------------------
(* The answer: what the loops over bytes and lines know of the reply       *)

\* Where a line may start behind: the beginning of r, and the ends of lines.
Bounds(r) == {0} \union Answer!Ends(r)

\* The starts of the lines of r that end at b or before, and what they say.
StartsTo(r, b) == {c + 1 : c \in {c \in Bounds(r) : c < b}}

SayingTo(r, b, kind) == {a \in StartsTo(r, b) : r[a] \in DOMAIN kind}

SaysTo(r, b, kind, fallback) ==
  IF SayingTo(r, b, kind) = {} THEN fallback ELSE kind[r[Answer!Latest(SayingTo(r, b, kind))]]

\* b is the end of a line that is not empty, as those before are, or the beginning,
\* and no line was too long.
Read(r, b) ==
  /\ b \in Bounds(r)
  /\ \A e \in Answer!Empty(r) : e > b
  /\ \A a \in StartsTo(r, b) : \E e \in Answer!Ends(r) : a < e /\ e < a + MaxLine

\* Number, status and length are those of the lines up to b.
Known(b) ==
  /\ Read(reply, b)
  /\ IsFiniteSet(StartsTo(reply, b)) /\ lines = Cardinality(StartsTo(reply, b))
  /\ status = SaysTo(reply, b, StatusLine, 404)
  /\ length = SaysTo(reply, b, LengthLine, 0)

\* Behind b a line begins that does not end before at.
LineBehind(b) ==
  /\ at = b + Len(line)
  /\ \A i \in 1..Len(line) : line[i] = reply[b + i]
  /\ \A e \in Answer!Ends(reply) : e <= b \/ e > at

\* Where a request has not come to the body yet.
BeforeBody == {"lookup", "socket", "fcntl", "connect", "send", "line"}

\* Until the header ends: the line that is being read begins behind the last end, and
\* the lines before it are known.
HeaderInv ==
  pc \in BeforeBody => \E b \in Nat : Known(b) /\ LineBehind(b)

\* l is the line behind b, and the next byte ends it.
Complete(b, l) ==
  /\ at + 1 = b + Len(l) /\ Len(l) \in 2..MaxLine
  /\ \A i \in 1..Len(l) : l[i] = reply[b + i]
  /\ at + 1 \in Answer!Ends(reply)
  /\ \A f \in Answer!Ends(reply) : f <= b \/ f >= at + 1

\* Once it has ended: the header is one that may be accepted, and what was received
\* is what follows it.
ReceivedInv ==
  pc \in {"body", "ok"} =>
    LET h == Answer!HeaderEnd(reply)
    IN  /\ Answer!Empty(reply) # {} /\ Answer!LinesFit(reply)
        /\ Answer!Says(reply, StatusLine, 404) = 200
        /\ Answer!Says(reply, LengthLine, 0) = length /\ length > 0
        /\ h \in Nat /\ at = h + moved
        /\ \A i \in 1..moved : data[i] = reply[h + i]

\* HttpAnswer counts like this module.
LEMMA SameCount == \A S : Answer!Cardinality(S) = Cardinality(S)
BY DEF Answer!Cardinality, Cardinality

\* Lines end with Cr and Lf.
LEMMA EndsAt ==
  ASSUME NEW r \in Seq(Nat)
  PROVE  /\ Answer!Ends(r) \subseteq Nat \ {0, 1} /\ Answer!Empty(r) \subseteq Answer!Ends(r)
         /\ \A e \in Answer!Ends(r) : e <= Len(r) /\ r[e - 1] = Cr /\ r[e] = Lf
<1>1. Len(r) \in Nat /\ Answer!Ends(r) = {e \in 2..Len(r) : r[e - 1] = Cr /\ r[e] = Lf}
  BY DEF Answer!Ends
<1>2. \A e \in 2..Len(r) : e \in Nat \ {0, 1} /\ e <= Len(r)
  BY <1>1
<1>3. Answer!Empty(r) \subseteq Answer!Ends(r)
  BY DEF Answer!Empty
<1>. QED  BY <1>1, <1>2, <1>3

\* The latest of a set that has one.
LEMMA LatestIs ==
  ASSUME NEW S \in SUBSET Nat, NEW m \in S, \A f \in S : f <= m
  PROVE  Answer!Latest(S) = m
<1>. DEFINE Top(e) == e \in S /\ \A f \in S : f <= e
<1>1. \A e : Top(e) => e = m
  <2>. SUFFICES ASSUME NEW e, Top(e)  PROVE e = m
    OBVIOUS
  <2>1. e \in Nat /\ m \in Nat /\ e <= m /\ m <= e
    OBVIOUS
  <2>. QED  BY ONLY <2>1
<1>3. Top(m)
  OBVIOUS
<1>2. Answer!Latest(S) = CHOOSE e : Top(e)
  BY DEF Answer!Latest
<1>. HIDE DEF Top
<1>. QED  BY <1>1, <1>2, <1>3

\* Before the first line nothing is said.
LEMMA NothingRead ==
  ASSUME NEW r \in Seq(Nat)
  PROVE  /\ Read(r, 0) /\ StartsTo(r, 0) = {}
         /\ IsFiniteSet(StartsTo(r, 0)) /\ Cardinality(StartsTo(r, 0)) = 0
         /\ \A kind, fallback : SaysTo(r, 0, kind, fallback) = fallback
<1>1. StartsTo(r, 0) = {}
  BY EndsAt DEF StartsTo, Bounds
<1>2. \A e \in Answer!Empty(r) : e > 0
  BY EndsAt
<1>3. \A kind : SayingTo(r, 0, kind) = {}
  BY <1>1 DEF SayingTo
<1>4. IsFiniteSet({}) /\ Cardinality({}) = 0
  BY FS_EmptySet
<1>. QED  BY <1>1, <1>2, <1>3, <1>4 DEF Read, Bounds, SaysTo

\* A line ends at e, behind b.
LEMMA OneMore ==
  ASSUME NEW r \in Seq(Nat), NEW b \in Bounds(r), NEW e \in Answer!Ends(r), b < e,
         \A f \in Answer!Ends(r) : f <= b \/ f >= e,
         IsFiniteSet(StartsTo(r, b))
  PROVE  /\ StartsTo(r, e) = StartsTo(r, b) \union {b + 1}
         /\ IsFiniteSet(StartsTo(r, e))
         /\ Cardinality(StartsTo(r, e)) = Cardinality(StartsTo(r, b)) + 1
         /\ \A a \in StartsTo(r, b) : a <= b
         /\ StartsTo(r, b) \subseteq Nat
<1>1. Bounds(r) \subseteq Nat /\ e \in Nat /\ b \in Nat
  BY EndsAt DEF Bounds
<1>2. {c \in Bounds(r) : c < e} = {c \in Bounds(r) : c < b} \union {b}
  BY <1>1 DEF Bounds
<1>3. StartsTo(r, e) = StartsTo(r, b) \union {b + 1}
  BY <1>2 DEF StartsTo
<1>4. \A a \in StartsTo(r, b) : a \in Nat /\ a <= b
  BY <1>1 DEF StartsTo
<1>5. b + 1 \notin StartsTo(r, b)
  BY <1>1, <1>4
<1>. QED  BY <1>3, <1>4, <1>5, FS_AddElement

\* What the lines say after one more.
LEMMA OneMoreSays ==
  ASSUME NEW r \in Seq(Nat), NEW b \in Bounds(r), NEW e \in Answer!Ends(r), b < e,
         \A f \in Answer!Ends(r) : f <= b \/ f >= e,
         IsFiniteSet(StartsTo(r, b)), NEW kind, NEW fallback
  PROVE  SaysTo(r, e, kind, fallback) =
           IF r[b + 1] \in DOMAIN kind THEN kind[r[b + 1]] ELSE SaysTo(r, b, kind, fallback)
<1>1. /\ StartsTo(r, e) = StartsTo(r, b) \union {b + 1}
      /\ \A a \in StartsTo(r, b) : a <= b
      /\ StartsTo(r, b) \subseteq Nat
  BY OneMore
<1>2. b \in Nat
  BY EndsAt DEF Bounds
<1>3. CASE r[b + 1] \in DOMAIN kind
  <2>1. SayingTo(r, e, kind) = SayingTo(r, b, kind) \union {b + 1}
    BY <1>1, <1>3 DEF SayingTo
  <2>2. SayingTo(r, b, kind) \subseteq StartsTo(r, b)
    BY DEF SayingTo
  <2>3. /\ SayingTo(r, e, kind) \in SUBSET Nat /\ b + 1 \in SayingTo(r, e, kind)
        /\ \A a \in SayingTo(r, e, kind) : a <= b + 1
    BY <1>1, <1>2, <2>1, <2>2
  <2>4. Answer!Latest(SayingTo(r, e, kind)) = b + 1
    BY ONLY <2>3, LatestIs
  <2>. QED  BY <1>3, <2>3, <2>4 DEF SaysTo
<1>4. CASE r[b + 1] \notin DOMAIN kind
  <2>1. SayingTo(r, e, kind) = SayingTo(r, b, kind)
    BY <1>1, <1>4 DEF SayingTo
  <2>. QED  BY <1>4, <2>1 DEF SaysTo
<1>. QED  BY <1>3, <1>4

\* The header ends at h, and nothing before it ends a header.
LEMMA EndOfHeader ==
  ASSUME NEW r \in Seq(Nat), NEW h \in Answer!Empty(r), \A f \in Answer!Empty(r) : h <= f
  PROVE  /\ Answer!HeaderEnd(r) = h /\ Answer!Starts(r) = StartsTo(r, h)
         /\ \A kind, fallback : Answer!Says(r, kind, fallback) = SaysTo(r, h, kind, fallback)
<1>1. h \in Nat /\ h > 0 /\ Answer!Empty(r) \subseteq Nat
  BY EndsAt
<1>2. Answer!HeaderEnd(r) = h
  BY <1>1 DEF Answer!HeaderEnd
<1>3. {c \in Bounds(r) : c < h} = {0} \union {e \in Answer!Ends(r) : e < h}
  BY <1>1 DEF Bounds
<1>4. Answer!Starts(r) = StartsTo(r, h)
  BY <1>2, <1>3 DEF Answer!Starts, StartsTo
<1>. QED  BY <1>2, <1>4 DEF Answer!Says, SaysTo, SayingTo

AnswerInv == HeaderInv /\ ReceivedInv

\* A step that reads nothing.
LEMMA NothingReadKeeps ==
  ASSUME AnswerInv, pc \in BeforeBody, pc' \in BeforeBody \union {"failed", "crashed"},
         UNCHANGED <<reply, at, header>>
  PROVE  AnswerInv'
BY DEF AnswerInv, HeaderInv, Known, LineBehind, BeforeBody, ReceivedInv, header

\* Nothing is claimed before the first request.
LEMMA InitKnows == Init => AnswerInv
BY DEF Init, AnswerInv, HeaderInv, BeforeBody, ReceivedInv

\* A request begins with no line read.
LEMMA RequestKnows == HttpInv /\ Request => AnswerInv'
<1>. SUFFICES ASSUME HttpInv, Request  PROVE AnswerInv'
  OBVIOUS
<1>1. /\ pc' = "lookup" /\ reply' \in Seq(Nat) /\ at' = 0 /\ line' = << >> /\ lines' = 0
      /\ status' = 404 /\ length' = 0
  BY Constants DEF Request
<1>2. /\ Read(reply', 0) /\ IsFiniteSet(StartsTo(reply', 0))
      /\ Cardinality(StartsTo(reply', 0)) = 0
      /\ SaysTo(reply', 0, StatusLine, 404) = 404 /\ SaysTo(reply', 0, LengthLine, 0) = 0
  BY <1>1, NothingRead
<1>3. \A e \in Answer!Ends(reply') : e > 0
  BY <1>1, EndsAt
<1>4. Len(<< >>) = 0 /\ 0 \in Nat /\ 0 = 0 + Len(<< >>)
  OBVIOUS
<1>5. Known(0)' /\ LineBehind(0)'
  BY <1>1, <1>2, <1>3, <1>4 DEF Known, LineBehind
<1>6. HeaderInv'
  BY <1>4, <1>5 DEF HeaderInv, BeforeBody
<1>. QED  BY <1>1, <1>6 DEF AnswerInv, ReceivedInv

\* Connecting reads nothing.
LEMMA ConnectingKnows ==
  HttpInv /\ AnswerInv /\ (Lookup \/ OpenSocket \/ SetNonBlocking \/ Connect) => AnswerInv'
<1>. SUFFICES ASSUME HttpInv, AnswerInv, Lookup \/ OpenSocket \/ SetNonBlocking \/ Connect
              PROVE  AnswerInv'
  OBVIOUS
<1>1. pc \in {"lookup", "socket", "fcntl", "connect"} /\ UNCHANGED <<reply, at, header>>
  BY DEF Lookup, OpenSocket, SetNonBlocking, Connect, Rest
<1>2. ASSUME NEW v, Connected(v)  PROVE pc' \in {"send", "failed", "crashed"}
  BY <1>2 DEF Connected, Fail
<1>3. pc' \in {"socket", "fcntl", "connect", "send", "failed", "crashed"}
  BY <1>2 DEF Lookup, OpenSocket, SetNonBlocking, Connect
<1>. QED  BY <1>1, <1>3, NothingReadKeeps DEF BeforeBody

\* Sending and waiting read nothing.
LEMMA WaitingKnows ==
  HttpInv /\ AnswerInv /\ (Send \/ SendEnds \/ WaitForByte) => AnswerInv'
<1>. SUFFICES ASSUME HttpInv, AnswerInv, Send \/ SendEnds \/ WaitForByte  PROVE AnswerInv'
  OBVIOUS
<1>1. /\ pc \in {"send", "line"} /\ UNCHANGED <<reply, at, header>>
      /\ pc' \in {"send", "line", "crashed"}
  BY DEF Send, SendEnds, WaitForByte, Rest
<1>. QED  BY <1>1, NothingReadKeeps DEF BeforeBody

\* A request that has ended knows nothing.
LEMMA EndedKnows == pc' \in {"idle", "failed", "crashed"} => AnswerInv'
BY DEF AnswerInv, HeaderInv, BeforeBody, ReceivedInv

\* A line that begins behind b, as it is after a byte more: it ends where one of the reply does.
LEMMA LineSoFar ==
  ASSUME HttpInv, at < Len(reply),
         NEW b \in Bounds(reply), at = b + Len(line),
         \A i \in 1..Len(line) : line[i] = reply[b + i],
         NEW l, l = Append(line, reply[at + 1])
  PROVE  /\ b \in Nat /\ Len(l) \in 1..MaxLine /\ at + 1 = b + Len(l)
         /\ \A i \in 1..Len(l) : l[i] = reply[b + i]
         /\ EndsLine(l) <=> at + 1 \in Answer!Ends(reply)
<1>1. /\ line \in Seq(Nat) /\ reply \in Seq(Nat) /\ at \in 0..Len(reply) /\ Len(line) < MaxLine
      /\ Len(line) \in Nat /\ Len(reply) \in Nat /\ at \in Nat
  BY DEF HttpInv, TypeOK
<1>2. b \in Nat
  BY <1>1, EndsAt DEF Bounds
<1>3. reply[at + 1] \in Nat
  BY <1>1
<1>4. /\ Len(l) = Len(line) + 1 /\ l[Len(line) + 1] = reply[at + 1]
      /\ \A i \in 1..Len(line) : l[i] = line[i]
  BY <1>1, <1>3
<1>5. Len(l) \in 1..MaxLine /\ at + 1 = b + Len(l)
  BY <1>1, <1>2, <1>4, Constants
<1>6. \A i \in 1..Len(l) : l[i] = reply[b + i]
  <2>. SUFFICES ASSUME NEW i \in 1..Len(l)  PROVE l[i] = reply[b + i]
    OBVIOUS
  <2>1. i \in 1..Len(line) \/ i = Len(line) + 1
    BY <1>1, <1>4
  <2>2. b + (Len(line) + 1) = at + 1
    BY <1>4, <1>5
  <2>. QED  BY <1>4, <2>1, <2>2
<1>7. ASSUME EndsLine(l)  PROVE at + 1 \in Answer!Ends(reply)
  <2>1. Len(l) > 1 /\ l[Len(l) - 1] = Cr /\ l[Len(l)] = Lf
    BY <1>7 DEF EndsLine
  <2>2. b + (Len(l) - 1) = (at + 1) - 1 /\ Len(l) - 1 \in 1..Len(l) /\ Len(l) \in 1..Len(l)
    BY <1>1, <1>2, <1>5, <2>1
  <2>3. reply[(at + 1) - 1] = Cr /\ reply[at + 1] = Lf
    BY <1>5, <1>6, <2>1, <2>2
  <2>4. at + 1 \in 2..Len(reply)
    <3>1. at \in Nat /\ Len(reply) \in Nat /\ at < Len(reply) /\ Len(l) \in Nat
          /\ at + 1 = b + Len(l) /\ Len(l) > 1 /\ b \in Nat
      BY <1>1, <1>2, <1>5, <2>1
    <3>. QED  BY ONLY <3>1
  <2>. QED  BY <2>3, <2>4 DEF Answer!Ends
<1>8. ASSUME at + 1 \in Answer!Ends(reply)  PROVE EndsLine(l)
  <2>1. reply[(at + 1) - 1] = Cr /\ reply[at + 1] = Lf /\ at # 0 /\ (at + 1) - 1 = at
    BY <1>1, <1>8, EndsAt
  <2>2. Len(line) # 0
    <3>. SUFFICES ASSUME Len(line) = 0  PROVE FALSE
      OBVIOUS
    <3>1. at = b /\ b # 0
      BY <1>2, <2>1
    <3>2. reply[b] = Lf
      BY <1>1, <3>1, EndsAt DEF Bounds
    <3>. QED  BY <2>1, <3>1, <3>2, HttpAssumption
  <2>3. Len(l) > 1 /\ b + (Len(l) - 1) = at /\ Len(l) - 1 \in 1..Len(l) /\ Len(l) \in 1..Len(l)
    BY <1>1, <1>2, <1>4, <1>5, <2>2
  <2>4. l[Len(l) - 1] = Cr /\ l[Len(l)] = Lf
    BY <1>5, <1>6, <2>1, <2>3
  <2>. QED  BY <2>3, <2>4 DEF EndsLine
<1>. QED  BY <1>2, <1>5, <1>6, <1>7, <1>8

\* The line that is read does not end yet.
LEMMA LineGoesOn ==
  ASSUME HttpInv, HeaderInv, pc = "line", pc' = "line", at < Len(reply), at' = at + 1,
         line' = Append(line, reply[at + 1]), ~EndsLine(line'),
         UNCHANGED <<reply, lines, status, length>>
  PROVE  AnswerInv'
<1>0. PICK b \in Nat : Known(b) /\ LineBehind(b)
  BY DEF HeaderInv, BeforeBody
<1>1. /\ Read(reply, b) /\ at = b + Len(line)
      /\ \A i \in 1..Len(line) : line[i] = reply[b + i]
      /\ \A e \in Answer!Ends(reply) : e <= b \/ e > at
  BY <1>0 DEF Known, LineBehind
<1>2. b \in Bounds(reply)
  BY <1>1 DEF Read
<1>3. /\ Len(line') \in 1..MaxLine /\ at + 1 = b + Len(line')
      /\ \A i \in 1..Len(line') : line'[i] = reply[b + i]
      /\ at + 1 \notin Answer!Ends(reply)
  BY <1>1, <1>2, LineSoFar
<1>4. at \in Nat /\ reply \in Seq(Nat)
  BY DEF HttpInv, TypeOK
<1>5. \A e \in Answer!Ends(reply) : e <= b \/ e > at + 1
  <2>. SUFFICES ASSUME NEW e \in Answer!Ends(reply)  PROVE e <= b \/ e > at + 1
    OBVIOUS
  <2>1. e \in Nat /\ e # at + 1 /\ (e <= b \/ e > at)
    BY <1>1, <1>3, <1>4, EndsAt
  <2>. QED  BY ONLY <1>4, <2>1
<1>6. Known(b)' /\ LineBehind(b)'
  BY <1>0, <1>3, <1>5 DEF Known, LineBehind
<1>7. HeaderInv'
  BY <1>6 DEF HeaderInv, BeforeBody
<1>. QED  BY <1>7 DEF AnswerInv, ReceivedInv

\* A line ends at e, and it is not empty: what is known of the lines up to b is known of
\* those up to e.
LEMMA LineRead ==
  ASSUME NEW r \in Seq(Nat), NEW b \in Nat, Read(r, b), NEW e \in Answer!Ends(r),
         b + 2 < e, e <= b + MaxLine,
         \A f \in Answer!Ends(r) : f <= b \/ f >= e,
         IsFiniteSet(StartsTo(r, b))
  PROVE  Read(r, e)
<1>1. e \in Nat /\ e \in Bounds(r) /\ b \in Bounds(r)
  BY EndsAt DEF Bounds, Read
<1>2. ASSUME NEW f \in Answer!Empty(r)  PROVE f > e
  <2>1. f \in Nat /\ f \in Answer!Ends(r) /\ f > b
    BY <1>2, EndsAt DEF Read
  <2>2. f - 2 \in Answer!Ends(r) \union {0}
    BY <1>2 DEF Answer!Empty
  <2>3. f # e
    <3>. SUFFICES ASSUME f = e  PROVE FALSE
      OBVIOUS
    <3>1. e - 2 \in Int /\ e - 2 > b /\ e - 2 < e /\ e - 2 # 0
      BY <1>1
    <3>2. e - 2 \in Answer!Ends(r)
      BY <2>2, <3>1
    <3>3. e - 2 <= b \/ e - 2 >= e
      BY <3>2
    <3>. QED  BY ONLY <1>1, <3>1, <3>3
  <2>. QED  BY <1>1, <2>1, <2>3
<1>3. StartsTo(r, e) = StartsTo(r, b) \union {b + 1}
  BY <1>1, OneMore
<1>4. b + 1 < e /\ e < (b + 1) + MaxLine
  BY <1>1, Constants
<1>5. \A a \in StartsTo(r, e) : \E f \in Answer!Ends(r) : a < f /\ f < a + MaxLine
  BY <1>3, <1>4 DEF Read
<1>. QED  BY <1>1, <1>2, <1>5 DEF Read

\* The line that is read ends.
LEMMA LineComplete ==
  ASSUME HttpInv, HeaderInv, pc = "line", at < Len(reply),
         NEW l, l = Append(line, reply[at + 1]), EndsLine(l)
  PROVE  \E b \in Nat : Known(b) /\ Complete(b, l)
<1>0. PICK b \in Nat : Known(b) /\ LineBehind(b)
  BY DEF HeaderInv, BeforeBody
<1>1. /\ Read(reply, b) /\ at = b + Len(line)
      /\ \A i \in 1..Len(line) : line[i] = reply[b + i]
      /\ \A e \in Answer!Ends(reply) : e <= b \/ e > at
  BY <1>0 DEF Known, LineBehind
<1>2. b \in Bounds(reply)
  BY <1>1 DEF Read
<1>3. /\ Len(l) \in 1..MaxLine /\ at + 1 = b + Len(l)
      /\ \A i \in 1..Len(l) : l[i] = reply[b + i]
      /\ at + 1 \in Answer!Ends(reply)
  BY <1>1, <1>2, LineSoFar
<1>4. Len(l) > 1
  BY DEF EndsLine
<1>5. at \in Nat /\ reply \in Seq(Nat)
  BY DEF HttpInv, TypeOK
<1>6. ASSUME NEW f \in Answer!Ends(reply)  PROVE f <= b \/ f >= at + 1
  <2>1. f \in Nat /\ (f <= b \/ f > at)
    BY <1>1, <1>5, EndsAt
  <2>. QED  BY ONLY <1>5, <2>1
<1>7. Len(l) \in 2..MaxLine
  BY <1>3, <1>4, Constants
<1>. QED  BY <1>0, <1>3, <1>6, <1>7 DEF Complete

\* A line that is not empty is known from then on.
LEMMA HeaderLineKnows ==
  ASSUME HttpInv, HeaderInv, pc = "line", at < Len(reply), at' = at + 1, UNCHANGED reply,
         NEW l, l = Append(line, reply[at + 1]), EndsLine(l), Len(l) # 2,
         HeaderLine(SubSeq(l, 1, Len(l) - 2))
  PROVE  AnswerInv'
<1>0. PICK b \in Nat : Known(b) /\ Complete(b, l)
  BY LineComplete
<1>1. /\ Read(reply, b) /\ IsFiniteSet(StartsTo(reply, b))
      /\ lines = Cardinality(StartsTo(reply, b))
      /\ status = SaysTo(reply, b, StatusLine, 404)
      /\ length = SaysTo(reply, b, LengthLine, 0)
      /\ at + 1 = b + Len(l) /\ Len(l) \in 2..MaxLine
      /\ \A i \in 1..Len(l) : l[i] = reply[b + i]
      /\ at + 1 \in Answer!Ends(reply)
      /\ \A f \in Answer!Ends(reply) : f <= b \/ f >= at + 1
  BY <1>0 DEF Known, Complete
<1>. DEFINE text == SubSeq(l, 1, Len(l) - 2)
<1>10. PICK e : e = at + 1
  OBVIOUS
<1>2. /\ reply \in Seq(Nat) /\ line \in Seq(Nat) /\ reply[at + 1] \in Nat /\ at \in Nat
      /\ lines \in Nat
  BY DEF HttpInv, TypeOK
<1>3. l \in Seq(Nat) /\ Len(l) \in Nat /\ Len(l) > 2 /\ b \in Bounds(reply)
  <2>1. l \in Seq(Nat)
    BY <1>2
  <2>2. Len(l) \in Nat /\ Len(l) > 2
    BY <1>1, Constants
  <2>. QED  BY <1>1, <2>1, <2>2 DEF Read
<1>4. text[1] = reply[b + 1]
  <2>1. text[1] = l[1]
    BY <1>3
  <2>2. 1 \in 1..Len(l)
    BY <1>3
  <2>3. l[1] = reply[b + 1]
    BY <1>1, <2>2
  <2>. QED  BY <2>1, <2>3
<1>5. e \in Nat /\ b + 2 < e /\ e <= b + MaxLine /\ b < e
  BY <1>10, <1>1, <1>2, <1>3, Constants
<1>6. CASE lines + 1 = MaxLines
  BY <1>6, EndedKnows DEF HeaderLine, Fail
<1>7. CASE lines + 1 # MaxLines
  <2>1. /\ pc' \in {"line", "crashed"} /\ line' = << >> /\ lines' = lines + 1
        /\ status' = Scanned(text, StatusLine, status)
        /\ length' = Scanned(text, LengthLine, length)
    BY <1>7 DEF HeaderLine
  <2>2. /\ e \in Answer!Ends(reply) /\ at' = e /\ IsFiniteSet(StartsTo(reply, b))
        /\ \A f \in Answer!Ends(reply) : f <= b \/ f >= e
    BY <1>1, <1>10
  <2>. HIDE DEF text
  <2>3. Read(reply, e)
    BY <1>1, <1>2, <1>5, <2>2, LineRead
  <2>4. /\ IsFiniteSet(StartsTo(reply, e)) /\ lines' = Cardinality(StartsTo(reply, e))
    <3>1. /\ IsFiniteSet(StartsTo(reply, e))
          /\ Cardinality(StartsTo(reply, e)) = Cardinality(StartsTo(reply, b)) + 1
      BY ONLY <1>2, <1>3, <1>5, <2>2, OneMore
    <3>. QED  BY <1>1, <2>1, <3>1
  <2>5. /\ status' = SaysTo(reply, e, StatusLine, 404)
        /\ length' = SaysTo(reply, e, LengthLine, 0)
    <3>1. \A kind, fallback :
            SaysTo(reply, e, kind, fallback) =
              IF reply[b + 1] \in DOMAIN kind THEN kind[reply[b + 1]]
              ELSE SaysTo(reply, b, kind, fallback)
      BY ONLY <1>2, <1>3, <1>5, <2>2, OneMoreSays
    <3>. QED  BY <1>1, <1>4, <2>1, <3>1 DEF Scanned
  <2>6. \A f \in Answer!Ends(reply) : f <= e \/ f > e
    BY <1>2, <1>5, EndsAt
  <2>7. at' = e + Len(<< >>) /\ Len(<< >>) = 0
    BY <1>5, <2>2
  <2>8. HeaderInv'
    <3>1. Known(e)' /\ LineBehind(e)'
      <4>1. Known(e)'
        BY <2>3, <2>4, <2>5 DEF Known
      <4>2. \A i \in 1..Len(<< >>) : << >>[i] = reply[e + i]
        BY <2>7
      <4>3. LineBehind(e)'
        BY <2>1, <2>2, <2>6, <2>7, <4>2 DEF LineBehind
      <4>. QED  BY <4>1, <4>3
    <3>. QED  BY <1>5, <3>1 DEF HeaderInv, BeforeBody
  <2>. QED  BY <2>1, <2>8 DEF AnswerInv, ReceivedInv
<1>. QED  BY <1>6, <1>7

\* The header ends, and is accepted.
LEMMA EmptyLineKnows ==
  ASSUME HttpInv, HeaderInv, pc = "line", at < Len(reply), at' = at + 1,
         UNCHANGED <<reply, transfer>>,
         NEW l, l = Append(line, reply[at + 1]), EndsLine(l), Len(l) = 2,
         EmptyLine
  PROVE  AnswerInv'
<1>1. CASE pc' = "failed"
  BY <1>1, EndedKnows
<1>2. CASE pc' # "failed"
  <2>0. PICK b \in Nat : Known(b) /\ Complete(b, l)
    BY LineComplete
  <2>1. /\ Read(reply, b) /\ IsFiniteSet(StartsTo(reply, b))
        /\ lines = Cardinality(StartsTo(reply, b))
        /\ status = SaysTo(reply, b, StatusLine, 404)
        /\ length = SaysTo(reply, b, LengthLine, 0)
        /\ at + 1 = b + Len(l) /\ Len(l) \in 2..MaxLine
        /\ \A i \in 1..Len(l) : l[i] = reply[b + i]
        /\ at + 1 \in Answer!Ends(reply)
        /\ \A f \in Answer!Ends(reply) : f <= b \/ f >= at + 1
    BY <2>0 DEF Known, Complete
  <2>. DEFINE h == at + 1
  <2>2. /\ reply \in Seq(Nat) /\ at \in Nat /\ lines \in Nat /\ length \in Nat
        /\ lines + 1 <= MaxLines /\ moved = 0
    BY <1>2, Constants DEF HttpInv, TypeOK, LineInv
  <2>3. /\ h = b + 2 /\ h \in Nat /\ b < h /\ at' = h /\ b \in Bounds(reply)
        /\ h \in Answer!Ends(reply)
        /\ \A f \in Answer!Ends(reply) : f <= b \/ f >= h
        /\ IsFiniteSet(StartsTo(reply, b))
    <3>1. b \in Bounds(reply)
      BY <2>1 DEF Read
    <3>2. h = b + 2 /\ at' = h
      BY <2>1
    <3>. QED  BY <2>1, <3>1, <3>2
  <2>. HIDE DEF h
  <2>4. h \in Answer!Empty(reply) /\ \A f \in Answer!Empty(reply) : h <= f
    <3>1. h - 2 = b
      BY <2>3
    <3>2. h \in Answer!Empty(reply)
      BY <2>3, <3>1 DEF Answer!Empty, Bounds
    <3>3. ASSUME NEW f \in Answer!Empty(reply)  PROVE h <= f
      <4>1. f \in Nat /\ f \in Answer!Ends(reply) /\ f > b
        BY <2>1, <2>2, <3>3, EndsAt DEF Read
      <4>2. f <= b \/ f >= h
        BY <2>3, <4>1
      <4>. QED  BY ONLY <2>3, <4>1, <4>2
    <3>. QED  BY <3>2, <3>3
  <2>5. /\ Answer!HeaderEnd(reply) = h /\ Answer!Starts(reply) = StartsTo(reply, h)
        /\ Answer!Says(reply, StatusLine, 404) = SaysTo(reply, h, StatusLine, 404)
        /\ Answer!Says(reply, LengthLine, 0) = SaysTo(reply, h, LengthLine, 0)
    BY <2>2, <2>4, EndOfHeader
  <2>6. reply[b + 1] = Cr
    <3>1. l[1] = Cr
      BY DEF EndsLine
    <3>. QED  BY <2>1, <3>1
  <2>7. /\ Answer!Says(reply, StatusLine, 404) = status
        /\ Answer!Says(reply, LengthLine, 0) = length
    <3>1. \A kind, fallback :
            SaysTo(reply, h, kind, fallback) =
              IF reply[b + 1] \in DOMAIN kind THEN kind[reply[b + 1]]
              ELSE SaysTo(reply, b, kind, fallback)
      BY ONLY <2>2, <2>3, OneMoreSays
    <3>2. Cr \notin DOMAIN StatusLine /\ Cr \notin DOMAIN LengthLine
      BY HttpAssumption
    <3>. QED  BY <2>1, <2>5, <2>6, <3>1, <3>2
  <2>8. Answer!LinesFit(reply)
    <3>1. StartsTo(reply, h) = StartsTo(reply, b) \union {b + 1}
          /\ Cardinality(StartsTo(reply, h)) = Cardinality(StartsTo(reply, b)) + 1
      BY ONLY <2>2, <2>3, OneMore
    <3>2. b + 1 < h /\ h < (b + 1) + MaxLine
      BY <2>3, Constants
    <3>3. \A a \in StartsTo(reply, h) : \E f \in Answer!Ends(reply) : a < f /\ f < a + MaxLine
      BY <2>1, <2>3, <3>1, <3>2 DEF Read
    <3>4. Cardinality(StartsTo(reply, h)) <= MaxLines
      BY <2>1, <2>2, <3>1
    <3>. QED  BY <2>5, <3>3, <3>4, SameCount DEF Answer!LinesFit
  <2>9. /\ pc' \in {"body", "crashed"} /\ status' = 200 /\ status = 200 /\ length # 0
        /\ length' = length /\ moved' = 0
    BY <1>2, <2>2 DEF EmptyLine, Fail, transfer
  <2>10. ReceivedInv'
    BY <2>2, <2>3, <2>4, <2>5, <2>7, <2>8, <2>9 DEF ReceivedInv
  <2>. QED  BY <2>9, <2>10 DEF AnswerInv, HeaderInv, BeforeBody
<1>. QED  BY <1>1, <1>2

\* A byte goes on with a line, ends one, or ends the request.
LEMMA ReadByteKnows == HttpInv /\ AnswerInv /\ ReadByte => AnswerInv'
<1>. SUFFICES ASSUME HttpInv, AnswerInv, ReadByte  PROVE AnswerInv'
  OBVIOUS
<1>. DEFINE l == Append(line, reply[at + 1])
<1>1. /\ pc = "line" /\ at < Len(reply) /\ at' = at + 1 /\ UNCHANGED <<reply, transfer>>
      /\ HeaderInv
  BY DEF ReadByte, Rest, AnswerInv
<1>2. CASE NoLine
  BY <1>2, EndedKnows DEF NoLine, Fail
<1>3. CASE EndsLine(l) /\ Len(l) = 2 /\ EmptyLine
  BY <1>1, <1>3, EmptyLineKnows
<1>4. CASE EndsLine(l) /\ Len(l) # 2 /\ HeaderLine(SubSeq(l, 1, Len(l) - 2))
  BY <1>1, <1>4, HeaderLineKnows
<1>5. CASE ~EndsLine(l) /\ line' = l /\ UNCHANGED <<pc, lines, status, length>>
  BY <1>1, <1>5, LineGoesOn
<1>. HIDE DEF l
<1>6. \/ NoLine
      \/ EndsLine(l) /\ Len(l) = 2 /\ EmptyLine
      \/ EndsLine(l) /\ Len(l) # 2 /\ HeaderLine(SubSeq(l, 1, Len(l) - 2))
      \/ ~EndsLine(l) /\ line' = l /\ UNCHANGED <<pc, lines, status, length>>
  BY DEF ReadByte, l
<1>. QED  BY <1>2, <1>3, <1>4, <1>5, <1>6

\* The elements of a concatenation.
LEMMA Joined ==
  ASSUME NEW a \in Seq(Nat), NEW b \in Seq(Nat), NEW i \in 1..Len(a) + Len(b)
  PROVE  (a \o b)[i] = IF i <= Len(a) THEN a[i] ELSE b[i - Len(a)]
OBVIOUS

\* What is received continues the body.
LEMMA ReadBodyKnows == HttpInv /\ AnswerInv /\ ReadBody => AnswerInv'
<1>. SUFFICES ASSUME HttpInv, AnswerInv, ReadBody  PROVE AnswerInv'
  OBVIOUS
<1>1. pc = "body" /\ pc' = "body" /\ UNCHANGED <<reply, length>>
  BY DEF ReadBody, Rest, header
<1>2. CASE moved' = moved /\ UNCHANGED <<at, data>>
  BY <1>1, <1>2 DEF AnswerInv, HeaderInv, BeforeBody, ReceivedInv
<1>3. ASSUME NEW n \in 1..Chunk, at + n <= Len(reply), moved' = moved + n, at' = at + n,
             data' = data \o SubSeq(reply, at + 1, at + n)
      PROVE  AnswerInv'
  <2>. DEFINE h == Answer!HeaderEnd(reply)
              got == SubSeq(reply, at + 1, at + n)
  <2>1. /\ h \in Nat /\ at = h + moved /\ \A i \in 1..moved : data[i] = reply[h + i]
    BY <1>1 DEF AnswerInv, ReceivedInv
  <2>2. /\ data \in Seq(Nat) /\ Len(data) = moved /\ moved \in Nat /\ at \in Nat
        /\ reply \in Seq(Nat) /\ Len(reply) \in Nat /\ n \in Nat
    BY <1>1, Constants DEF HttpInv, TypeOK, BodyFits
  <2>3. got \in Seq(Nat) /\ Len(got) = n /\ \A i \in 1..n : got[i] = reply[at + i]
    BY <1>3, <2>2
  <2>. HIDE DEF h, got
  <2>4. \A i \in 1..moved + n : data'[i] = reply[h + i]
    <3>. SUFFICES ASSUME NEW i \in 1..moved + n  PROVE data'[i] = reply[h + i]
      OBVIOUS
    <3>1. data'[i] = IF i <= moved THEN data[i] ELSE got[i - moved]
      <4>1. data' = data \o got
        BY <1>3 DEF got
      <4>2. i \in 1..Len(data) + Len(got)
        BY <2>2, <2>3
      <4>. QED  BY ONLY <2>2, <2>3, <4>1, <4>2, Joined
    <3>2. CASE i <= moved
      <4>1. i \in 1..moved
        BY <2>2, <3>2
      <4>. QED  BY <2>1, <3>1, <3>2, <4>1
    <3>3. CASE ~(i <= moved)
      <4>1. i - moved \in 1..n /\ at + (i - moved) = h + i
        BY ONLY <2>1, <2>2, <3>3
      <4>. QED  BY <2>3, <3>1, <3>3, <4>1
    <3>. QED  BY <3>2, <3>3
  <2>5. at' = h + moved'
    BY <1>3, <2>1, <2>2
  <2>6. /\ Answer!Empty(reply) # {} /\ Answer!LinesFit(reply)
        /\ Answer!Says(reply, StatusLine, 404) = 200
        /\ Answer!Says(reply, LengthLine, 0) = length /\ length > 0
    BY <1>1 DEF AnswerInv, ReceivedInv
  <2>7. Answer!HeaderEnd(reply') = h
    BY <1>1 DEF h
  <2>8. ReceivedInv'
    BY <1>1, <1>3, <2>1, <2>4, <2>5, <2>6, <2>7 DEF ReceivedInv
  <2>. QED  BY <1>1, <2>8 DEF AnswerInv, HeaderInv, BeforeBody
<1>4. \/ moved' = moved /\ UNCHANGED <<at, data>>
      \/ \E n \in 1..Chunk : /\ at + n <= Len(reply) /\ moved' = moved + n /\ at' = at + n
                             /\ data' = data \o SubSeq(reply, at + 1, at + n)
  BY DEF ReadBody, Wait, Move
<1>. QED  BY <1>2, <1>3, <1>4

\* Success adds nothing to what is known.
LEMMA SucceedKnows == HttpInv /\ AnswerInv /\ Succeed => AnswerInv'
BY DEF Succeed, Rest, header, body, transfer, AnswerInv, HeaderInv, BeforeBody, ReceivedInv

\* AnswerInv is kept by every step.
LEMMA NextKnows == HttpInv /\ AnswerInv /\ [Next]_vars => AnswerInv'
<1>. SUFFICES ASSUME HttpInv, AnswerInv, [Next]_vars  PROVE AnswerInv'
  OBVIOUS
<1>1. CASE UNCHANGED vars
  BY <1>1 DEF vars, header, body, transfer, AnswerInv, HeaderInv, BeforeBody, Known, LineBehind,
              ReceivedInv
<1>2. CASE ReadLineFails \/ LineTimesOut \/ BodyFails \/ GetResult
  BY <1>2, EndedKnows DEF ReadLineFails, LineTimesOut, NoLine, BodyFails, Fail, GetResult
<1>. QED
  BY <1>1, <1>2, RequestKnows, ConnectingKnows, WaitingKnows, ReadByteKnows, ReadBodyKnows,
     SucceedKnows
  DEF Next, Work

\* What is known when a request has succeeded: the reply is good, and its body was received.
LEMMA ReceivedIsBody ==
  ASSUME HttpInv, ReceivedInv, pc = "body", moved = length
  PROVE  Answer!Good(reply) /\ data = Answer!Body(reply)
<1>. DEFINE h == Answer!HeaderEnd(reply)
<1>1. /\ Answer!Empty(reply) # {} /\ Answer!LinesFit(reply)
      /\ Answer!Says(reply, StatusLine, 404) = 200
      /\ Answer!Says(reply, LengthLine, 0) = length /\ length > 0
      /\ h \in Nat /\ at = h + length
      /\ \A i \in 1..length : data[i] = reply[h + i]
  BY DEF ReceivedInv
<1>2. /\ data \in Seq(Nat) /\ Len(data) = length /\ length \in Nat /\ length <= MaxSize
      /\ reply \in Seq(Nat) /\ at <= Len(reply) /\ Len(reply) \in Nat
  BY DEF HttpInv, TypeOK, BodyFits
<1>. HIDE DEF h
<1>3. length \in 1..MaxSize /\ h + length <= Len(reply)
  BY <1>1, <1>2, Constants
<1>4. Answer!Good(reply)
  BY <1>1, <1>3 DEF Answer!Good, h
<1>. DEFINE content == SubSeq(reply, h + 1, h + length)
<1>5. /\ content \in Seq(Nat) /\ Len(content) = length
      /\ \A i \in 1..length : content[i] = reply[h + i]
  BY <1>1, <1>2, <1>3
<1>. HIDE DEF content
<1>6. data = content
  <2>1. data = [i \in 1..length |-> data[i]]
    BY ONLY <1>2
  <2>2. content = [i \in 1..length |-> content[i]]
    BY ONLY <1>2, <1>5
  <2>3. \A i \in 1..length : data[i] = content[i]
    BY ONLY <1>1, <1>5
  <2>. QED  BY ONLY <2>1, <2>2, <2>3
<1>. QED  BY <1>1, <1>4, <1>6 DEF Answer!Body, content, h

\* A step inside a request is none of HttpAnswer, unless it ends the request.
LEMMA WorkIsGiveUp ==
  ASSUME pc \in Working, pc' \in Working \union {"failed", "crashed"}, UNCHANGED reply
  PROVE  [Answer!Next]_(Answer!hvars)
<1>1. CASE pc' \in Working
  BY <1>1 DEF Answer!hvars, Outcome, Working
<1>2. CASE pc' = "failed"
  BY <1>2 DEF Answer!Next, Answer!GiveUp, Outcome, Working
<1>3. CASE pc' = "crashed"
  BY <1>3 DEF Answer!Next, Answer!Crash, Outcome, Working
<1>. QED  BY <1>1, <1>2, <1>3

\* Each step is one of HttpAnswer or changes none of its variables.
LEMMA StepsAnswer == HttpInv /\ AnswerInv /\ [Next]_vars => [Answer!Next]_(Answer!hvars)
<1>. SUFFICES ASSUME HttpInv, AnswerInv, [Next]_vars  PROVE [Answer!Next]_(Answer!hvars)
  OBVIOUS
<1>1. CASE UNCHANGED vars
  BY <1>1 DEF vars, body, Answer!hvars, Outcome
<1>2. CASE Request
  BY <1>2 DEF Request, Answer!Next, Answer!Request, Outcome, Working
<1>3. CASE Lookup \/ OpenSocket \/ SetNonBlocking \/ Connect
  <2>1. pc \in Working /\ UNCHANGED reply
    BY <1>3 DEF Lookup, OpenSocket, SetNonBlocking, Connect, Rest, Working
  <2>2. ASSUME NEW v, Connected(v)  PROVE pc' \in {"send", "failed", "crashed"}
    BY <2>2 DEF Connected, Fail
  <2>3. pc' \in {"socket", "fcntl", "connect", "send", "failed", "crashed"}
    BY <1>3, <2>2 DEF Lookup, OpenSocket, SetNonBlocking, Connect
  <2>. QED  BY <2>1, <2>3, WorkIsGiveUp DEF Working
<1>4. CASE Send \/ SendEnds \/ WaitForByte \/ ReadLineFails \/ LineTimesOut \/ ReadBody \/ BodyFails
  <2>1. /\ pc \in Working /\ UNCHANGED reply
        /\ pc' \in {"send", "line", "body", "failed", "crashed"}
    BY <1>4 DEF Send, SendEnds, WaitForByte, ReadLineFails, LineTimesOut, ReadBody, BodyFails,
                NoLine, Fail, Rest, Working
  <2>. QED  BY <2>1, WorkIsGiveUp DEF Working
<1>5. CASE ReadByte
  <2>1. pc = "line" /\ UNCHANGED reply
    BY <1>5 DEF ReadByte, Rest
  <2>2. \A text : HeaderLine(text) => pc' \in {"line", "failed", "crashed"}
    BY DEF HeaderLine, Fail
  <2>3. NoLine \/ EmptyLine => pc' \in {"body", "failed", "crashed"}
    BY DEF NoLine, EmptyLine, Fail
  <2>4. pc' \in {"line", "body", "failed", "crashed"}
    BY <1>5, <2>1, <2>2, <2>3 DEF ReadByte
  <2>. QED  BY <2>1, <2>4, WorkIsGiveUp DEF Working
<1>6. CASE Succeed
  <2>1. /\ pc = "body" /\ pc' = "ok" /\ UNCHANGED <<reply, data>>
        /\ Answer!Good(reply) /\ data = Answer!Body(reply)
    BY <1>6, ReceivedIsBody DEF Succeed, Rest, body, AnswerInv
  <2>. QED  BY <2>1 DEF Answer!Next, Answer!Succeed, Outcome, Working
<1>7. CASE GetResult
  BY <1>7 DEF GetResult, Answer!Next, Answer!Take, Outcome, Working
<1>. QED  BY <1>1, <1>2, <1>3, <1>4, <1>5, <1>6, <1>7 DEF Next, Work

\* For replies of any length, cut into tries in any way, and bounds of any size: what is
\* accepted is a complete reply with status 200 and a length that fits, looked at as a
\* whole, and the caller gets its body as it was sent (http.c:127-226, 295-376). This is
\* AnswerSpec but for its fairness.
THEOREM OnlyGoodAnswers == Spec => Answer!Init /\ [][Answer!Next]_(Answer!hvars)
<1>1. Init => Answer!Init
  BY DEF Init, Answer!Init, Outcome, Working
<1>2. Init => HttpInv /\ AnswerInv
  BY InitHolds, InitKnows
<1>3. HttpInv /\ AnswerInv /\ [Next]_vars => (HttpInv /\ AnswerInv)'
  BY NextKeeps, NextKnows
<1>. QED  BY <1>1, <1>2, <1>3, StepsAnswer, PTL DEF Spec
============================================================================
