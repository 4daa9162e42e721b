-------------------------------- MODULE Http -------------------------------
(***************************************************************************)
(* http_request() and http_get_result() of src/http.c with the functions   *)
(* over a non-blocking socket they are made of. A try of the network, with *)
(* the look at the clock before it, is a step: it may succeed, have        *)
(* nothing yet, or fail. A tick of the clock is the 20 ms that are slept   *)
(* when there was nothing yet. A text that sscanf() finds at the beginning *)
(* of a line is one byte; there are no bytes 0.                            *)
(***************************************************************************)
EXTENDS Integers, Sequences

CONSTANTS
  Replies,        \* what a server may send until it closes the connection
  Cr, Lf,
  StatusLine,     \* bytes that stand for "HTTP/1.x n", and n
  LengthLine,     \* bytes that stand for "Content-Length: n", and n
  MaxLine,        \* 0xff: bytes of a line, its end included
  MaxLines,       \* 32
  MaxSize,        \* max_size
  RequestSize,    \* strlen(request)
  Chunk,          \* 2048: bytes of a try
  TcpBlock,       \* TCP_BLOCK_SIZE
  ConnectTimeout, SendTimeout, RecvTimeout,   \* in ticks
  HttpTimeout, U16,   \* HTTP_TIMEOUT and where a u16 wraps, in ticks
  Sockets,        \* what net_socket() returns if it succeeds
  Errors,         \* what the calls of the network return if they fail, and errno
  MaxRequests     \* bound: requests

ASSUME HttpAssumption ==
  /\ Cr # Lf /\ \A r \in Replies : r \in Seq(Nat)
  /\ {Cr, Lf} \intersect (DOMAIN StatusLine \union DOMAIN LengthLine) = {}
  /\ \A b \in DOMAIN StatusLine : StatusLine[b] \in Nat
  /\ \A b \in DOMAIN LengthLine : LengthLine[b] \in Nat
  /\ MaxLine \in Nat \ {0, 1} /\ MaxLines \in Nat \ {0} /\ MaxSize \in Nat
  /\ RequestSize \in Nat \ {0} /\ Chunk \in Nat \ {0}
  /\ TcpBlock \in Nat /\ Chunk <= TcpBlock
  /\ ConnectTimeout \in Nat /\ SendTimeout \in Nat /\ RecvTimeout \in Nat
  /\ HttpTimeout \in Nat /\ U16 \in Nat \ {0} /\ MaxRequests \in Nat
  /\ Sockets \subseteq Nat /\ Sockets # {}
  \* The network library counts its errors, and sets errno, below 0.
  /\ \A e \in Errors : e \in Int /\ e < 0

VARIABLES
  pc,       \* the loop or call http_request() is at; "ok" and "failed": returned
  s, open,  \* the socket; those that are open
  timer,    \* ticks since t or start_time
  moved, step,      \* sent or received; step
  spent,            \* history: ticks since the transfer began
  reply, at,        \* what the server sends, and how much of it was read
  line, lines,      \* buf[0..c - 1]; linecount
  status, length,   \* http_status, content_length
  block, data,      \* http_data is not NULL; what was received in it
  result,
  names, lost,      \* http_host and http_path are allocated; pairs that were lost
  requests

transfer == <<moved, step, spent>>
header   == <<line, lines, status, length>>
body     == <<block, data>>
vars == <<pc, s, open, timer, transfer, reply, at, header, body, result, names, lost, requests>>

Rest == UNCHANGED <<reply, names, lost, requests>>

\* The time-out is passed as a u16.
LineTimeout == HttpTimeout % U16

Close == open' = open \ {s}

Fail(why) == pc' = "failed" /\ result' = why

Tick == timer' = timer + 1

----------------------------------------------------------------------------
Init ==
  /\ pc = "idle" /\ s = 0 /\ open = {} /\ timer = 0
  /\ moved = 0 /\ step = 0 /\ spent = 0
  /\ reply = << >> /\ at = 0 /\ line = << >> /\ lines = 0
  /\ status = 0 /\ length = 0 /\ block = FALSE /\ data = << >> /\ result = "ok"
  /\ names = FALSE /\ lost = 0 /\ requests = 0

\* A bug this guards against: the length of the last reply is kept.
RequestKeepsLength ==
  /\ pc \in {"idle", "failed"} /\ requests < MaxRequests
  /\ pc' = "lookup" /\ requests' = requests + 1
  /\ names' = TRUE /\ lost' = lost + (IF names THEN 1 ELSE 0)
  /\ reply' \in Replies /\ at' = 0
  /\ status' = 404 /\ block' = FALSE /\ data' = << >>
  /\ line' = << >> /\ lines' = 0
  /\ s' = 0 /\ timer' = 0 /\ moved' = 0 /\ step' = 0 /\ spent' = 0
  /\ UNCHANGED <<open, length, result>>

\* The caller makes another request, whatever became of the last; what is local to
\* the functions is new.
Request ==
  /\ pc \in {"idle", "failed"} /\ requests < MaxRequests
  /\ pc' = "lookup" /\ requests' = requests + 1
  /\ names' = TRUE /\ lost' = lost + (IF names THEN 1 ELSE 0)
  /\ reply' \in Replies /\ at' = 0
  /\ status' = 404 /\ length' = 0 /\ block' = FALSE /\ data' = << >>
  /\ line' = << >> /\ lines' = 0
  /\ s' = 0 /\ timer' = 0 /\ moved' = 0 /\ step' = 0 /\ spent' = 0
  /\ UNCHANGED <<open, result>>

----------------------------------------------------------------------------
(* tcp_connect() and tcp_socket()                                          *)

\* http_request() has what tcp_connect() returned.
Connected(v) ==
  /\ s' = v
  /\ IF v < 0
     THEN Fail("connect") /\ UNCHANGED <<timer, transfer>>
     ELSE /\ pc' \in {"send", "crashed"}   \* memalign() is not checked
          /\ timer' = 0 /\ moved' = 0 /\ step' = 0 /\ spent' = 0
          /\ UNCHANGED result

\* net_gethostbyname(); if it fails errno is returned.
Lookup ==
  /\ pc = "lookup"
  /\ \/ pc' = "socket" /\ UNCHANGED <<s, timer, transfer, result>>
     \/ \E errno \in Errors : Connected(errno)
  /\ UNCHANGED <<open, at, header, body>> /\ Rest

\* net_socket().
OpenSocket ==
  /\ pc = "socket"
  /\ \/ \E fd \in Sockets \ open :
          /\ s' = fd /\ open' = open \union {fd} /\ pc' = "fcntl"
          /\ UNCHANGED <<timer, transfer, result>>
     \/ (\E e \in Errors : Connected(e)) /\ UNCHANGED open
  /\ UNCHANGED <<at, header, body>> /\ Rest

\* A bug this guards against: the socket stays open when it cannot be set up.
SetNonBlockingForgets ==
  /\ pc = "fcntl"
  /\ \/ pc' = "connect" /\ timer' = 0 /\ UNCHANGED <<s, open, transfer, result>>
     \/ (\E e \in Errors : Connected(e)) /\ UNCHANGED open
  /\ UNCHANGED <<at, header, body>> /\ Rest

\* Both calls of net_fcntl().
SetNonBlocking ==
  /\ pc = "fcntl"
  /\ \/ pc' = "connect" /\ timer' = 0 /\ UNCHANGED <<s, open, transfer, result>>
     \/ (\E e \in Errors : Connected(e)) /\ Close
  /\ UNCHANGED <<at, header, body>> /\ Rest

\* The time is up, or net_connect() succeeds, has not yet, or fails.
Connect ==
  /\ pc = "connect"
  /\ \/ timer > ConnectTimeout /\ (\E e \in Errors : Connected(e)) /\ Close
     \/ /\ timer <= ConnectTimeout
        /\ \/ Connected(s) /\ UNCHANGED open
           \/ Tick /\ UNCHANGED <<pc, s, open, transfer, result>>
           \/ (\E e \in Errors : Connected(e)) /\ Close
  /\ UNCHANGED <<at, header, body>> /\ Rest

----------------------------------------------------------------------------
(* tcp_write(), tcp_readln() and tcp_read()                                *)

\* A bug this guards against: the clock is started anew with every try.
MoveRestarts(n) ==
  /\ moved' = moved + n /\ timer' = 0 /\ step' = (moved + n) \div TcpBlock
  /\ \E ticks \in 0..1 : spent' = spent + ticks

\* n bytes more, which took a while; the clock is started anew for every TcpBlock.
Move(n) ==
  /\ moved' = moved + n
  /\ \E ticks \in 0..1 :
       /\ spent' = spent + ticks
       /\ IF moved' \div TcpBlock > step
          THEN timer' = 0 /\ step' = step + 1
          ELSE timer' = timer + ticks /\ UNCHANGED step

Wait == Tick /\ spent' = spent + 1 /\ UNCHANGED <<moved, step>>

Send ==
  /\ pc = "send" /\ moved < RequestSize /\ timer <= SendTimeout
  /\ Wait \/ \E n \in 1..Chunk : moved + n <= RequestSize /\ Move(n)
  /\ UNCHANGED <<pc, s, open, at, header, body, result>> /\ Rest

\* All was sent, or the time is up, or net_write() failed: nobody looks.
SendEnds ==
  /\ pc = "send"
  /\ pc' \in {"line", "crashed"}
  /\ timer' = 0 /\ moved' = 0 /\ step' = 0 /\ spent' = 0
  /\ UNCHANGED <<s, open, at, header, body, result>> /\ Rest

\* sscanf() finds text of this kind at the beginning of l.
Scanned(l, kind, old) == IF l[1] \in DOMAIN kind THEN kind[l[1]] ELSE old

\* There is no line: status and result are set, and set again after the loop.
NoLine == status' = 404 /\ Fail("status") /\ Close /\ UNCHANGED <<line, lines, length, timer, body>>

\* A line that is not empty.
HeaderLine(l) ==
  LET st == Scanned(l, StatusLine, status)
  IN  /\ length' = Scanned(l, LengthLine, length)
      /\ lines' = lines + 1 /\ line' = << >> /\ timer' = 0
      /\ IF lines + 1 = MaxLines
         THEN status' = 404 /\ Fail("status") /\ Close
         ELSE status' = st /\ pc' \in {"line", "crashed"} /\ UNCHANGED <<open, result>>
      /\ UNCHANGED body

\* A bug this guards against: a body that is too big is noticed only by its status.
EmptyLineAnySize ==
  /\ status' = IF length = 0 THEN 404 ELSE status
  /\ IF status' # 200 THEN Fail("status") /\ Close /\ UNCHANGED <<timer, body>>
     ELSE /\ pc' \in {"body", "crashed"} /\ timer' = 0
          /\ block' = TRUE /\ data' = << >> /\ UNCHANGED <<open, result>>
  /\ UNCHANGED <<line, lines, length>>

\* The line that ends the header; memalign() is not checked.
EmptyLine ==
  /\ status' = IF length = 0 THEN 404 ELSE status
  /\ IF status' # 200 THEN Fail("status") /\ Close /\ UNCHANGED <<timer, body>>
     ELSE IF length > MaxSize THEN Fail("toobig") /\ Close /\ UNCHANGED <<timer, body>>
     ELSE /\ pc' \in {"body", "crashed"} /\ timer' = 0
          /\ block' = TRUE /\ data' = << >> /\ UNCHANGED <<open, result>>
  /\ UNCHANGED <<line, lines, length>>

EndsLine(l) == Len(l) > 1 /\ l[Len(l) - 1] = Cr /\ l[Len(l)] = Lf

\* A bug this guards against: the line is found to be too long a byte late.
FullLate(l) == Len(l) > MaxLine

Full(l) == Len(l) = MaxLine

\* A byte is read. strdup() or strndup() may fail.
ReadByte ==
  /\ pc = "line" /\ timer <= LineTimeout /\ at < Len(reply)
  /\ at' = at + 1
  /\ LET l == Append(line, reply[at + 1])
     IN  \/ EndsLine(l) /\ IF Len(l) = 2 THEN EmptyLine ELSE HeaderLine(SubSeq(l, 1, Len(l) - 2))
         \/ EndsLine(l) /\ NoLine
         \/ ~EndsLine(l) /\ Full(l) /\ NoLine
         \/ /\ ~EndsLine(l) /\ ~Full(l)
            /\ line' = l /\ timer' \in {timer, timer + 1}
            /\ UNCHANGED <<pc, open, lines, status, length, body, result>>
  /\ UNCHANGED <<s, transfer>> /\ Rest

\* Nothing yet; a connection that was closed looks like that, too.
WaitForByte ==
  /\ pc = "line" /\ timer <= LineTimeout
  /\ Tick
  /\ UNCHANGED <<pc, s, open, transfer, at, header, body, result>> /\ Rest

ReadLineFails ==
  /\ pc = "line" /\ timer <= LineTimeout
  /\ NoLine
  /\ UNCHANGED <<s, transfer, at>> /\ Rest

LineTimesOut ==
  /\ pc = "line" /\ timer > LineTimeout
  /\ NoLine
  /\ UNCHANGED <<s, transfer, at>> /\ Rest

ReadBody ==
  /\ pc = "body" /\ moved < length /\ timer <= RecvTimeout
  /\ \/ Wait /\ UNCHANGED <<at, data>>
     \/ \E n \in 1..Chunk :
          /\ moved + n <= length /\ at + n <= Len(reply)
          /\ Move(n) /\ at' = at + n /\ data' = data \o SubSeq(reply, at + 1, at + n)
  /\ UNCHANGED <<pc, s, open, header, block, result>> /\ Rest

\* The time is up, or net_read() failed.
BodyFails ==
  /\ pc = "body" /\ moved < length
  /\ Fail("receive") /\ Close /\ block' = FALSE
  /\ UNCHANGED <<s, timer, transfer, at, header, data>> /\ Rest

Succeed ==
  /\ pc = "body" /\ moved = length
  /\ pc' = "ok" /\ result' = "ok" /\ Close
  /\ UNCHANGED <<s, timer, transfer, at, header, body>> /\ Rest

----------------------------------------------------------------------------
\* http_get_result(), which is called after success only; the caller has the
\* body then, and frees it.
GetResult ==
  /\ pc = "ok"
  /\ pc' = "idle" /\ names' = FALSE
  /\ UNCHANGED <<s, open, timer, transfer, reply, at, header, body, result, lost, requests>>

Work == \/ Lookup \/ OpenSocket \/ SetNonBlocking \/ Connect \/ Send \/ SendEnds
        \/ ReadByte \/ WaitForByte \/ ReadLineFails \/ LineTimesOut
        \/ ReadBody \/ BodyFails \/ Succeed

Next == Request \/ Work \/ GetResult

\* The program has one thread: it goes on.
Spec == Init /\ [][Next]_vars /\ WF_vars(Work)

----------------------------------------------------------------------------
(* Properties                                                              *)

Working == {"lookup", "socket", "fcntl", "connect", "send", "line", "body"}

TypeOK ==
  /\ pc \in Working \union {"idle", "ok", "failed", "crashed"}
  /\ s \in Int /\ open \subseteq Sockets
  /\ timer \in Nat /\ moved \in Nat /\ step \in Nat /\ spent \in Nat
  /\ reply \in Seq(Nat) /\ at \in 0..Len(reply)
  /\ line \in Seq(Nat) /\ Len(line) < MaxLine /\ lines \in 0..MaxLines
  /\ status \in Nat /\ length \in Nat /\ block \in BOOLEAN /\ data \in Seq(Nat)
  /\ result \in {"ok", "connect", "status", "toobig", "receive"}
  /\ names \in BOOLEAN /\ lost \in Nat /\ requests \in 0..MaxRequests

\* Only an open socket is written to or read from, and however a request ends,
\* none stays open: the Wii has few (http.c:44-124, 306-375).
SocketsClosed ==
  /\ pc \in {"fcntl", "connect", "send", "line", "body"} => open = {s}
  /\ pc \in {"idle", "ok", "failed"} => open = {}

\* A body that does not fit is never begun, and what was received never exceeds
\* the block it is written to (http.c:356-362).
BodyFits ==
  pc \in {"body", "ok"} =>
    block /\ Len(data) = moved /\ moved <= length /\ length <= MaxSize

\* However the server spreads its bytes, no block of TcpBlock bytes takes longer than
\* its time-out and one try: a request cannot be held up for ever (http.c:188-223).
BlockInTime ==
  pc = "body" => spent <= (moved \div TcpBlock) * (RecvTimeout + 1) + timer
                 /\ timer <= RecvTimeout + 1

Outcome == IF pc \in Working THEN "open" ELSE IF pc = "idle" THEN "none" ELSE pc

Answer == INSTANCE HttpAnswer WITH
            outcome <- Outcome, content <- (IF pc = "ok" THEN data ELSE << >>)

\* The loops over bytes, lines and blocks accept a reply only if, looked at as a whole,
\* it is a complete one that says status 200 and how long it is; the body is given to
\* the caller as it was sent; and every request comes to an end, for every loop has
\* its time-out (http.c:127-226, 295-376).
AnswerSpec == Answer!Spec

\* "#define HTTP_TIMEOUT 300000" (http.h:17): a line is waited for that long.
WaitsForLine == [][LineTimesOut => timer > HttpTimeout]_vars
============================================================================
