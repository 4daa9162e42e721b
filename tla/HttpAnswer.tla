----------------------------- MODULE HttpAnswer ----------------------------
(***************************************************************************)
(* What http_request() of src/http.c promises its caller: a request comes  *)
(* to an end, and if it succeeds the caller gets the body the server       *)
(* announced, whole and unchanged. A reply is looked at here as a whole.   *)
(***************************************************************************)
EXTENDS Integers, Sequences, FiniteSets

CONSTANTS
  Replies,     \* what a server may send
  Cr, Lf,      \* the bytes that end a line
  StatusLine,  \* bytes that stand for "HTTP/1.x n", and n
  LengthLine,  \* bytes that stand for "Content-Length: n", and n
  MaxLine,     \* bytes of a line
  MaxLines,    \* lines of a header
  MaxSize      \* bytes of a body

VARIABLES outcome, reply, content

hvars == <<outcome, reply, content>>

Latest(S) == CHOOSE e \in S : \A f \in S : f <= e

\* Where the lines of r end, and where the empty line that ends the header does.
Ends(r) == {e \in 2..Len(r) : r[e - 1] = Cr /\ r[e] = Lf}
Empty(r) == {e \in Ends(r) : e - 2 \in Ends(r) \union {0}}

HeaderEnd(r) == CHOOSE e \in Empty(r) : \A f \in Empty(r) : e <= f

\* Where the lines of the header start.
Starts(r) == {1} \union {e + 1 : e \in {e \in Ends(r) : e < HeaderEnd(r)}}

\* What the last line of kind says; fallback if there is none.
Says(r, kind, fallback) ==
  LET saying == {a \in Starts(r) : r[a] \in DOMAIN kind}
  IN  IF saying = {} THEN fallback ELSE kind[r[Latest(saying)]]

LinesFit(r) ==
  /\ Cardinality(Starts(r)) <= MaxLines
  /\ \A a \in Starts(r) : \E e \in Ends(r) : a < e /\ e < a + MaxLine

\* A reply that may be accepted, and its body.
Good(r) ==
  /\ Empty(r) # {} /\ LinesFit(r)
  /\ Says(r, StatusLine, 404) = 200
  /\ Says(r, LengthLine, 0) \in 1..MaxSize
  /\ HeaderEnd(r) + Says(r, LengthLine, 0) <= Len(r)

Body(r) == SubSeq(r, HeaderEnd(r) + 1, HeaderEnd(r) + Says(r, LengthLine, 0))

Init == outcome = "none" /\ reply = << >> /\ content = << >>

Request ==
  /\ outcome \in {"none", "failed"}
  /\ outcome' = "open" /\ reply' \in Replies /\ content' = << >>

Succeed ==
  /\ outcome = "open" /\ outcome' = "ok"
  /\ Good(reply) /\ content' = Body(reply) /\ UNCHANGED reply

\* The network is slow or down, the reply is refused.
GiveUp == outcome = "open" /\ outcome' = "failed" /\ UNCHANGED <<reply, content>>

\* There is no memory.
Crash == outcome = "open" /\ outcome' = "crashed" /\ UNCHANGED <<reply, content>>

\* The caller takes what it got.
Take == outcome = "ok" /\ outcome' = "none" /\ content' = << >> /\ UNCHANGED reply

Next == Request \/ GiveUp \/ Crash \/ Succeed \/ Take

Spec == Init /\ [][Next]_hvars /\ WF_hvars(GiveUp \/ Crash \/ Succeed)
============================================================================
