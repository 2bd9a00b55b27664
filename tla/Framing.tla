------------------------------- MODULE Framing -------------------------------
(***************************************************************************)
(* How the server thread cuts what a client writes into requests           *)
(* (madt-server.cpp, request and extractSingleJsonObject).  The protocol   *)
(* has no lengths and no separators: a request is a JSON object, and ends  *)
(* where its braces balance.  TCP keeps the bytes of a connection in order *)
(* and may deliver them in any pieces, so that a read may hold half a      *)
(* request or several.                                                     *)
(*                                                                         *)
(* Only the bytes the code tells apart are modelled.  What a client writes *)
(* is a sequence of objects, blanks and junk; the code never sees their    *)
(* borders.  The handler a request is given to is in the other modules:    *)
(* here it is counted, answered and over.                                  *)
(***************************************************************************)
EXTENDS Integers, Sequences, FiniteSets, SequencesExt

CONSTANTS
  Bevs,        \* bufferevents: their addresses, used again once freed
  NoBev,       \* no bufferevent
  Objects,     \* JSON objects clients write, as sequences of bytes
  Junk,        \* what else they may write, but for blanks
  MaxPieces,   \* bound: objects, blanks and junk on one connection
  MaxAccepts   \* bound: connections in a behaviour

Byte == {"lbrace", "rbrace", "quote", "backslash", "space", "other"}

\* How many braces are still to be closed after the first i bytes of a text, those in
\* its strings not counted.
Unclosed(text, inString, i) ==
  Cardinality({j \in 1..i \ inString : text[j] = "lbrace"})
    - Cardinality({j \in 1..i \ inString : text[j] = "rbrace"})

\* An object of JSON, as the grammar has it and without a scanner: inString are the
\* bytes of its strings up to the quote that ends each, and escaped those that come
\* behind the backslash of an escape.
IsObject(text) ==
  /\ text \in Seq(Byte) /\ text # <<>> /\ text[1] = "lbrace"
  /\ \E inString, escaped \in SUBSET (2..Len(text)) :
       /\ \A i \in 1..(Len(text) - 1) :
            /\ (i \in inString) # (i + 1 \in inString) <=> text[i] = "quote" /\ i \notin escaped
            /\ i + 1 \in escaped <=> i \in inString \ escaped /\ text[i] = "backslash"
       /\ \A i \in 1..Len(text) :
            /\ Unclosed(text, inString, i) >= 0
            /\ Unclosed(text, inString, i) = 0 <=> i = Len(text)

ASSUME FramingAssumption ==
  /\ NoBev \notin Bevs
  /\ \A o \in Objects : IsObject(o)
  /\ \A j \in Junk : j \in Seq(Byte) /\ j # <<>> /\ Head(j) \notin {"lbrace", "space"}
  /\ MaxPieces \in Nat /\ MaxAccepts \in Nat

Blank == <<"space">>
Pieces == Objects \cup Junk \cup {Blank}
Streams == SeqOf(Pieces, MaxPieces)

VARIABLES
  open,               \* connections accepted and not yet freed
  connectionBuffers,  \* bufferevent -> bytes kept for its next read
  serving,            \* the connection in the loop of request(), or NoBev
  accepts,            \* connections accepted so far
  stream,             \* per connection: what its client writes, piece by piece
  arrived,            \* per connection: how many bytes have been read
  requests,           \* history: the texts given to a handler, each answered
  mark                \* history: the last moment nothing was kept between two
                      \* pieces: the bytes read and the requests handled by then

vars == <<open, connectionBuffers, serving, accepts, stream, arrived, requests, mark>>

Start == [at |-> 0, after |-> 0]

Init ==
  /\ open = {} /\ serving = NoBev /\ accepts = 0
  /\ connectionBuffers = [b \in Bevs |-> <<>>]
  /\ stream = [b \in Bevs |-> <<>>]
  /\ arrived = [b \in Bevs |-> 0]
  /\ requests = [b \in Bevs |-> <<>>]
  /\ mark = [b \in Bevs |-> Start]

------------------------------------------------------------------------------
(* extractSingleJsonObject *)

\* The index of the first byte that is no blank, Len(buffer) + 1 if there is none.
FirstOf(buffer) ==
  Min({i \in 1..Len(buffer) : buffer[i] # "space"} \cup {Len(buffer) + 1})

ScanStart == [depth |-> 0, inString |-> FALSE, escaping |-> FALSE]

\* Faulty: a backslash is a byte like any other.
StepNoEscape(s, ch) ==
  [depth    |-> s.depth + (IF s.inString THEN 0
                           ELSE IF ch = "lbrace" THEN 1 ELSE IF ch = "rbrace" THEN -1 ELSE 0),
   inString |-> (ch = "quote") # s.inString,
   escaping |-> FALSE]

\* What one byte does to the scanner.
Step(s, ch) ==
  [depth    |-> s.depth + (IF s.inString THEN 0
                           ELSE IF ch = "lbrace" THEN 1 ELSE IF ch = "rbrace" THEN -1 ELSE 0),
   inString |-> (ch = "quote" /\ ~s.escaping) # s.inString,
   escaping |-> s.inString /\ ch = "backslash" /\ ~s.escaping]

\* The scanner after each number of bytes.
Scan(text) ==
  LET scan[i \in 0..Len(text)] == IF i = 0 THEN ScanStart ELSE Step(scan[i - 1], text[i])
  IN scan

\* Where the object that begins the text ends, or 0 if it is not all there.
EndOf(text) ==
  LET scan == Scan(text)
      ends == {i \in 1..Len(text) :
                 text[i] = "rbrace" /\ ~scan[i - 1].inString /\ scan[i].depth = 0}
  IN IF ends = {} THEN 0 ELSE Min(ends)

\* Faulty: one byte more is erased than is handed over.
ExtractEating(buffer) ==
  LET text == SubSeq(buffer, FirstOf(buffer), Len(buffer))
      end  == EndOf(text)
  IN IF text = <<>> THEN [found |-> FALSE, text |-> <<>>, rest |-> <<>>]
     ELSE IF Head(text) # "lbrace" THEN [found |-> TRUE, text |-> text, rest |-> <<>>]
     ELSE IF end = 0 THEN [found |-> FALSE, text |-> <<>>, rest |-> buffer]
     ELSE [found |-> TRUE,
           text  |-> SubSeq(text, 1, end),
           rest  |-> SubSeq(text, end + 2, Len(text))]

\* The next request and what is kept: an object, or all that has been read when
\* it does not begin as one.
Extract(buffer) ==
  LET text == SubSeq(buffer, FirstOf(buffer), Len(buffer))
      end  == EndOf(text)
  IN IF text = <<>> THEN [found |-> FALSE, text |-> <<>>, rest |-> <<>>]
     ELSE IF Head(text) # "lbrace" THEN [found |-> TRUE, text |-> text, rest |-> <<>>]
     ELSE IF end = 0 THEN [found |-> FALSE, text |-> <<>>, rest |-> buffer]
     ELSE [found |-> TRUE,
           text  |-> SubSeq(text, 1, end),
           rest  |-> SubSeq(text, end + 1, Len(text))]

------------------------------------------------------------------------------
(* What the client wrote, border by border: the history's side only. *)

Written(b) == FlattenSeq(stream[b])
BorderAfter(b, k) == Len(FlattenSeq(SubSeq(stream[b], 1, k)))
Borders(b) == {BorderAfter(b, k) : k \in 0..Len(stream[b])}

\* The pieces that lie between two of its bytes, and those that touch them.
PiecesIn(b, from, to) ==
  {k \in 1..Len(stream[b]) : BorderAfter(b, k - 1) >= from /\ BorderAfter(b, k) <= to}
PiecesAt(b, from, to) ==
  {k \in 1..Len(stream[b]) : BorderAfter(b, k) > from /\ BorderAfter(b, k - 1) < to}

\* The objects that lie between them.
ObjectsIn(b, from, to) ==
  FlattenSeq([k \in 1..Len(stream[b]) |->
                IF k \in PiecesIn(b, from, to) /\ stream[b][k] \in Objects
                THEN <<stream[b][k]>> ELSE <<>>])

------------------------------------------------------------------------------
(* Actions *)

\* accept_conn_cb.
Accept(b) ==
  /\ serving = NoBev /\ b \notin open /\ accepts < MaxAccepts
  /\ open' = open \cup {b}
  /\ accepts' = accepts + 1
  /\ \E s \in Streams : stream' = [stream EXCEPT ![b] = s]
  /\ arrived' = [arrived EXCEPT ![b] = 0]
  /\ requests' = [requests EXCEPT ![b] = <<>>]
  /\ mark' = [mark EXCEPT ![b] = Start]
  /\ UNCHANGED <<connectionBuffers, serving>>

\* readcb removes some bytes that have come, up to 1024, and calls request().
Read(b, n) ==
  /\ serving = NoBev /\ b \in open
  /\ arrived' = [arrived EXCEPT ![b] = @ + n]
  /\ connectionBuffers' =
       [connectionBuffers EXCEPT ![b] = @ \o SubSeq(Written(b), arrived[b] + 1, arrived[b] + n)]
  /\ serving' = b
  /\ UNCHANGED <<open, accepts, stream, requests, mark>>

\* Faulty: one request is taken per read.
HandleOnce(b) ==
  LET next == Extract(connectionBuffers[b])
  IN /\ serving = b /\ next.found
     /\ connectionBuffers' = [connectionBuffers EXCEPT ![b] = next.rest]
     /\ requests' = [requests EXCEPT ![b] = Append(@, next.text)]
     /\ serving' = NoBev
     /\ UNCHANGED <<open, accepts, stream, arrived, mark>>

\* A turn of request()'s loop: the text is parsed and dispatched, or, when that
\* throws, answered with BAD_REQUEST.
Handle(b) ==
  LET next == Extract(connectionBuffers[b])
  IN /\ serving = b /\ next.found
     /\ connectionBuffers' = [connectionBuffers EXCEPT ![b] = next.rest]
     /\ requests' = [requests EXCEPT ![b] = Append(@, next.text)]
     /\ UNCHANGED <<open, serving, accepts, stream, arrived, mark>>

\* The loop's end.
Done(b) ==
  LET next == Extract(connectionBuffers[b])
  IN /\ serving = b /\ ~next.found
     /\ connectionBuffers' = [connectionBuffers EXCEPT ![b] = next.rest]
     /\ serving' = NoBev
     /\ mark' = IF next.rest = <<>> /\ arrived[b] \in Borders(b)
                  THEN [mark EXCEPT ![b] = [at |-> arrived[b], after |-> Len(requests[b])]]
                  ELSE mark
     /\ UNCHANGED <<open, accepts, stream, arrived, requests>>

\* Faulty: the connection's buffer is left for whoever gets its address next.
CloseKeeping(b) ==
  /\ serving = NoBev /\ b \in open
  /\ open' = open \ {b}
  /\ UNCHANGED <<connectionBuffers, serving, accepts, stream, arrived, requests, mark>>

\* eventcb, on EOF or an error: whatever is still in the buffer is forgotten.
Close(b) ==
  /\ serving = NoBev /\ b \in open
  /\ open' = open \ {b}
  /\ connectionBuffers' = [connectionBuffers EXCEPT ![b] = <<>>]
  /\ UNCHANGED <<serving, accepts, stream, arrived, requests, mark>>

Next ==
  \E b \in Bevs :
    \/ Accept(b)
    \/ \E n \in 1..(Len(Written(b)) - arrived[b]) : Read(b, n)
    \/ Handle(b)
    \/ Done(b)
    \/ Close(b)

Spec == Init /\ [][Next]_vars

------------------------------------------------------------------------------
(* Properties *)

\* Every variable has the type of the C++ object it stands for.
TypeOK ==
  /\ open \subseteq Bevs /\ serving \in open \cup {NoBev}
  /\ accepts \in 0..MaxAccepts
  /\ connectionBuffers \in [Bevs -> Seq(Byte)]
  /\ stream \in [Bevs -> Streams]
  /\ arrived \in [Bevs -> Nat]
  /\ requests \in [Bevs -> Seq(Seq(Byte))]
  /\ mark \in [Bevs -> [at : Nat, after : Nat]]
  /\ \A b \in Bevs :
       /\ arrived[b] <= Len(Written(b))
       /\ mark[b].at <= arrived[b] /\ mark[b].after <= Len(requests[b])

Idle(b) == b \in open /\ serving = NoBev

\* However the bytes of its requests were cut, a connection has been handed each
\* object that has arrived whole, once, unaltered and in order, and nothing else;
\* after junk, from the first read on that begins between two pieces with nothing
\* kept.  Quotes, escapes and braces in strings do not mislead it, nor does what
\* the last connection of the same address left (madt-server.cpp, request).
ObjectsAreUnderstood ==
  \A b \in Bevs :
    /\ Idle(b)
    /\ \A k \in PiecesAt(b, mark[b].at, arrived[b]) : stream[b][k] \notin Junk
    => SubSeq(requests[b], mark[b].after + 1, Len(requests[b]))
         = ObjectsIn(b, mark[b].at, arrived[b])

\* A text without its blanks.
Solid(bytes) ==
  FlattenSeq([i \in 1..Len(bytes) |-> IF bytes[i] = "space" THEN <<>> ELSE <<bytes[i]>>])

\* Junk or not, every byte that was read is in one request or still kept, in the
\* order of the connection; only blanks are dropped.
NothingLostOrInvented ==
  \A b \in open :
    Solid(FlattenSeq(requests[b]) \o connectionBuffers[b])
      = Solid(SubSeq(Written(b), 1, arrived[b]))

\* Between two reads a connection keeps nothing it could have answered: at most
\* the beginning of one object, so that a client that waits for the answer to a
\* whole request does not wait for another client's, or its own, next byte.
KeepsOneBeginning ==
  \A b \in Bevs :
    LET kept == connectionBuffers[b]
        from == FirstOf(kept)
    IN Idle(b) /\ kept # <<>> =>
         /\ kept[from] = "lbrace"
         /\ \A n \in from..Len(kept) : SubSeq(kept, from, n) \notin Objects
==============================================================================
