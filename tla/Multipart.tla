------------------------------ MODULE Multipart ------------------------------
(***************************************************************************)
(* multipart_parser_execute, one byte at a time.  The parser is fed the    *)
(* body of an upload in pieces of any size and calls back with slices of   *)
(* the piece at hand, from its mark to the current byte: what it has not   *)
(* passed on when a piece ends is lost, except the bytes that may turn out *)
(* to be a delimiter.                                                      *)
(*                                                                         *)
(* A byte is a string; a name or a word that the program compares as a     *)
(* whole is one byte here.                                                 *)
(***************************************************************************)
EXTENDS Naturals, Sequences

CONSTANTS
    Bytes,      \* the bytes there are
    Boundary,   \* multipart_boundary, a sequence of bytes
    Letters     \* the bytes a header name is made of, beside the hyphen

CR     == "CR"
LF     == "LF"
Hyphen == "-"
Colon  == ":"
Space  == " "

ASSUME BytesAssumption ==
    /\ {CR, LF, Hyphen, Colon, Space} \cup Letters \subseteq Bytes
    /\ Letters \cap {CR, LF, Hyphen, Colon, Space} = {}

ASSUME BoundaryAssumption ==
    /\ Boundary \in Seq(Bytes) /\ Boundary # <<>>
    /\ \A i \in DOMAIN Boundary : Boundary[i] \notin {CR, LF}

Delimiter == <<CR, LF>> \o Boundary

\* The parser before its first byte.  chunk is the piece at hand from the mark on.
Initial == [state |-> "start_boundary", index |-> 0, chunk |-> <<>>]

(***************************************************************************)
(* What a byte leads to: the parser after it, the callbacks it makes, and  *)
(* whether parsing goes on.  A piece that ends takes the mark with it.     *)
(***************************************************************************)
Call(callback, data) == [on |-> callback, data |-> data]

Fail(p) == [parser |-> p, calls |-> <<>>, ok |-> FALSE]

To(p, state, calls) ==
    [parser |-> [state |-> state, index |-> 0, chunk |-> <<>>], calls |-> calls, ok |-> TRUE]

Expect(p, c, wanted, state) == IF c = wanted THEN To(p, state, <<>>) ELSE Fail(p)

\* The mark stays; the last byte of a piece passes the slice on, if the state does.
Stay(p, c, last, calls) ==
    [parser |-> [p EXCEPT !.chunk = IF last THEN <<>> ELSE Append(@, c)],
     calls  |-> calls, ok |-> TRUE]

AtEnd(p, c, last, callback) == IF last THEN <<Call(callback, Append(p.chunk, c))>> ELSE <<>>

StartBoundary(p, c) ==
    IF p.index = Len(Boundary) + 1 THEN Expect(p, c, LF, "header_field")
    ELSE IF c = Append(Boundary, CR)[p.index + 1]
         THEN [parser |-> [p EXCEPT !.index = @ + 1], calls |-> <<>>, ok |-> TRUE]
         ELSE Fail(p)

\* A piece that ends with a hyphen loses the slice.
HeaderField(p, c, last) ==
    CASE c = CR       -> To(p, "headers_almost_done", <<>>)
      [] c = Hyphen   -> Stay(p, c, last, <<>>)
      [] c = Colon    -> To(p, "header_value_start", <<Call("header_field", p.chunk)>>)
      [] c \in Letters -> Stay(p, c, last, AtEnd(p, c, last, "header_field"))
      [] OTHER        -> Fail(p)

HeaderValue(p, c, last) ==
    IF c = CR
    THEN To(p, "header_value_almost_done",
            <<Call("header_value", p.chunk)>> \o AtEnd(p, c, last, "header_value"))
    ELSE Stay(p, c, last, AtEnd(p, c, last, "header_value"))

HeaderValueStart(p, c, last) ==
    IF c = Space THEN To(p, "header_value_start", <<>>)
    ELSE HeaderValue([p EXCEPT !.state = "header_value"], c, last)

PartData(p, c, last) ==
    IF c = CR THEN To(p, "part_data_almost_boundary", <<Call("part_data", p.chunk)>>)
    ELSE Stay(p, c, last, AtEnd(p, c, last, "part_data"))

\* What the parser holds back as it may be the start of a delimiter (lookbehind).
Lookbehind(p) ==
    CASE p.state = "part_data_almost_boundary" -> <<CR>>
      [] p.state = "part_data_boundary"        -> SubSeq(Delimiter, 1, 2 + p.index)
      [] OTHER                                 -> <<>>

\* Some callbacks, and then the byte is looked at as part data, with the mark at it.
ThenData(p, c, last, calls) ==
    LET data == PartData([state |-> "part_data", index |-> 0, chunk |-> <<>>], c, last)
    IN  [data EXCEPT !.calls = calls \o @]

\* Mutant of PassOn: drops what it held back.
PassNothingOn(p, c, last) == ThenData(p, c, last, <<>>)

PassOn(p, c, last) == ThenData(p, c, last, <<Call("part_data", Lookbehind(p))>>)

PartDataAlmostBoundary(p, c, last) ==
    IF c = LF THEN To(p, "part_data_boundary", <<>>) ELSE PassOn(p, c, last)

PartDataBoundary(p, c, last) ==
    IF c # Boundary[p.index + 1] THEN PassOn(p, c, last)
    ELSE IF p.index + 1 = Len(Boundary)
         THEN To(p, "part_data_almost_end", <<Call("part_data_end", <<>>)>>)
         ELSE [parser |-> [p EXCEPT !.index = @ + 1], calls |-> <<>>, ok |-> TRUE]

PartDataAlmostEnd(p, c) ==
    IF c = Hyphen THEN To(p, "part_data_final_hyphen", <<>>)
    ELSE Expect(p, c, CR, "part_data_end")

Consume(p, c, last) ==
    CASE p.state = "start_boundary"            -> StartBoundary(p, c)
      [] p.state = "header_field"              -> HeaderField(p, c, last)
      [] p.state = "headers_almost_done"       -> Expect(p, c, LF, "part_data_start")
      [] p.state = "header_value_start"        -> HeaderValueStart(p, c, last)
      [] p.state = "header_value"              -> HeaderValue(p, c, last)
      [] p.state = "header_value_almost_done"  -> Expect(p, c, LF, "header_field")
      [] p.state = "part_data_start"           ->
            ThenData(p, c, last, <<Call("headers_complete", <<>>)>>)
      [] p.state = "part_data"                 -> PartData(p, c, last)
      [] p.state = "part_data_almost_boundary" -> PartDataAlmostBoundary(p, c, last)
      [] p.state = "part_data_boundary"        -> PartDataBoundary(p, c, last)
      [] p.state = "part_data_almost_end"      -> PartDataAlmostEnd(p, c)
      [] p.state = "part_data_final_hyphen"    -> Expect(p, c, Hyphen, "end")
      [] p.state = "part_data_end"             -> Expect(p, c, LF, "header_field")
      [] p.state = "end"                       -> To(p, "end", <<>>)
=============================================================================
