-------------------------- MODULE Multipart_proofs --------------------------
(***************************************************************************)
(* What one byte does to the parser, for any boundary and any byte: which  *)
(* callbacks it makes, and that no byte of a part gets lost between them.  *)
(***************************************************************************)
EXTENDS Multipart, SequenceTheorems, TLAPS

HeaderStates == {"header_field", "header_value_start", "header_value", "header_value_almost_done"}
DataStates   == {"part_data", "part_data_almost_boundary", "part_data_boundary"}
SilentStates == {"start_boundary", "headers_almost_done", "part_data_start",
                 "part_data_final_hyphen", "part_data_end", "end"}
MarkStates   == {"header_field", "header_value", "part_data"}
States       == HeaderStates \cup DataStates \cup SilentStates \cup {"part_data_almost_end"}

Callbacks == {"header_field", "header_value", "headers_complete", "part_data", "part_data_end"}

Calls == [on : Callbacks, data : Seq(Bytes)]

\* A parser between two bytes.
Parser ==
    {p \in [state : States, index : Nat, chunk : Seq(Bytes)] :
        /\ p.state = "start_boundary" => p.index <= Len(Boundary) + 1
        /\ p.state = "part_data_boundary" => p.index < Len(Boundary)
        /\ p.state \notin {"start_boundary", "part_data_boundary"} => p.index = 0
        /\ p.state \notin MarkStates => p.chunk = <<>>}

\* How many bytes of a delimiter the parser holds back.
Held(p) ==
    CASE p.state = "part_data_almost_boundary" -> 1
      [] p.state = "part_data_boundary"        -> 2 + p.index
      [] OTHER                                 -> 0

LEMMA PrefixGrows ==
    ASSUME NEW S, NEW s \in Seq(S), NEW n \in Nat, n < Len(s)
    PROVE  /\ SubSeq(s, 1, n + 1) = Append(SubSeq(s, 1, n), s[n + 1])
           /\ SubSeq(s, 1, n) \in Seq(S) /\ Len(SubSeq(s, 1, n)) = n
<1> DEFINE m == Len(s)
<1>1. m \in Nat /\ n + 1 \in 1 .. m /\ n + 1 \in Int /\ 1 \in 1 .. m /\ n \in 1 - 1 .. m
  OBVIOUS
<1>2. SubSeq(s, 1, n + 1) = SubSeq(s, 1, (n + 1) - 1) \o <<s[n + 1]>>
  BY <1>1, SubSeqRecursiveSecond
<1>3. \A i \in 1 .. n : s[i] \in S
  BY <1>1
<1>4. SubSeq(s, 1, n) \in Seq(S) /\ Len(SubSeq(s, 1, n)) = n
  BY <1>3, SubSeqProperties
<1>5. s[n + 1] \in S
  BY <1>1
<1>6. SubSeq(s, 1, n) \o <<s[n + 1]>> = Append(SubSeq(s, 1, n), s[n + 1])
  BY <1>4, <1>5, AppendIsConcat
<1> QED
  BY <1>2, <1>4, <1>6

LEMMA BytesTyped ==
    /\ CR \in Bytes /\ LF \in Bytes /\ Hyphen \in Bytes /\ Colon \in Bytes /\ Space \in Bytes
    /\ Boundary \in Seq(Bytes) /\ Len(Boundary) \in Nat /\ Len(Boundary) > 0
    /\ \A i \in 1 .. Len(Boundary) :
          Boundary[i] \in Bytes /\ Boundary[i] # CR /\ Boundary[i] # LF
BY BytesAssumption, BoundaryAssumption

LEMMA DelimiterBytes ==
    /\ Delimiter \in Seq(Bytes) /\ Len(Delimiter) = 2 + Len(Boundary)
    /\ Delimiter[1] = CR /\ Delimiter[2] = LF
    /\ \A i \in 1 .. Len(Boundary) : Delimiter[2 + i] = Boundary[i]
    /\ \A i \in 2 .. Len(Delimiter) : Delimiter[i] # CR
<1>1. /\ Delimiter \in Seq(Bytes) /\ Len(Delimiter) = 2 + Len(Boundary)
      /\ Delimiter[1] = CR /\ Delimiter[2] = LF
      /\ \A i \in 1 .. Len(Boundary) : Delimiter[2 + i] = Boundary[i]
  BY BytesTyped DEF Delimiter
<1>2. ASSUME NEW i \in 3 .. Len(Delimiter) PROVE Delimiter[i] # CR
  <2>1. i - 2 \in 1 .. Len(Boundary) /\ i = 2 + (i - 2)
    BY <1>1, BytesTyped
  <2> QED
    BY <1>1, <2>1, BytesTyped
<1>3. CR # LF
  BY DEF CR, LF
<1>4. ASSUME NEW i \in 2 .. Len(Delimiter) PROVE Delimiter[i] # CR
  <2>1. i = 2 \/ i \in 3 .. Len(Delimiter)
    BY <1>1, BytesTyped
  <2> QED
    BY <1>1, <1>2, <1>3, <2>1
<1> QED
  BY <1>1, <1>4

LEMMA DelimiterStart == SubSeq(Delimiter, 1, 0) = <<>> /\ SubSeq(Delimiter, 1, 1) = <<CR>>
<1> DEFINE n == 0
<1>1. n \in Nat /\ n < Len(Delimiter)
  BY DelimiterBytes, BytesTyped
<1>2. SubSeq(Delimiter, 1, n + 1) = Append(SubSeq(Delimiter, 1, n), Delimiter[n + 1])
  <2> HIDE DEF n
  <2> QED
    BY <1>1, DelimiterBytes, PrefixGrows
<1>3. SubSeq(Delimiter, 1, 0) = <<>>
  BY SubSeqEmpty
<1>4. Append(<<>>, CR) = <<CR>>
  OBVIOUS
<1>5. n + 1 = 1
  OBVIOUS
<1> QED
  BY <1>2, <1>3, <1>4, <1>5, DelimiterBytes

\* Which handler a byte goes to.
LEMMA Handlers ==
    ASSUME NEW p, NEW c, NEW last
    PROVE  /\ p.state = "start_boundary" => Consume(p, c, last) = StartBoundary(p, c)
           /\ p.state = "header_field" => Consume(p, c, last) = HeaderField(p, c, last)
           /\ p.state = "headers_almost_done" => Consume(p, c, last) = Expect(p, c, LF, "part_data_start")
           /\ p.state = "header_value_start" => Consume(p, c, last) = HeaderValueStart(p, c, last)
           /\ p.state = "header_value" => Consume(p, c, last) = HeaderValue(p, c, last)
           /\ p.state = "header_value_almost_done" => Consume(p, c, last) = Expect(p, c, LF, "header_field")
           /\ p.state = "part_data_start" =>
                 Consume(p, c, last) = ThenData(p, c, last, <<Call("headers_complete", <<>>)>>)
           /\ p.state = "part_data" => Consume(p, c, last) = PartData(p, c, last)
           /\ p.state = "part_data_almost_boundary" =>
                 Consume(p, c, last) = PartDataAlmostBoundary(p, c, last)
           /\ p.state = "part_data_boundary" => Consume(p, c, last) = PartDataBoundary(p, c, last)
           /\ p.state = "part_data_almost_end" => Consume(p, c, last) = PartDataAlmostEnd(p, c)
           /\ p.state = "part_data_final_hyphen" => Consume(p, c, last) = Expect(p, c, Hyphen, "end")
           /\ p.state = "part_data_end" => Consume(p, c, last) = Expect(p, c, LF, "header_field")
           /\ p.state = "end" => Consume(p, c, last) = To(p, "end", <<>>)
BY DEF Consume

\* The callbacks go with the state that follows; only a part that begins is announced.
CallsGo(before, state, calls) ==
    /\ calls \in Seq(Calls) /\ Len(calls) \in {0, 1, 2}
    /\ state \in HeaderStates =>
          \A i \in DOMAIN calls : calls[i].on \in {"header_field", "header_value"}
    /\ state \in DataStates =>
          \A i \in DOMAIN calls :
              calls[i].on = IF i = 1 /\ before = "part_data_start"
                            THEN "headers_complete" ELSE "part_data"
    /\ state \in SilentStates => calls = <<>>
    /\ state = "part_data_almost_end" => calls \in {<<>>, <<Call("part_data_end", <<>>)>>}

\* Parsing goes on.
Goes(s) == s.ok \in BOOLEAN /\ s.ok

Sound(p, s) ==
    /\ s.parser \in Parser /\ s.ok \in BOOLEAN /\ (Len(s.calls) # 0 => Goes(s))
    /\ CallsGo(p.state, s.parser.state, s.calls)

LEMMA NoCalls ==
    ASSUME NEW before, NEW state PROVE CallsGo(before, state, <<>>)
BY DEF CallsGo

LEMMA HeaderCalls ==
    ASSUME NEW before, NEW state \in HeaderStates, NEW calls \in Seq(Calls), Len(calls) \in {0, 1, 2},
           \A i \in DOMAIN calls : calls[i].on \in {"header_field", "header_value"}
    PROVE  CallsGo(before, state, calls)
BY DEF CallsGo, HeaderStates, DataStates, SilentStates

LEMMA DataCalls ==
    ASSUME NEW before, NEW state \in DataStates, NEW calls \in Seq(Calls), Len(calls) \in {0, 1, 2},
           \A i \in DOMAIN calls :
              calls[i].on = IF i = 1 /\ before = "part_data_start"
                            THEN "headers_complete" ELSE "part_data"
    PROVE  CallsGo(before, state, calls)
BY DEF CallsGo, HeaderStates, DataStates, SilentStates

LEMMA FailSound ==
    ASSUME NEW p \in Parser PROVE Sound(p, Fail(p))
BY NoCalls DEF Fail, Sound

LEMMA ToParser ==
    ASSUME NEW p \in Parser, NEW state \in States \ {"start_boundary", "part_data_boundary"}, NEW calls
    PROVE  /\ To(p, state, calls).parser \in Parser
           /\ To(p, state, calls).parser.state = state
           /\ To(p, state, calls).parser.index = 0
           /\ To(p, state, calls).parser.chunk = <<>>
           /\ To(p, state, calls).calls = calls
           /\ Goes(To(p, state, calls))
BY DEF To, Parser, Goes

LEMMA CallTyped ==
    ASSUME NEW callback \in Callbacks, NEW data \in Seq(Bytes)
    PROVE  /\ Call(callback, data) \in Calls
           /\ Call(callback, data).on = callback /\ Call(callback, data).data = data
BY DEF Call, Calls

LEMMA ChunkTyped ==
    ASSUME NEW p \in Parser
    PROVE  p.state \in States /\ p.index \in Nat /\ p.chunk \in Seq(Bytes)
BY DEF Parser

LEMMA AtEndCalls ==
    ASSUME NEW p \in Parser, NEW c \in Bytes, NEW last, NEW callback \in Callbacks
    PROVE  /\ AtEnd(p, c, last, callback) \in Seq(Calls)
           /\ Len(AtEnd(p, c, last, callback)) \in {0, 1}
           /\ \A i \in DOMAIN AtEnd(p, c, last, callback) : AtEnd(p, c, last, callback)[i].on = callback
<1>1. Append(p.chunk, c) \in Seq(Bytes)
  BY ChunkTyped
<1>2. Call(callback, Append(p.chunk, c)) \in Calls /\ Call(callback, Append(p.chunk, c)).on = callback
  BY <1>1, CallTyped
<1>3. CASE last
  BY <1>2, <1>3 DEF AtEnd
<1>4. CASE ~last
  BY <1>4 DEF AtEnd
<1> QED
  BY <1>3, <1>4

LEMMA StayParser ==
    ASSUME NEW p \in Parser, p.state \in MarkStates, NEW c \in Bytes, NEW last, NEW calls
    PROVE  /\ Stay(p, c, last, calls).parser \in Parser
           /\ Stay(p, c, last, calls).parser.state = p.state
           /\ Stay(p, c, last, calls).parser.index = p.index
           /\ Stay(p, c, last, calls).parser.chunk = IF last THEN <<>> ELSE Append(p.chunk, c)
           /\ Stay(p, c, last, calls).calls = calls
           /\ Goes(Stay(p, c, last, calls))
<1> DEFINE chunk == IF last THEN <<>> ELSE Append(p.chunk, c)
           q == [p EXCEPT !.chunk = chunk]
<1>1. chunk \in Seq(Bytes)
  BY ChunkTyped
<1>2. Stay(p, c, last, calls) = [parser |-> q, calls |-> calls, ok |-> TRUE]
  BY DEF Stay, Parser
<1>3. q \in [state : States, index : Nat, chunk : Seq(Bytes)]
      /\ q.state = p.state /\ q.index = p.index /\ q.chunk = chunk
  <2> HIDE DEF chunk
  <2> QED
    BY <1>1 DEF Parser
<1>4. q \in Parser
  <2> HIDE DEF q
  <2> QED
    BY <1>3 DEF Parser
<1> QED
  BY <1>2, <1>3, <1>4 DEF Goes

LEMMA StaySound ==
    ASSUME NEW p \in Parser, p.state \in MarkStates, NEW c \in Bytes, NEW last, NEW calls,
           CallsGo(p.state, p.state, calls)
    PROVE  Sound(p, Stay(p, c, last, calls))
<1> DEFINE s == Stay(p, c, last, calls)
<1>1. s.parser \in Parser /\ s.parser.state = p.state /\ s.calls = calls /\ Goes(s)
  BY StayParser
<1> QED
  BY <1>1 DEF Sound, Goes

LEMMA ToCallsSound ==
    ASSUME NEW p \in Parser, NEW state \in States \ {"start_boundary", "part_data_boundary"}, NEW calls,
           CallsGo(p.state, state, calls)
    PROVE  Sound(p, To(p, state, calls))
<1> DEFINE s == To(p, state, calls)
<1>1. s.parser \in Parser /\ s.parser.state = state /\ s.calls = calls /\ Goes(s)
  BY ToParser
<1> QED
  BY <1>1 DEF Sound, Goes

LEMMA ToSound ==
    ASSUME NEW p \in Parser, NEW state \in States \ {"start_boundary", "part_data_boundary"}
    PROVE  Sound(p, To(p, state, <<>>))
<1>1. CallsGo(p.state, state, <<>>)
  BY NoCalls
<1> QED
  BY <1>1, ToCallsSound

LEMMA ExpectSound ==
    ASSUME NEW p \in Parser, NEW c, NEW wanted,
           NEW state \in States \ {"start_boundary", "part_data_boundary"}
    PROVE  Sound(p, Expect(p, c, wanted, state))
BY FailSound, ToSound DEF Expect

LEMMA OneCall ==
    ASSUME NEW call \in Calls
    PROVE  <<call>> \in Seq(Calls) /\ Len(<<call>>) = 1 /\ DOMAIN <<call>> = {1} /\ <<call>>[1] = call
OBVIOUS

LEMMA TwoCalls ==
    ASSUME NEW call \in Calls, NEW calls \in Seq(Calls), Len(calls) \in {0, 1}
    PROVE  /\ <<call>> \o calls \in Seq(Calls) /\ Len(<<call>> \o calls) = 1 + Len(calls)
           /\ (<<call>> \o calls)[1] = call
           /\ \A i \in DOMAIN (<<call>> \o calls) : i = 1 \/ (i = 2 /\ Len(calls) = 1 /\ (<<call>> \o calls)[i] = calls[1])
OBVIOUS

LEMMA HeaderCall ==
    ASSUME NEW before, NEW state \in HeaderStates, NEW call \in Calls,
           call.on \in {"header_field", "header_value"}
    PROVE  CallsGo(before, state, <<call>>)
<1>1. /\ <<call>> \in Seq(Calls) /\ Len(<<call>>) \in {0, 1, 2}
      /\ \A i \in DOMAIN <<call>> : <<call>>[i].on \in {"header_field", "header_value"}
  BY OneCall
<1> QED
  BY <1>1, HeaderCalls

\* What a byte of the name of a header leads to.
LEMMA HeaderFieldCases ==
    ASSUME NEW p, NEW c, NEW last
    PROVE  /\ c = CR => HeaderField(p, c, last) = To(p, "headers_almost_done", <<>>)
           /\ c = Hyphen => HeaderField(p, c, last) = Stay(p, c, last, <<>>)
           /\ c = Colon => HeaderField(p, c, last) =
                 To(p, "header_value_start", <<Call("header_field", p.chunk)>>)
           /\ c \in Letters => HeaderField(p, c, last) =
                 Stay(p, c, last, AtEnd(p, c, last, "header_field"))
           /\ c \notin {CR, Hyphen, Colon} \cup Letters => HeaderField(p, c, last) = Fail(p)
<1>1. /\ Hyphen # CR /\ Colon # CR /\ Colon # Hyphen
      /\ \A letter \in Letters : letter \notin {CR, Hyphen, Colon}
  BY BytesAssumption DEF CR, Hyphen, Colon
<1> QED
  BY <1>1 DEF HeaderField

LEMMA HeaderFieldSound ==
    ASSUME NEW p \in Parser, p.state = "header_field", NEW c \in Bytes, NEW last
    PROVE  Sound(p, HeaderField(p, c, last))
<1>. "header_field" \in MarkStates /\ "header_field" \in HeaderStates /\ "header_value_start" \in HeaderStates
     /\ {"header_value_start", "headers_almost_done"} \subseteq States \ {"start_boundary", "part_data_boundary"}
  BY DEF HeaderStates, MarkStates, States, SilentStates
<1>1. CASE c = CR
  <2>1. HeaderField(p, c, last) = To(p, "headers_almost_done", <<>>)
    BY <1>1, HeaderFieldCases
  <2> QED
    BY <2>1, ToSound
<1>2. CASE c = Hyphen
  <2>1. HeaderField(p, c, last) = Stay(p, c, last, <<>>)
    BY <1>2, HeaderFieldCases
  <2> QED
    BY <2>1, StaySound, NoCalls
<1>3. CASE c = Colon
  <2>1. HeaderField(p, c, last) = To(p, "header_value_start", <<Call("header_field", p.chunk)>>)
    BY <1>3, HeaderFieldCases
  <2>2. /\ Call("header_field", p.chunk) \in Calls
        /\ Call("header_field", p.chunk).on = "header_field"
    BY CallTyped, ChunkTyped DEF Callbacks
  <2>3. CallsGo(p.state, "header_value_start", <<Call("header_field", p.chunk)>>)
    BY <2>2, HeaderCall
  <2> QED
    BY <2>1, <2>3, ToCallsSound
<1>4. CASE c \in Letters
  <2>1. HeaderField(p, c, last) = Stay(p, c, last, AtEnd(p, c, last, "header_field"))
    BY <1>4, HeaderFieldCases
  <2>2. "header_field" \in Callbacks
    BY DEF Callbacks
  <2>3. CallsGo(p.state, "header_field", AtEnd(p, c, last, "header_field"))
    BY <2>2, AtEndCalls, HeaderCalls
  <2> QED
    BY <2>1, <2>3, StaySound
<1>5. CASE c \notin {CR, Hyphen, Colon} \cup Letters
  BY <1>5, HeaderFieldCases, FailSound
<1> QED
  BY <1>1, <1>2, <1>3, <1>4, <1>5

LEMMA HeaderValueSound ==
    ASSUME NEW p \in Parser, p.state = "header_value", NEW c \in Bytes, NEW last
    PROVE  Sound(p, HeaderValue(p, c, last))
<1>1. /\ "header_value" \in MarkStates /\ "header_value" \in HeaderStates /\ "header_value" \in Callbacks
      /\ "header_value_almost_done" \in HeaderStates
      /\ "header_value_almost_done" \in States \ {"start_boundary", "part_data_boundary"}
  BY DEF HeaderStates, MarkStates, States, Callbacks
<1> DEFINE more == AtEnd(p, c, last, "header_value")
<1>2. /\ more \in Seq(Calls) /\ Len(more) \in {0, 1}
      /\ \A i \in DOMAIN more : more[i].on = "header_value"
  BY <1>1, AtEndCalls
<1>3. CASE c = CR
  <2> DEFINE calls == <<Call("header_value", p.chunk)>> \o more
  <2>1. HeaderValue(p, c, last) = To(p, "header_value_almost_done", calls)
    BY <1>3 DEF HeaderValue
  <2>2. /\ Call("header_value", p.chunk) \in Calls
        /\ Call("header_value", p.chunk).on = "header_value"
    BY <1>1, CallTyped, ChunkTyped
  <2>3. /\ calls \in Seq(Calls) /\ Len(calls) \in {0, 1, 2}
        /\ \A i \in DOMAIN calls : calls[i].on = "header_value"
    BY <1>2, <2>2, TwoCalls
  <2>4. CallsGo(p.state, "header_value_almost_done", calls)
    <3> HIDE DEF calls
    <3> QED
      BY <1>1, <2>3, HeaderCalls
  <2> QED
    BY <1>1, <2>1, <2>4, ToCallsSound
<1>4. CASE c # CR
  <2>1. HeaderValue(p, c, last) = Stay(p, c, last, more)
    BY <1>4 DEF HeaderValue
  <2>2. CallsGo(p.state, p.state, more)
    <3> HIDE DEF more
    <3> QED
      BY <1>1, <1>2, HeaderCalls
  <2> QED
    BY <1>1, <2>1, <2>2, StaySound
<1> QED
  BY <1>3, <1>4

LEMMA HeaderValueStartSound ==
    ASSUME NEW p \in Parser, p.state = "header_value_start", NEW c \in Bytes, NEW last
    PROVE  Sound(p, HeaderValueStart(p, c, last))
<1>1. CASE c = Space
  <2>1. "header_value_start" \in States \ {"start_boundary", "part_data_boundary"}
    BY DEF States, HeaderStates
  <2> QED
    BY <1>1, <2>1, ToSound DEF HeaderValueStart
<1>2. CASE c # Space
  <2> DEFINE q == [p EXCEPT !.state = "header_value"]
  <2>1. q \in Parser /\ q.state = "header_value"
    BY DEF Parser, States, HeaderStates, MarkStates
  <2>2. Sound(q, HeaderValue(q, c, last))
    BY <2>1, HeaderValueSound
  <2>3. HeaderValueStart(p, c, last) = HeaderValue(q, c, last)
    BY <1>2 DEF HeaderValueStart
  <2> HIDE DEF q
  <2>4. ASSUME NEW state, NEW calls, CallsGo(q.state, state, calls) PROVE CallsGo(p.state, state, calls)
    BY <2>1, <2>4 DEF CallsGo
  <2> QED
    BY <2>2, <2>3, <2>4 DEF Sound
<1> QED
  BY <1>1, <1>2

LEMMA GoOnSound ==
    ASSUME NEW p \in Parser, NEW q \in Parser, NEW calls, CallsGo(p.state, q.state, calls)
    PROVE  Sound(p, [parser |-> q, calls |-> calls, ok |-> TRUE])
BY DEF Sound, Goes

LEMMA StartBoundarySound ==
    ASSUME NEW p \in Parser, p.state = "start_boundary", NEW c \in Bytes
    PROVE  Sound(p, StartBoundary(p, c))
<1>1. CASE p.index = Len(Boundary) + 1
  <2>1. "header_field" \in States \ {"start_boundary", "part_data_boundary"}
    BY DEF States, HeaderStates
  <2> QED
    BY <1>1, <2>1, ExpectSound DEF StartBoundary
<1>2. CASE p.index # Len(Boundary) + 1
  <2> DEFINE q == [p EXCEPT !.index = @ + 1]
  <2>1. q \in Parser /\ q.state = "start_boundary"
    BY <1>2, BytesTyped DEF Parser, MarkStates
  <2>2. CallsGo(p.state, q.state, <<>>)
    BY NoCalls
  <2>3. \/ StartBoundary(p, c) = [parser |-> q, calls |-> <<>>, ok |-> TRUE]
        \/ StartBoundary(p, c) = Fail(p)
    BY <1>2 DEF StartBoundary
  <2> HIDE DEF q
  <2> QED
    BY <2>1, <2>2, <2>3, FailSound, GoOnSound
<1> QED
  BY <1>1, <1>2

-----------------------------------------------------------------------------
(* Part data: what is passed on and what is held back make up what was read *)

\* The bytes that callbacks hand over, at most two of them at a time.
Pending(calls) ==
    IF Len(calls) = 0 THEN <<>>
    ELSE IF Len(calls) = 1 THEN calls[1].data
    ELSE calls[1].data \o calls[2].data

Passed(calls, p) == (Pending(calls) \o p.chunk) \o SubSeq(Delimiter, 1, Held(p))

LEMMA CallFields ==
    ASSUME NEW call \in Calls PROVE call.on \in Callbacks /\ call.data \in Seq(Bytes)
BY DEF Calls

LEMMA PendingTyped ==
    ASSUME NEW calls \in Seq(Calls), Len(calls) \in {0, 1, 2}
    PROVE  Pending(calls) \in Seq(Bytes)
<1>1. CASE Len(calls) = 0
  BY <1>1 DEF Pending
<1>2. CASE Len(calls) = 1
  <2>1. calls[1] \in Calls
    BY <1>2
  <2> QED
    BY <1>2, <2>1, CallFields DEF Pending
<1>3. CASE Len(calls) = 2
  <2>1. calls[1] \in Calls /\ calls[2] \in Calls
    BY <1>3
  <2>2. calls[1].data \in Seq(Bytes) /\ calls[2].data \in Seq(Bytes)
    BY <2>1, CallFields
  <2> QED
    BY <1>3, <2>2 DEF Pending
<1> QED
  BY <1>1, <1>2, <1>3

LEMMA PendingTwo ==
    ASSUME NEW call \in Calls, NEW calls \in Seq(Calls), Len(calls) \in {0, 1}
    PROVE  Pending(<<call>> \o calls) = call.data \o Pending(calls)
<1> DEFINE both == <<call>> \o calls
<1>1. /\ Len(both) = 1 + Len(calls) /\ both[1] = call
      /\ Len(calls) = 1 => both[2] = calls[1]
  BY TwoCalls
<1> HIDE DEF both
<1>2. ASSUME Len(calls) = 0 PROVE Pending(both) = call.data \o Pending(calls)
  <2>1. call.data \o <<>> = call.data
    BY CallFields, ConcatEmptySeq
  <2>2. Pending(calls) = <<>> /\ Pending(both) = call.data
    BY <1>1, <1>2 DEF Pending
  <2> QED
    BY <2>1, <2>2
<1>3. ASSUME Len(calls) = 1 PROVE Pending(both) = call.data \o Pending(calls)
  <2>1. Len(both) = 2
    BY <1>1, <1>3
  <2>2. Pending(both) = both[1].data \o both[2].data
    BY <2>1 DEF Pending
  <2>3. Pending(calls) = calls[1].data
    BY <1>3 DEF Pending
  <2> QED
    BY <1>1, <1>3, <2>2, <2>3
<1>4. Pending(both) = call.data \o Pending(calls)
  BY <1>2, <1>3
<1> QED
  BY <1>4 DEF both

\* A slice passed on as part data.
Data(slice) == <<Call("part_data", slice)>>

LEMMA DataTyped ==
    ASSUME NEW slice \in Seq(Bytes)
    PROVE  /\ Data(slice) \in Seq(Calls) /\ Len(Data(slice)) = 1
           /\ \A i \in DOMAIN Data(slice) : Data(slice)[i].on = "part_data"
           /\ Pending(Data(slice)) = slice /\ Pending(Data(slice)) \o <<>> = slice
<1>1. /\ Call("part_data", slice) \in Calls /\ Call("part_data", slice).on = "part_data"
      /\ Call("part_data", slice).data = slice
  BY CallTyped DEF Callbacks
<1>2. Pending(Data(slice)) = slice
  BY <1>1 DEF Pending, Data
<1>3. slice \o <<>> = slice
  BY ConcatEmptySeq
<1> QED
  BY <1>1, <1>2, <1>3, OneCall DEF Data

\* What a byte of the contents makes of the slice that was read so far.
SliceGoesOn(p, c, s) ==
    /\ s.parser \in Parser /\ Goes(s)
    /\ s.calls \in Seq(Calls) /\ Len(s.calls) \in {0, 1}
    /\ \A i \in DOMAIN s.calls : s.calls[i].on = "part_data"
    /\ s.parser.state = IF c = CR THEN "part_data_almost_boundary" ELSE "part_data"
    /\ Pending(s.calls) \o s.parser.chunk = IF c = CR THEN p.chunk ELSE Append(p.chunk, c)

LEMMA PartDataStep ==
    ASSUME NEW p \in Parser, p.state = "part_data", NEW c \in Bytes, NEW last, NEW s,
           s = PartData(p, c, last)
    PROVE  SliceGoesOn(p, c, s)
<1> USE DEF SliceGoesOn
<1>1. /\ "part_data" \in MarkStates
      /\ "part_data_almost_boundary" \in States \ {"start_boundary", "part_data_boundary"}
  BY DEF MarkStates, States, DataStates
<1> DEFINE more == Append(p.chunk, c)
<1>2. p.chunk \in Seq(Bytes) /\ more \in Seq(Bytes)
  BY ChunkTyped
<1>4. CASE c = CR
  <2>1. s = To(p, "part_data_almost_boundary", Data(p.chunk))
    BY <1>4 DEF PartData, Data
  <2>2. /\ s.parser \in Parser /\ Goes(s) /\ s.calls = Data(p.chunk)
        /\ s.parser.state = "part_data_almost_boundary" /\ s.parser.chunk = <<>>
    BY <1>1, <2>1, ToParser
  <2>3. /\ Data(p.chunk) \in Seq(Calls) /\ Len(Data(p.chunk)) = 1
        /\ \A i \in DOMAIN Data(p.chunk) : Data(p.chunk)[i].on = "part_data"
        /\ Pending(Data(p.chunk)) \o <<>> = p.chunk
    BY <1>2, DataTyped
  <2> QED
    BY <1>4, <2>2, <2>3
<1>5. CASE c # CR /\ last
  <2>1. s = Stay(p, c, last, Data(more))
    BY <1>5 DEF PartData, AtEnd, Data
  <2> HIDE DEF more
  <2>2. /\ s.parser \in Parser /\ Goes(s) /\ s.calls = Data(more)
        /\ s.parser.state = "part_data" /\ s.parser.chunk = <<>>
    <3> DEFINE calls == Data(more)
    <3> HIDE DEF calls
    <3>1. /\ s.parser \in Parser /\ Goes(s) /\ s.calls = calls /\ s.parser.state = "part_data"
      BY <1>1, <2>1, StayParser DEF calls
    <3>2. s.parser.chunk = <<>>
      <4>1. s.parser.chunk = IF last THEN <<>> ELSE Append(p.chunk, c)
        BY <1>1, <2>1, StayParser DEF calls
      <4>2. (IF last THEN <<>> ELSE Append(p.chunk, c)) = <<>>
        BY <1>5
      <4> QED
        BY <4>1, <4>2
    <3> QED
      BY <3>1, <3>2 DEF calls
  <2>3. /\ Data(more) \in Seq(Calls) /\ Len(Data(more)) = 1
        /\ \A i \in DOMAIN Data(more) : Data(more)[i].on = "part_data"
        /\ Pending(Data(more)) \o <<>> = more
    BY <1>2, DataTyped
  <2>4. Pending(s.calls) \o s.parser.chunk = more
    BY <2>2, <2>3
  <2>5. /\ s.parser \in Parser /\ Goes(s)
        /\ s.calls \in Seq(Calls) /\ Len(s.calls) \in {0, 1}
        /\ \A i \in DOMAIN s.calls : s.calls[i].on = "part_data"
    BY <2>2, <2>3
  <2> QED
    BY <1>5, <2>2, <2>4, <2>5 DEF more
<1>6. CASE c # CR /\ ~last
  <2>1. s = Stay(p, c, last, <<>>)
    BY <1>6 DEF PartData, AtEnd
  <2>2. <<>> \o more = more
    BY <1>2, ConcatEmptySeq
  <2>3. Pending(<<>>) = <<>>
    BY DEF Pending
  <2>4. /\ s.parser \in Parser /\ Goes(s) /\ s.calls = <<>>
        /\ s.parser.state = "part_data" /\ s.parser.chunk = more
    <3>1. /\ s.parser \in Parser /\ Goes(s) /\ s.calls = <<>> /\ s.parser.state = "part_data"
          /\ s.parser.chunk = IF last THEN <<>> ELSE Append(p.chunk, c)
      BY <1>1, <2>1, StayParser
    <3>2. (IF last THEN <<>> ELSE Append(p.chunk, c)) = more
      BY <1>6
    <3> QED
      BY <3>1, <3>2
  <2> HIDE DEF more
  <2> QED
    BY <1>6, <2>2, <2>3, <2>4 DEF more
<1> QED
  BY <1>4, <1>5, <1>6

LEMMA HeldTyped ==
    ASSUME NEW p \in Parser
    PROVE  /\ Held(p) \in Nat /\ Held(p) < Len(Delimiter)
           /\ p.state \in {"part_data", "part_data_start"} => Held(p) = 0
           /\ p.state = "part_data_almost_boundary" => Held(p) = 1
           /\ p.state = "part_data_boundary" => Held(p) = 2 + p.index
           /\ p.state \in {"part_data_almost_boundary", "part_data_boundary"} => p.chunk = <<>>
           /\ SubSeq(Delimiter, 1, Held(p)) \in Seq(Bytes)
           /\ Len(SubSeq(Delimiter, 1, Held(p))) = Held(p)
           /\ SubSeq(Delimiter, 1, 0) = <<>>
<1>1. /\ Held(p) \in Nat
      /\ p.state \in {"part_data", "part_data_start"} => Held(p) = 0
      /\ p.state = "part_data_almost_boundary" => Held(p) = 1
      /\ p.state = "part_data_boundary" => Held(p) = 2 + p.index
  BY DEF Held, Parser
<1>2. Held(p) < Len(Delimiter)
  BY DelimiterBytes, BytesTyped DEF Held, Parser
<1>3. p.state \in {"part_data_almost_boundary", "part_data_boundary"} => p.chunk = <<>>
  BY DEF Parser, MarkStates
<1>4. /\ SubSeq(Delimiter, 1, Held(p)) \in Seq(Bytes)
      /\ Len(SubSeq(Delimiter, 1, Held(p))) = Held(p)
  BY <1>1, <1>2, DelimiterBytes, SubSeqProperties
<1>5. SubSeq(Delimiter, 1, 0) = <<>>
  BY DelimiterBytes, SubSeqEmpty
<1> QED
  BY <1>1, <1>2, <1>3, <1>4, <1>5

\* A byte that does not go on with a delimiter: the bytes held back are data.
DataBegins(c, call, s) ==
    /\ s.parser \in Parser /\ Goes(s)
    /\ s.calls \in Seq(Calls) /\ Len(s.calls) \in {1, 2} /\ s.calls[1] = call
    /\ \A i \in DOMAIN s.calls : i = 1 \/ s.calls[i].on = "part_data"
    /\ s.parser.state = IF c = CR THEN "part_data_almost_boundary" ELSE "part_data"
    /\ Held(s.parser) = IF c = CR THEN 1 ELSE 0
    /\ Passed(s.calls, s.parser) = Append(call.data, c)

LEMMA ThenDataStep ==
    ASSUME NEW p, NEW c \in Bytes, NEW last, NEW call \in Calls, NEW s,
           s = ThenData(p, c, last, <<call>>)
    PROVE  DataBegins(c, call, s)
<1> DEFINE q == [state |-> "part_data", index |-> 0, chunk |-> <<>>]
           d == PartData(q, c, last)
<1>1. q \in Parser /\ q.state = "part_data" /\ q.chunk = <<>>
  BY DEF Parser, States, DataStates, MarkStates
<1>2. s = [d EXCEPT !.calls = <<call>> \o @]
  BY DEF ThenData
<1>3. d = [parser |-> d.parser, calls |-> d.calls, ok |-> d.ok]
  BY DEF PartData, To, Stay
<1> HIDE DEF q
<1>4. /\ d.parser \in Parser /\ Goes(d)
      /\ d.calls \in Seq(Calls) /\ Len(d.calls) \in {0, 1}
      /\ \A i \in DOMAIN d.calls : d.calls[i].on = "part_data"
      /\ d.parser.state = IF c = CR THEN "part_data_almost_boundary" ELSE "part_data"
      /\ Pending(d.calls) \o d.parser.chunk = IF c = CR THEN <<>> ELSE Append(<<>>, c)
  <2>1. /\ d.parser \in Parser /\ Goes(d)
        /\ d.calls \in Seq(Calls) /\ Len(d.calls) \in {0, 1}
        /\ \A i \in DOMAIN d.calls : d.calls[i].on = "part_data"
        /\ d.parser.state = IF c = CR THEN "part_data_almost_boundary" ELSE "part_data"
        /\ Pending(d.calls) \o d.parser.chunk = IF c = CR THEN q.chunk ELSE Append(q.chunk, c)
    BY <1>1, PartDataStep DEF SliceGoesOn
  <2> HIDE DEF d
  <2> QED
    BY <1>1, <2>1
<1> HIDE DEF d
<1>5. s.parser = d.parser /\ s.calls = <<call>> \o d.calls /\ s.ok = d.ok
  BY <1>2, <1>3
<1>6. /\ s.calls \in Seq(Calls) /\ Len(s.calls) \in {1, 2} /\ s.calls[1] = call
      /\ \A i \in DOMAIN s.calls : i = 1 \/ s.calls[i].on = "part_data"
  <2> DEFINE both == <<call>> \o d.calls
  <2>1. /\ both \in Seq(Calls) /\ Len(both) = 1 + Len(d.calls) /\ both[1] = call
        /\ \A i \in DOMAIN both : i = 1 \/ (i = 2 /\ Len(d.calls) = 1 /\ both[i] = d.calls[1])
    BY <1>4, TwoCalls
  <2>2. Len(d.calls) = 1 => d.calls[1].on = "part_data"
    BY <1>4
  <2> HIDE DEF both
  <2>3. Len(both) \in {1, 2}
    BY <1>4, <2>1
  <2>4. s.calls = both
    BY <1>5 DEF both
  <2> QED
    BY <2>1, <2>2, <2>3, <2>4
<1>7. Held(s.parser) = IF c = CR THEN 1 ELSE 0
  BY <1>4, <1>5 DEF Held
<1>8. Passed(s.calls, s.parser) = Append(call.data, c)
  <2>1. Pending(s.calls) = call.data \o Pending(d.calls)
    BY <1>4, <1>5, PendingTwo
  <2>2. call.data \in Seq(Bytes) /\ Pending(d.calls) \in Seq(Bytes) /\ d.parser.chunk \in Seq(Bytes)
    BY <1>4, CallFields, PendingTyped, ChunkTyped
  <2>3. (call.data \o Pending(d.calls)) \o d.parser.chunk = call.data \o (Pending(d.calls) \o d.parser.chunk)
    <3> DEFINE x == call.data
               y == Pending(d.calls)
               z == d.parser.chunk
    <3>0. x \in Seq(Bytes) /\ y \in Seq(Bytes) /\ z \in Seq(Bytes)
      BY <2>2
    <3> HIDE DEF x, y, z
    <3>1. (x \o y) \o z = x \o (y \o z)
      BY <3>0, ConcatAssociative
    <3> QED
      BY <3>1 DEF x, y, z
  <2>4. CASE c = CR
    <3>1. SubSeq(Delimiter, 1, 1) = <<CR>>
      BY DelimiterStart
    <3>2. call.data \o <<>> = call.data /\ call.data \o <<c>> = Append(call.data, c)
      BY <2>2, ConcatEmptySeq, AppendIsConcat
    <3> QED
      BY <1>4, <1>5, <1>7, <2>1, <2>3, <2>4, <3>1, <3>2 DEF Passed
  <2>5. CASE c # CR
    <3>1. SubSeq(Delimiter, 1, 0) = <<>>
      BY DelimiterBytes, SubSeqEmpty
    <3>2. Append(<<>>, c) = <<c>> /\ call.data \o <<c>> = Append(call.data, c)
      BY <2>2, AppendIsConcat
    <3>3. Append(call.data, c) \o <<>> = Append(call.data, c)
      BY <2>2, ConcatEmptySeq
    <3> QED
      BY <1>4, <1>5, <1>7, <2>1, <2>3, <2>5, <3>1, <3>2, <3>3 DEF Passed
  <2> QED
    BY <2>4, <2>5
<1>9. s.parser \in Parser /\ Goes(s)
      /\ s.parser.state = IF c = CR THEN "part_data_almost_boundary" ELSE "part_data"
  BY <1>4, <1>5 DEF Goes
<1> QED
  BY <1>6, <1>7, <1>8, <1>9 DEF DataBegins

\* The callbacks of a byte of part data, and what they hand over.
DataGoesOn(p, s, held, passed) ==
    /\ s.parser \in Parser /\ Goes(s) /\ s.parser.state \in DataStates
    /\ CallsGo(p.state, s.parser.state, s.calls)
    /\ Held(s.parser) = held
    /\ Passed(s.calls, s.parser) = passed

LEMMA DataBeginsFields ==
    ASSUME NEW p, NEW c, NEW call \in Calls, NEW s, DataBegins(c, call, s),
           call.on = IF p.state = "part_data_start" THEN "headers_complete" ELSE "part_data"
    PROVE  DataGoesOn(p, s, IF c = CR THEN 1 ELSE 0, Append(call.data, c))
<1>1. s.parser.state \in DataStates
  BY DEF DataBegins, DataStates
<1>2. /\ s.calls \in Seq(Calls) /\ Len(s.calls) \in {0, 1, 2}
      /\ \A i \in DOMAIN s.calls : s.calls[i].on =
            IF i = 1 /\ p.state = "part_data_start" THEN "headers_complete" ELSE "part_data"
  BY DEF DataBegins
<1>3. CallsGo(p.state, s.parser.state, s.calls)
  <2> DEFINE state == s.parser.state
             calls == s.calls
  <2>1. state \in DataStates /\ calls \in Seq(Calls) /\ Len(calls) \in {0, 1, 2}
        /\ \A i \in DOMAIN calls : calls[i].on =
              IF i = 1 /\ p.state = "part_data_start" THEN "headers_complete" ELSE "part_data"
    BY <1>1, <1>2
  <2> HIDE DEF state, calls
  <2>2. CallsGo(p.state, state, calls)
    BY <2>1, DataCalls
  <2> QED
    BY <2>2 DEF state, calls
<1> QED
  BY <1>1, <1>3 DEF DataBegins, DataGoesOn

LEMMA PassOnStep ==
    ASSUME NEW p \in Parser, p.state \in {"part_data_almost_boundary", "part_data_boundary"},
           NEW c \in Bytes, NEW last, NEW s, s = PassOn(p, c, last)
    PROVE  DataGoesOn(p, s, IF c = CR THEN 1 ELSE 0, Append(SubSeq(Delimiter, 1, Held(p)), c))
<1> DEFINE call == Call("part_data", Lookbehind(p))
<1>1. Lookbehind(p) = SubSeq(Delimiter, 1, Held(p))
  <2>1. CASE p.state = "part_data_almost_boundary"
    BY <2>1, DelimiterStart DEF Lookbehind, Held
  <2>2. CASE p.state = "part_data_boundary"
    BY <2>2 DEF Lookbehind, Held
  <2> QED
    BY <2>1, <2>2
<1>2. call \in Calls /\ call.on = "part_data" /\ call.data = SubSeq(Delimiter, 1, Held(p))
  <2> DEFINE slice == SubSeq(Delimiter, 1, Held(p))
  <2>1. slice \in Seq(Bytes) /\ call = Call("part_data", slice)
    BY <1>1, HeldTyped
  <2> HIDE DEF slice, call
  <2>2. call \in Calls /\ call.on = "part_data" /\ call.data = slice
    BY <2>1, CallTyped DEF Callbacks
  <2> QED
    BY <2>2 DEF slice
<1>3. s = ThenData(p, c, last, <<call>>)
  BY DEF PassOn
<1> HIDE DEF call
<1>4. DataBegins(c, call, s)
  BY <1>2, <1>3, ThenDataStep
<1>5. call.on = IF p.state = "part_data_start" THEN "headers_complete" ELSE "part_data"
  BY <1>2
<1>6. DataGoesOn(p, s, IF c = CR THEN 1 ELSE 0, Append(call.data, c))
  BY <1>2, <1>4, <1>5, DataBeginsFields
<1> QED
  BY <1>2, <1>6

LEMMA PartBegins ==
    ASSUME NEW p \in Parser, p.state = "part_data_start", NEW c \in Bytes, NEW last, NEW s,
           s = Consume(p, c, last)
    PROVE  /\ DataGoesOn(p, s, IF c = CR THEN 1 ELSE 0, <<c>>)
           /\ Len(s.calls) # 0 /\ s.calls[1].on = "headers_complete" /\ s.calls[1].data = <<>>
<1> DEFINE call == Call("headers_complete", <<>>)
<1>1. call \in Calls /\ call.on = "headers_complete" /\ call.data = <<>>
  BY DEF Call, Calls, Callbacks
<1>2. s = ThenData(p, c, last, <<call>>)
  BY Handlers
<1> HIDE DEF call
<1>3. DataBegins(c, call, s)
  BY <1>1, <1>2, ThenDataStep
<1>4. call.on = IF p.state = "part_data_start" THEN "headers_complete" ELSE "part_data"
  BY <1>1
<1>5. DataGoesOn(p, s, IF c = CR THEN 1 ELSE 0, Append(call.data, c))
  BY <1>1, <1>3, <1>4, DataBeginsFields
<1>6. Append(call.data, c) = <<c>>
  BY <1>1
<1> QED
  BY <1>1, <1>3, <1>5, <1>6 DEF DataBegins

PartEnds(s) ==
    /\ s.parser \in Parser /\ Goes(s) /\ s.parser.state = "part_data_almost_end"
    /\ s.calls = <<Call("part_data_end", <<>>)>>

\* The bytes read, in the order they were read: passed on, in the slice, or held back.
LEMMA HeldBack ==
    ASSUME NEW p \in Parser, p.state \in {"part_data_almost_boundary", "part_data_boundary"}
    PROVE  Passed(<<>>, p) = SubSeq(Delimiter, 1, Held(p))
<1> DEFINE prefix == SubSeq(Delimiter, 1, Held(p))
<1>1. prefix \in Seq(Bytes) /\ p.chunk = <<>>
  BY HeldTyped
<1> HIDE DEF prefix
<1>2. <<>> \o prefix = prefix /\ <<>> \o <<>> = <<>>
  BY <1>1, ConcatEmptySeq
<1>3. Pending(<<>>) = <<>>
  BY DEF Pending
<1>4. (Pending(<<>>) \o p.chunk) \o prefix = prefix
  BY <1>1, <1>2, <1>3
<1> QED
  BY <1>4 DEF prefix, Passed

LEMMA NotHeldBack ==
    ASSUME NEW p \in Parser, p.state = "part_data"
    PROVE  Passed(<<>>, p) = p.chunk
<1>1. p.chunk \in Seq(Bytes) /\ Held(p) = 0 /\ SubSeq(Delimiter, 1, Held(p)) = <<>>
  BY ChunkTyped, HeldTyped
<1>2. <<>> \o p.chunk = p.chunk /\ p.chunk \o <<>> = p.chunk
  BY <1>1, ConcatEmptySeq
<1>3. Pending(<<>>) = <<>>
  BY DEF Pending
<1> QED
  BY <1>1, <1>2, <1>3 DEF Passed

\* One more byte of a delimiter.
LEMMA HoldBack ==
    ASSUME NEW p \in Parser, NEW q \in Parser, NEW s,
           p.state \in DataStates, q.state = "part_data_boundary", Held(q) = Held(p) + 1,
           p.state \in {"part_data_almost_boundary", "part_data_boundary"},
           s = [parser |-> q, calls |-> <<>>, ok |-> TRUE]
    PROVE  DataGoesOn(p, s, Held(p) + 1, Append(Passed(<<>>, p), Delimiter[Held(p) + 1]))
<1> DEFINE n == Held(p)
<1>1. n \in Nat /\ n < Len(Delimiter) /\ Delimiter \in Seq(Bytes)
  BY HeldTyped, DelimiterBytes
<1>2. Passed(<<>>, p) = SubSeq(Delimiter, 1, n)
  BY HeldBack
<1>3. Passed(<<>>, q) = SubSeq(Delimiter, 1, n + 1)
  BY HeldBack
<1>4. CallsGo(p.state, q.state, <<>>)
  BY NoCalls
<1>5. s.parser = q /\ s.calls = <<>> /\ Goes(s)
  BY DEF Goes
<1>6. q.state \in DataStates
  BY DEF DataStates
<1> HIDE DEF n
<1>7. SubSeq(Delimiter, 1, n + 1) = Append(SubSeq(Delimiter, 1, n), Delimiter[n + 1])
  BY <1>1, PrefixGrows
<1>8. Passed(<<>>, q) = Append(Passed(<<>>, p), Delimiter[n + 1])
  BY <1>2, <1>3, <1>7
<1> QED
  BY <1>4, <1>5, <1>6, <1>8 DEF DataGoesOn, n

LEMMA PartDataGoesOn ==
    ASSUME NEW p \in Parser, p.state = "part_data", NEW c \in Bytes, NEW last, NEW s,
           s = PartData(p, c, last)
    PROVE  DataGoesOn(p, s, IF c = CR THEN 1 ELSE 0, Append(Passed(<<>>, p), c))
<1>0. SliceGoesOn(p, c, s)
  BY PartDataStep
<1>1. /\ s.parser \in Parser /\ Goes(s)
      /\ s.calls \in Seq(Calls) /\ Len(s.calls) \in {0, 1}
      /\ \A i \in DOMAIN s.calls : s.calls[i].on = "part_data"
      /\ s.parser.state = IF c = CR THEN "part_data_almost_boundary" ELSE "part_data"
      /\ Pending(s.calls) \o s.parser.chunk = IF c = CR THEN p.chunk ELSE Append(p.chunk, c)
  BY <1>0 DEF SliceGoesOn
<1>2. s.parser.state \in DataStates
  BY <1>1 DEF DataStates
<1>3. CallsGo(p.state, s.parser.state, s.calls)
  <2> DEFINE state == s.parser.state
             calls == s.calls
  <2>1. state \in DataStates /\ calls \in Seq(Calls) /\ Len(calls) \in {0, 1, 2}
        /\ \A i \in DOMAIN calls : calls[i].on =
              IF i = 1 /\ p.state = "part_data_start" THEN "headers_complete" ELSE "part_data"
    BY <1>1, <1>2
  <2> HIDE DEF state, calls
  <2>2. CallsGo(p.state, state, calls)
    BY <2>1, DataCalls
  <2> QED
    BY <2>2 DEF state, calls
<1>4. Held(s.parser) = IF c = CR THEN 1 ELSE 0
  BY <1>1 DEF Held
<1>5. Passed(s.calls, s.parser) = Append(p.chunk, c)
  <2>1. p.chunk \in Seq(Bytes)
    BY ChunkTyped
  <2>2. CASE c = CR
    <3>1. Pending(s.calls) \o s.parser.chunk = p.chunk /\ SubSeq(Delimiter, 1, Held(s.parser)) = <<c>>
      BY <1>1, <1>4, <2>2, DelimiterStart
    <3>2. p.chunk \o <<c>> = Append(p.chunk, c)
      BY <2>1, AppendIsConcat
    <3> QED
      BY <3>1, <3>2 DEF Passed
  <2>3. CASE c # CR
    <3>1. Pending(s.calls) \o s.parser.chunk = Append(p.chunk, c) /\ SubSeq(Delimiter, 1, Held(s.parser)) = <<>>
      BY <1>1, <1>4, <2>3, DelimiterStart
    <3>2. Append(p.chunk, c) \o <<>> = Append(p.chunk, c)
      BY <2>1, ConcatEmptySeq
    <3> QED
      BY <3>1, <3>2 DEF Passed
  <2> QED
    BY <2>2, <2>3
<1> QED
  BY <1>1, <1>2, <1>3, <1>4, <1>5, NotHeldBack DEF DataGoesOn

\* A byte within a part: it goes on with a delimiter, is data, or ends the part.
DataTurns(p, c, s) ==
    \/ /\ c = Delimiter[Held(p) + 1] /\ Held(p) + 1 < Len(Delimiter)
       /\ DataGoesOn(p, s, Held(p) + 1, Append(Passed(<<>>, p), c))
    \/ /\ c # Delimiter[Held(p) + 1]
       /\ DataGoesOn(p, s, IF c = CR THEN 1 ELSE 0, Append(Passed(<<>>, p), c))
    \/ /\ c = Delimiter[Held(p) + 1] /\ Held(p) + 1 = Len(Delimiter)
       /\ PartEnds(s)

LEMMA DataStep ==
    ASSUME NEW p \in Parser, p.state \in DataStates, NEW c \in Bytes, NEW last, NEW s,
           s = Consume(p, c, last)
    PROVE  DataTurns(p, c, s)
<1>0. Len(Delimiter) = 2 + Len(Boundary) /\ Len(Boundary) \in Nat /\ Len(Boundary) > 0
  BY DelimiterBytes, BytesTyped
<1>1. CASE p.state = "part_data"
  <2>1. Held(p) = 0 /\ Delimiter[0 + 1] = CR
    BY <1>1, HeldTyped, DelimiterBytes
  <2>2. DataGoesOn(p, s, IF c = CR THEN 1 ELSE 0, Append(Passed(<<>>, p), c))
    BY <1>1, Handlers, PartDataGoesOn
  <2>3. 0 + 1 < Len(Delimiter)
    BY <1>0
  <2>4. CASE c = CR
    <3>1. DataGoesOn(p, s, 0 + 1, Append(Passed(<<>>, p), c))
      BY <2>2, <2>4
    <3> QED
      BY <2>1, <2>3, <2>4, <3>1 DEF DataTurns
  <2>5. CASE c # CR
    BY <2>1, <2>2, <2>5 DEF DataTurns
  <2> QED
    BY <2>4, <2>5
<1>2. CASE p.state = "part_data_almost_boundary"
  <2>1. Held(p) = 1 /\ Delimiter[1 + 1] = LF /\ 1 + 1 < Len(Delimiter)
    BY <1>0, <1>2, HeldTyped, DelimiterBytes
  <2>2. s = PartDataAlmostBoundary(p, c, last)
    BY <1>2, Handlers
  <2>3. CASE c = LF
    <3> DEFINE q == [state |-> "part_data_boundary", index |-> 0, chunk |-> <<>>]
    <3>1. q \in Parser /\ q.state = "part_data_boundary" /\ q.index = 0
      BY <1>0 DEF Parser, States, DataStates, MarkStates
    <3>2. s = [parser |-> q, calls |-> <<>>, ok |-> TRUE]
      BY <2>2, <2>3 DEF PartDataAlmostBoundary, To
    <3> HIDE DEF q
    <3>3. Held(q) = 1 + 1
      BY <3>1 DEF Held
    <3>4. DataGoesOn(p, s, Held(p) + 1, Append(Passed(<<>>, p), Delimiter[Held(p) + 1]))
      BY <1>2, <2>1, <3>1, <3>2, <3>3, HoldBack
    <3> QED
      BY <2>1, <2>3, <3>4 DEF DataTurns
  <2>4. CASE c # LF
    <3>1. s = PassOn(p, c, last)
      BY <2>2, <2>4 DEF PartDataAlmostBoundary
    <3>2. DataGoesOn(p, s, IF c = CR THEN 1 ELSE 0, Append(SubSeq(Delimiter, 1, Held(p)), c))
      BY <1>2, <3>1, PassOnStep
    <3>3. DataGoesOn(p, s, IF c = CR THEN 1 ELSE 0, Append(Passed(<<>>, p), c))
      BY <1>2, <3>2, HeldBack
    <3>4. c # Delimiter[Held(p) + 1]
      BY <2>1, <2>4
    <3> QED
      BY <3>3, <3>4 DEF DataTurns
  <2> QED
    BY <2>3, <2>4
<1>3. CASE p.state = "part_data_boundary"
  <2>1. p.index \in Nat /\ p.index < Len(Boundary) /\ p.chunk = <<>>
    BY <1>3 DEF Parser, MarkStates
  <2>2. /\ Held(p) = 2 + p.index /\ Held(p) + 1 = 2 + (p.index + 1)
        /\ Delimiter[2 + (p.index + 1)] = Boundary[p.index + 1]
    <3>1. Held(p) = 2 + p.index
      BY <1>3, HeldTyped
    <3>2. p.index + 1 \in 1 .. Len(Boundary) /\ Held(p) + 1 = 2 + (p.index + 1)
      BY <1>0, <2>1, <3>1
    <3> QED
      BY <3>1, <3>2, DelimiterBytes
  <2>3. s = PartDataBoundary(p, c, last)
    BY <1>3, Handlers
  <2>4. CASE c # Boundary[p.index + 1]
    <3>1. s = PassOn(p, c, last)
      BY <2>3, <2>4 DEF PartDataBoundary
    <3>2. DataGoesOn(p, s, IF c = CR THEN 1 ELSE 0, Append(SubSeq(Delimiter, 1, Held(p)), c))
      BY <1>3, <3>1, PassOnStep
    <3>3. DataGoesOn(p, s, IF c = CR THEN 1 ELSE 0, Append(Passed(<<>>, p), c))
      BY <1>3, <3>2, HeldBack
    <3>4. c # Delimiter[Held(p) + 1]
      BY <2>2, <2>4
    <3> QED
      BY <3>3, <3>4 DEF DataTurns
  <2>5. CASE c = Boundary[p.index + 1] /\ p.index + 1 = Len(Boundary)
    <3>1. s = To(p, "part_data_almost_end", <<Call("part_data_end", <<>>)>>)
      BY <2>3, <2>5 DEF PartDataBoundary
    <3>2. "part_data_almost_end" \in States \ {"start_boundary", "part_data_boundary"}
      BY DEF States
    <3>3. PartEnds(s)
      <4> DEFINE calls == <<Call("part_data_end", <<>>)>>
      <4>1. s = To(p, "part_data_almost_end", calls)
        BY <3>1
      <4> HIDE DEF calls
      <4>2. /\ s.parser \in Parser /\ Goes(s) /\ s.parser.state = "part_data_almost_end"
            /\ s.calls = calls
        BY <3>2, <4>1, ToParser
      <4> QED
        BY <4>2 DEF PartEnds, calls
    <3>4. Held(p) + 1 = Len(Delimiter)
      BY <1>0, <2>1, <2>2, <2>5
    <3> QED
      BY <2>2, <2>5, <3>3, <3>4 DEF DataTurns
  <2>6. CASE c = Boundary[p.index + 1] /\ p.index + 1 # Len(Boundary)
    <3> DEFINE q == [p EXCEPT !.index = @ + 1]
    <3>1. q \in Parser /\ q.state = "part_data_boundary" /\ q.index = p.index + 1
      BY <1>0, <1>3, <2>1, <2>6 DEF Parser, MarkStates
    <3>2. s = [parser |-> q, calls |-> <<>>, ok |-> TRUE]
      BY <2>3, <2>6 DEF PartDataBoundary
    <3> HIDE DEF q
    <3>3. Held(q) = Held(p) + 1
      BY <2>2, <3>1 DEF Held
    <3>4. p.state \in DataStates
      OBVIOUS
    <3>5. DataGoesOn(p, s, Held(p) + 1, Append(Passed(<<>>, p), Delimiter[Held(p) + 1]))
      BY <1>3, <3>1, <3>2, <3>3, HoldBack
    <3>6. Held(p) + 1 < Len(Delimiter)
      BY <1>0, <2>1, <2>2, <2>6
    <3> QED
      BY <2>2, <2>6, <3>5, <3>6 DEF DataTurns
  <2> QED
    BY <2>4, <2>5, <2>6
<1> QED
  BY <1>1, <1>2, <1>3 DEF DataStates

LEMMA GoesOnSound ==
    ASSUME NEW p, NEW s, NEW held, NEW passed, DataGoesOn(p, s, held, passed)
    PROVE  Sound(p, s)
BY DEF DataGoesOn, Sound, Goes

LEMMA EndsSound ==
    ASSUME NEW p, NEW s, PartEnds(s)
    PROVE  Sound(p, s)
<1> DEFINE calls == <<Call("part_data_end", <<>>)>>
<1>1. CallsGo(p.state, "part_data_almost_end", calls)
  <2>1. Call("part_data_end", <<>>) \in Calls
    BY DEF Call, Calls, Callbacks
  <2> QED
    BY <2>1, OneCall DEF CallsGo, HeaderStates, DataStates, SilentStates
<1>2. /\ s.parser \in Parser /\ s.parser.state = "part_data_almost_end"
      /\ s.calls = calls /\ s.ok \in BOOLEAN /\ Goes(s)
  BY DEF PartEnds, Goes
<1> HIDE DEF calls
<1> QED
  BY <1>1, <1>2 DEF Sound

LEMMA DataSound ==
    ASSUME NEW p \in Parser, p.state \in DataStates, NEW c \in Bytes, NEW last
    PROVE  Sound(p, Consume(p, c, last))
<1> DEFINE s == Consume(p, c, last)
           held == Held(p) + 1
           next == IF c = CR THEN 1 ELSE 0
           passed == Append(Passed(<<>>, p), c)
<1>1. DataTurns(p, c, s)
  BY DataStep
<1>2. \/ DataGoesOn(p, s, held, passed)
      \/ DataGoesOn(p, s, next, passed)
      \/ PartEnds(s)
  BY <1>1 DEF DataTurns
<1> HIDE DEF s, held, next, passed
<1>3. Sound(p, s)
  BY <1>2, GoesOnSound, EndsSound
<1> QED
  BY <1>3 DEF s

\* Any byte is dealt with: the parser and its callbacks stay what they may be.
LEMMA ConsumeSound ==
    ASSUME NEW p \in Parser, NEW c \in Bytes, NEW last
    PROVE  Sound(p, Consume(p, c, last))
<1>1. CASE p.state = "start_boundary"
  BY <1>1, Handlers, StartBoundarySound
<1>2. CASE p.state = "header_field"
  BY <1>2, Handlers, HeaderFieldSound
<1>3. CASE p.state = "headers_almost_done"
  BY <1>3, Handlers, ExpectSound DEF States, SilentStates
<1>4. CASE p.state = "header_value_start"
  BY <1>4, Handlers, HeaderValueStartSound
<1>5. CASE p.state = "header_value"
  BY <1>5, Handlers, HeaderValueSound
<1>6. CASE p.state \in {"header_value_almost_done", "part_data_end"}
  BY <1>6, Handlers, ExpectSound DEF States, HeaderStates
<1>7. CASE p.state = "part_data_start"
  <2> DEFINE s == Consume(p, c, last)
  <2>1. s = Consume(p, c, last)
    OBVIOUS
  <2> HIDE DEF s
  <2>2. DataGoesOn(p, s, IF c = CR THEN 1 ELSE 0, <<c>>)
    BY <1>7, <2>1, PartBegins
  <2>3. Sound(p, s)
    BY <2>2 DEF DataGoesOn, Sound, Goes
  <2> QED
    BY <2>1, <2>3
<1>8. CASE p.state \in DataStates
  BY <1>8, DataSound
<1>9. CASE p.state = "part_data_almost_end"
  <2>1. CASE c = Hyphen
    BY <1>9, <2>1, Handlers, ToSound DEF PartDataAlmostEnd, States, SilentStates
  <2>2. CASE c # Hyphen
    BY <1>9, <2>2, Handlers, ExpectSound DEF PartDataAlmostEnd, States, SilentStates
  <2> QED
    BY <2>1, <2>2
<1>10. CASE p.state = "part_data_final_hyphen"
  BY <1>10, Handlers, ExpectSound DEF States, SilentStates
<1>11. CASE p.state = "end"
  BY <1>11, Handlers, ToSound DEF States, SilentStates
<1> QED
  BY <1>1, <1>2, <1>3, <1>4, <1>5, <1>6, <1>7, <1>8, <1>9, <1>10, <1>11, ChunkTyped
     DEF States, HeaderStates, SilentStates, DataStates

\* Outside of the parts nothing but headers is called back.
Outside(s) ==
    /\ s.parser.state \notin DataStates
    /\ \A i \in DOMAIN s.calls : s.calls[i].on \in {"header_field", "header_value"}

LEMMA OutsideStep ==
    ASSUME NEW p \in Parser, p.state \notin DataStates \cup {"part_data_start"},
           NEW c \in Bytes, NEW last, NEW s, s = Consume(p, c, last)
    PROVE  Outside(s)
<1>1. \/ s.parser.state \in HeaderStates \cup SilentStates
      \/ s = Fail(p)
  <2>1. CASE p.state = "start_boundary"
    <3>1. s = StartBoundary(p, c)
      BY <2>1, Handlers
    <3>2. CASE p.index = Len(Boundary) + 1
      BY <3>1, <3>2 DEF StartBoundary, Expect, To, HeaderStates
    <3>3. CASE p.index # Len(Boundary) + 1 /\ c = Append(Boundary, CR)[p.index + 1]
      BY <2>1, <3>1, <3>3 DEF StartBoundary, SilentStates, Parser
    <3>4. CASE p.index # Len(Boundary) + 1 /\ c # Append(Boundary, CR)[p.index + 1]
      BY <3>1, <3>4 DEF StartBoundary
    <3> QED
      BY <3>2, <3>3, <3>4
  <2>2. CASE p.state = "header_field"
    <3>1. s = HeaderField(p, c, last)
      BY <2>2, Handlers
    <3>2. CASE c = CR \/ c = Colon
      BY <3>1, <3>2, HeaderFieldCases DEF To, HeaderStates, SilentStates
    <3>3. CASE c = Hyphen \/ c \in Letters
      <4>1. PICK calls : s = Stay(p, c, last, calls)
        BY <3>1, <3>3, HeaderFieldCases
      <4>2. s.parser.state = p.state
        BY <4>1 DEF Stay, Parser
      <4> QED
        BY <2>2, <4>2 DEF HeaderStates
    <3>4. CASE c \notin {CR, Hyphen, Colon} \cup Letters
      BY <3>1, <3>4, HeaderFieldCases
    <3> QED
      BY <3>2, <3>3, <3>4
  <2>3. ASSUME NEW q \in Parser, q.state = "header_value", s = HeaderValue(q, c, last)
        PROVE  s.parser.state \in HeaderStates
    <3>1. \A calls : Stay(q, c, last, calls).parser.state = q.state
      BY DEF Stay, Parser
    <3>2. CASE c = CR
      BY <2>3, <3>2 DEF HeaderValue, To, HeaderStates
    <3>3. CASE c # CR
      BY <2>3, <3>1, <3>3 DEF HeaderValue, HeaderStates
    <3> QED
      BY <3>2, <3>3
  <2>4. CASE p.state = "header_value"
    BY <2>3, <2>4, Handlers
  <2>5. CASE p.state = "header_value_start"
    <3>1. s = HeaderValueStart(p, c, last)
      BY <2>5, Handlers
    <3>2. CASE c = Space
      BY <3>1, <3>2 DEF HeaderValueStart, To, HeaderStates
    <3>3. CASE c # Space
      <4> DEFINE q == [p EXCEPT !.state = "header_value"]
      <4>1. q \in Parser /\ q.state = "header_value"
        BY <2>5 DEF Parser, States, HeaderStates, MarkStates
      <4>2. s = HeaderValue(q, c, last)
        BY <3>1, <3>3 DEF HeaderValueStart
      <4> HIDE DEF q
      <4> QED
        BY <2>3, <4>1, <4>2
    <3> QED
      BY <3>2, <3>3
  <2>6. ASSUME NEW wanted, NEW state \in HeaderStates \cup SilentStates, s = Expect(p, c, wanted, state)
        PROVE  \/ s.parser.state \in HeaderStates \cup SilentStates
               \/ s = Fail(p)
    BY <2>6 DEF Expect, To
  <2>7. CASE p.state \in {"header_value_almost_done", "part_data_end"}
    BY <2>6, <2>7, Handlers DEF HeaderStates
  <2>8. CASE p.state = "headers_almost_done"
    BY <2>6, <2>8, Handlers DEF SilentStates
  <2>9. CASE p.state = "part_data_final_hyphen"
    BY <2>6, <2>9, Handlers DEF SilentStates
  <2>10. CASE p.state = "part_data_almost_end"
    <3>1. s = PartDataAlmostEnd(p, c)
      BY <2>10, Handlers
    <3>2. CASE c = Hyphen
      BY <3>1, <3>2 DEF PartDataAlmostEnd, To, SilentStates
    <3>3. CASE c # Hyphen
      BY <2>6, <3>1, <3>3 DEF PartDataAlmostEnd, SilentStates
    <3> QED
      BY <3>2, <3>3
  <2>11. CASE p.state = "end"
    BY <2>11, Handlers DEF To, SilentStates
  <2> QED
    BY <2>1, <2>2, <2>4, <2>5, <2>7, <2>8, <2>9, <2>10, <2>11, ChunkTyped
       DEF States, HeaderStates, SilentStates, DataStates
<1>2. CASE s = Fail(p)
  BY <1>2 DEF Fail, Outside
<1>3. CASE s.parser.state \in HeaderStates \cup SilentStates
  <2>1. Sound(p, s)
    BY ConsumeSound
  <2>2. s.parser.state \notin DataStates
    BY <1>3 DEF HeaderStates, SilentStates, DataStates
  <2>3. CallsGo(p.state, s.parser.state, s.calls)
    BY <2>1 DEF Sound
  <2>4. s.calls = <<>> \/ \A i \in DOMAIN s.calls : s.calls[i].on \in {"header_field", "header_value"}
    BY <1>3, <2>3 DEF CallsGo
  <2> QED
    BY <2>2, <2>4 DEF Outside
<1> QED
  BY <1>1, <1>2, <1>3

\* The bytes a well formed body has outside of its parts, and the states they lead to.
Turn(state, c, next) ==
    \/ state = "header_field" /\ c \in Letters \cup {Hyphen} /\ next = state
    \/ state = "header_field" /\ c = Colon /\ next = "header_value_start"
    \/ state = "header_field" /\ c = CR /\ next = "headers_almost_done"
    \/ state = "header_value_start" /\ c = Space /\ next = state
    \/ state \in {"header_value_start", "header_value"} /\ c \notin {CR, Space} /\ next = "header_value"
    \/ state = "header_value" /\ c = CR /\ next = "header_value_almost_done"
    \/ state = "header_value_almost_done" /\ c = LF /\ next = "header_field"
    \/ state = "headers_almost_done" /\ c = LF /\ next = "part_data_start"
    \/ state = "part_data_almost_end" /\ c = CR /\ next = "part_data_end"
    \/ state = "part_data_end" /\ c = LF /\ next = "header_field"
    \/ state = "part_data_almost_end" /\ c = Hyphen /\ next = "part_data_final_hyphen"
    \/ state = "part_data_final_hyphen" /\ c = Hyphen /\ next = "end"

LEMMA ToTurns ==
    ASSUME NEW p, NEW state, NEW calls
    PROVE  Goes(To(p, state, calls)) /\ To(p, state, calls).parser.state = state
BY DEF To, Goes

LEMMA ExpectTurns ==
    ASSUME NEW p, NEW c, NEW state
    PROVE  Goes(Expect(p, c, c, state)) /\ Expect(p, c, c, state).parser.state = state
BY ToTurns DEF Expect

LEMMA StayTurns ==
    ASSUME NEW p \in Parser, NEW c, NEW last, NEW calls
    PROVE  Goes(Stay(p, c, last, calls)) /\ Stay(p, c, last, calls).parser.state = p.state
BY DEF Stay, Goes, Parser

LEMMA HeaderValueTurns ==
    ASSUME NEW p \in Parser, p.state = "header_value", NEW c, NEW last
    PROVE  /\ Goes(HeaderValue(p, c, last))
           /\ c # CR => HeaderValue(p, c, last).parser.state = "header_value"
           /\ c = CR => HeaderValue(p, c, last).parser.state = "header_value_almost_done"
<1>1. CASE c = CR
  <2>1. PICK calls : HeaderValue(p, c, last) = To(p, "header_value_almost_done", calls)
    BY <1>1 DEF HeaderValue
  <2> QED
    BY <1>1, <2>1, ToTurns
<1>2. CASE c # CR
  <2>1. PICK calls : HeaderValue(p, c, last) = Stay(p, c, last, calls)
    BY <1>2 DEF HeaderValue
  <2> QED
    BY <1>2, <2>1, StayTurns
<1> QED
  BY <1>1, <1>2

LEMMA Turns ==
    ASSUME NEW p \in Parser, NEW c \in Bytes, NEW last, NEW next, NEW s, s = Consume(p, c, last),
           Turn(p.state, c, next)
    PROVE  Goes(s) /\ s.parser.state = next
<1>0. p.state = "header_field" => s = HeaderField(p, c, last)
  BY Handlers
<1>1. CASE p.state = "header_field" /\ c \in Letters \cup {Hyphen} /\ next = p.state
  <2>1. PICK calls : s = Stay(p, c, last, calls)
    BY <1>0, <1>1, HeaderFieldCases
  <2> QED
    BY <1>1, <2>1, StayTurns
<1>2. CASE p.state = "header_field" /\ c = Colon /\ next = "header_value_start"
  <2>1. PICK calls : s = To(p, "header_value_start", calls)
    BY <1>0, <1>2, HeaderFieldCases
  <2> QED
    BY <1>2, <2>1, ToTurns
<1>3. CASE p.state = "header_field" /\ c = CR /\ next = "headers_almost_done"
  <2>1. s = To(p, "headers_almost_done", <<>>)
    BY <1>0, <1>3, HeaderFieldCases
  <2> QED
    BY <1>3, <2>1, ToTurns
<1>4. CASE p.state = "header_value_start" /\ c = Space /\ next = p.state
  <2>1. s = To(p, "header_value_start", <<>>)
    BY <1>4, Handlers DEF HeaderValueStart
  <2> QED
    BY <1>4, <2>1, ToTurns
<1>5. CASE p.state = "header_value_start" /\ c \notin {CR, Space} /\ next = "header_value"
  <2> DEFINE q == [p EXCEPT !.state = "header_value"]
  <2>1. q \in Parser /\ q.state = "header_value"
    BY <1>5 DEF Parser, States, HeaderStates, MarkStates
  <2>2. s = HeaderValue(q, c, last)
    BY <1>5, Handlers DEF HeaderValueStart
  <2> HIDE DEF q
  <2> QED
    BY <1>5, <2>1, <2>2, HeaderValueTurns
<1>6. CASE p.state = "header_value" /\ c # CR /\ next = "header_value"
  BY <1>6, Handlers, HeaderValueTurns
<1>7. CASE p.state = "header_value" /\ c = CR /\ next = "header_value_almost_done"
  BY <1>7, Handlers, HeaderValueTurns
<1>8. ASSUME s = Expect(p, c, c, next) PROVE Goes(s) /\ s.parser.state = next
  BY <1>8, ExpectTurns
<1>9. CASE p.state \in {"header_value_almost_done", "part_data_end"} /\ c = LF /\ next = "header_field"
  BY <1>8, <1>9, Handlers
<1>10. CASE p.state = "headers_almost_done" /\ c = LF /\ next = "part_data_start"
  BY <1>8, <1>10, Handlers
<1>11. CASE p.state = "part_data_final_hyphen" /\ c = Hyphen /\ next = "end"
  BY <1>8, <1>11, Handlers
<1>12. CASE p.state = "part_data_almost_end" /\ c = CR /\ next = "part_data_end"
  <2>1. CR # Hyphen
    BY DEF CR, Hyphen
  <2>2. s = Expect(p, c, c, next)
    BY <1>12, <2>1, Handlers DEF PartDataAlmostEnd
  <2> QED
    BY <1>8, <2>2
<1>13. CASE p.state = "part_data_almost_end" /\ c = Hyphen /\ next = "part_data_final_hyphen"
  <2>1. s = To(p, "part_data_final_hyphen", <<>>)
    BY <1>13, Handlers DEF PartDataAlmostEnd
  <2> QED
    BY <1>13, <2>1, ToTurns
<1> QED
  BY <1>1, <1>2, <1>3, <1>4, <1>5, <1>6, <1>7, <1>9, <1>10, <1>11, <1>12, <1>13 DEF Turn

\* The boundary that begins a body, and the line break after it.
LEMMA BoundaryTurns ==
    ASSUME NEW p \in Parser, p.state = "start_boundary", NEW c \in Bytes, NEW last, NEW s,
           s = Consume(p, c, last)
    PROVE  /\ p.index < Len(Boundary) /\ c = Boundary[p.index + 1] =>
                 Goes(s) /\ s.parser.state = "start_boundary" /\ s.parser.index = p.index + 1
           /\ p.index = Len(Boundary) /\ c = CR =>
                 Goes(s) /\ s.parser.state = "start_boundary" /\ s.parser.index = p.index + 1
           /\ p.index = Len(Boundary) + 1 /\ c = LF =>
                 Goes(s) /\ s.parser.state = "header_field"
<1>1. s = StartBoundary(p, c)
  BY Handlers
<1>2. Boundary \in Seq(Bytes) /\ Len(Boundary) \in Nat /\ p.index \in Nat
  BY BytesTyped DEF Parser
<1>3. CASE p.index < Len(Boundary) /\ c = Boundary[p.index + 1]
  <2>1. p.index # Len(Boundary) + 1 /\ Append(Boundary, CR)[p.index + 1] = c /\ p.index # Len(Boundary)
    BY <1>2, <1>3
  <2> QED
    BY <1>1, <1>3, <2>1 DEF StartBoundary, Goes, Parser
<1>4. CASE p.index = Len(Boundary) /\ c = CR
  <2>1. /\ p.index # Len(Boundary) + 1 /\ ~(p.index < Len(Boundary))
        /\ Append(Boundary, CR)[p.index + 1] = c
    BY <1>2, <1>4
  <2> QED
    <3>1. s = [parser |-> [p EXCEPT !.index = @ + 1], calls |-> <<>>, ok |-> TRUE]
      BY <1>1, <2>1 DEF StartBoundary
    <3>2. Goes(s) /\ s.parser.state = "start_boundary" /\ s.parser.index = p.index + 1
      BY <3>1 DEF Goes, Parser
    <3> QED
      BY <1>4, <2>1, <3>2
<1>5. CASE p.index = Len(Boundary) + 1 /\ c = LF
  <2>1. s = Expect(p, c, c, "header_field")
    BY <1>1, <1>5 DEF StartBoundary
  <2> QED
    BY <1>2, <1>5, <2>1, ExpectTurns
<1> QED
  BY <1>3, <1>4, <1>5

\* Where the value of a header comes from: the slice so far, with the byte or without.
ValueTurns(p, c, s) ==
    /\ s.parser.state = "header_value" =>
          /\ p.state \in {"header_value", "header_value_start"}
          /\ s.parser.chunk \in {<<>>, Append(p.chunk, c)}
    /\ \A i \in DOMAIN s.calls : s.calls[i].on = "header_value" =>
          /\ p.state \in {"header_value", "header_value_start"}
          /\ s.calls[i].data \in {p.chunk, Append(p.chunk, c)}

LEMMA InValueTurns ==
    ASSUME NEW p \in Parser, p.state = "header_value", NEW c \in Bytes, NEW last
    PROVE  ValueTurns(p, c, HeaderValue(p, c, last))
<1> DEFINE more == Append(p.chunk, c)
           calls == AtEnd(p, c, last, "header_value")
<1>1. p.chunk \in Seq(Bytes) /\ more \in Seq(Bytes) /\ "header_value" \in Callbacks
  BY ChunkTyped DEF Callbacks
<1>2. calls \in Seq(Calls) /\ Len(calls) \in {0, 1} /\ \A i \in DOMAIN calls : calls[i].data = more
  <2>1. Call("header_value", more) \in Calls /\ Call("header_value", more).data = more
    <3> HIDE DEF more
    <3> QED
      BY <1>1, CallTyped
  <2> DEFINE call == Call("header_value", more)
  <2>2. calls = <<>> \/ calls = <<call>>
    BY DEF AtEnd
  <2> HIDE DEF calls, more, call
  <2>3. call \in Calls /\ call.data = more
    BY <2>1 DEF call
  <2>4. CASE calls = <<>>
    BY <2>4
  <2>5. CASE calls = <<call>>
    <3>1. /\ <<call>> \in Seq(Calls) /\ Len(<<call>>) = 1
          /\ \A i \in DOMAIN <<call>> : <<call>>[i] = call
      BY <2>3, OneCall
    <3> QED
      BY <2>3, <2>5, <3>1
  <2> QED
    BY <2>2, <2>4, <2>5
<1>3. CASE c = CR
  <2> DEFINE call == Call("header_value", p.chunk)
             all == <<call>> \o calls
  <2>1. call \in Calls /\ call.data = p.chunk
    BY <1>1, CallTyped
  <2>2. HeaderValue(p, c, last) = To(p, "header_value_almost_done", all)
    BY <1>3 DEF HeaderValue
  <2> HIDE DEF call, calls, more
  <2>3. \A i \in DOMAIN all : all[i].data \in {p.chunk, more}
    BY <1>2, <2>1, TwoCalls
  <2> HIDE DEF all
  <2>4. /\ HeaderValue(p, c, last).calls = all
        /\ HeaderValue(p, c, last).parser.state = "header_value_almost_done"
    BY <2>2 DEF To
  <2> QED
    BY <2>3, <2>4 DEF ValueTurns, more
<1>4. CASE c # CR
  <2>1. HeaderValue(p, c, last) = Stay(p, c, last, calls)
    BY <1>4 DEF HeaderValue
  <2> HIDE DEF calls
  <2>2. /\ HeaderValue(p, c, last).calls = calls
        /\ HeaderValue(p, c, last).parser.chunk = IF last THEN <<>> ELSE more
    BY <2>1 DEF Stay, Parser
  <2> HIDE DEF more
  <2>3. HeaderValue(p, c, last).parser.chunk \in {<<>>, more}
    BY <2>2
  <2> QED
    BY <1>2, <2>2, <2>3 DEF ValueTurns, more
<1> QED
  BY <1>3, <1>4

\* Nothing else makes a value of a header.
LEMMA NoValueTurns ==
    ASSUME NEW p, NEW c, NEW s, s.parser.state # "header_value",
           \A i \in DOMAIN s.calls : s.calls[i].on # "header_value"
    PROVE  ValueTurns(p, c, s)
BY DEF ValueTurns

LEMMA ToNoValue ==
    ASSUME NEW p, NEW c, NEW state, state # "header_value"
    PROVE  ValueTurns(p, c, To(p, state, <<>>))
BY NoValueTurns DEF To

LEMMA FailNoValue ==
    ASSUME NEW p \in Parser, p.state # "header_value", NEW c
    PROVE  ValueTurns(p, c, Fail(p))
BY NoValueTurns DEF Fail

LEMMA ExpectNoValue ==
    ASSUME NEW p \in Parser, p.state # "header_value", NEW c, NEW wanted, NEW state, state # "header_value"
    PROVE  ValueTurns(p, c, Expect(p, c, wanted, state))
BY ToNoValue, FailNoValue DEF Expect

LEMMA FieldNoValue ==
    ASSUME NEW p \in Parser, p.state = "header_field", NEW c \in Bytes, NEW last
    PROVE  ValueTurns(p, c, HeaderField(p, c, last))
<1> DEFINE s == HeaderField(p, c, last)
           more == AtEnd(p, c, last, "header_field")
<1>1. /\ more \in Seq(Calls) /\ \A i \in DOMAIN more : more[i].on = "header_field"
  <2>1. "header_field" \in Callbacks
    BY DEF Callbacks
  <2> QED
    BY <2>1, AtEndCalls
<1>2. CASE c = CR
  <2>1. s = To(p, "headers_almost_done", <<>>)
    BY <1>2, HeaderFieldCases
  <2> QED
    BY <2>1, ToNoValue
<1>3. ASSUME NEW calls, s = Stay(p, c, last, calls), \A i \in DOMAIN calls : calls[i].on = "header_field"
      PROVE  ValueTurns(p, c, s)
  <2>1. s.calls = calls /\ s.parser.state = p.state
    BY <1>3 DEF Stay, Parser
  <2> HIDE DEF s
  <2> QED
    BY <1>3, <2>1, NoValueTurns
<1>4. CASE c = Hyphen
  <2>1. s = Stay(p, c, last, <<>>)
    BY <1>4, HeaderFieldCases
  <2> HIDE DEF s
  <2>2. ValueTurns(p, c, s)
    BY <1>3, <2>1
  <2> QED
    BY <2>2 DEF s
<1>5. CASE c \in Letters
  <2>1. s = Stay(p, c, last, more)
    BY <1>5, HeaderFieldCases
  <2> HIDE DEF s, more
  <2>2. ValueTurns(p, c, s)
    BY <1>1, <1>3, <2>1
  <2> QED
    BY <2>2 DEF s
<1>6. CASE c = Colon
  <2> DEFINE call == Call("header_field", p.chunk)
             one == <<call>>
  <2>1. s = To(p, "header_value_start", one)
    BY <1>6, HeaderFieldCases
  <2>2. call \in Calls /\ call.on = "header_field"
    BY ChunkTyped, CallTyped DEF Callbacks
  <2> HIDE DEF call
  <2>3. \A i \in DOMAIN one : one[i].on = "header_field"
    BY <2>2, OneCall
  <2> HIDE DEF one
  <2>4. s.calls = one /\ s.parser.state = "header_value_start"
    BY <2>1 DEF To
  <2> HIDE DEF s
  <2>5. ValueTurns(p, c, s)
    BY <2>3, <2>4, NoValueTurns
  <2> QED
    BY <2>5 DEF s
<1>7. CASE c \notin {CR, Hyphen, Colon} \cup Letters
  <2>1. s = Fail(p)
    BY <1>7, HeaderFieldCases
  <2> QED
    BY <2>1, FailNoValue
<1> QED
  BY <1>2, <1>4, <1>5, <1>6, <1>7

LEMMA GoesOnNoValue ==
    ASSUME NEW p, NEW c, NEW s, NEW held, NEW passed, DataGoesOn(p, s, held, passed)
    PROVE  ValueTurns(p, c, s)
<1>1. s.parser.state \in DataStates /\ CallsGo(p.state, s.parser.state, s.calls)
  BY DEF DataGoesOn
<1>2. s.parser.state # "header_value"
  BY <1>1 DEF DataStates
<1>3. \A i \in DOMAIN s.calls : s.calls[i].on # "header_value"
  BY <1>1 DEF CallsGo
<1> QED
  BY <1>2, <1>3, NoValueTurns

LEMMA EndsNoValue ==
    ASSUME NEW p, NEW c, NEW s, PartEnds(s)
    PROVE  ValueTurns(p, c, s)
<1> DEFINE call == Call("part_data_end", <<>>)
           one == <<call>>
<1>1. call \in Calls /\ call.on = "part_data_end"
  BY DEF Call, Calls, Callbacks
<1>2. s.parser.state # "header_value" /\ s.calls = one
  BY DEF PartEnds
<1> HIDE DEF call
<1>3. \A i \in DOMAIN one : one[i].on # "header_value"
  BY <1>1, OneCall
<1> HIDE DEF one
<1>4. \A i \in DOMAIN s.calls : s.calls[i].on # "header_value"
  BY <1>2, <1>3
<1> QED
  BY <1>2, <1>4, NoValueTurns

LEMMA ValueStep ==
    ASSUME NEW p \in Parser, NEW c \in Bytes, NEW last
    PROVE  ValueTurns(p, c, Consume(p, c, last))
<1>1. CASE p.state = "start_boundary"
  <2>1. Consume(p, c, last) = StartBoundary(p, c)
    BY <1>1, Handlers
  <2>2. CASE p.index = Len(Boundary) + 1
    BY <1>1, <2>1, <2>2, ExpectNoValue DEF StartBoundary
  <2>3. CASE p.index # Len(Boundary) + 1 /\ c = Append(Boundary, CR)[p.index + 1]
    <3>1. Consume(p, c, last).parser.state # "header_value" /\ Consume(p, c, last).calls = <<>>
      BY <1>1, <2>1, <2>3 DEF StartBoundary, Parser
    <3> QED
      BY <3>1, NoValueTurns
  <2>4. CASE p.index # Len(Boundary) + 1 /\ c # Append(Boundary, CR)[p.index + 1]
    BY <1>1, <2>1, <2>4, FailNoValue DEF StartBoundary
  <2> QED
    BY <2>2, <2>3, <2>4
<1>2. CASE p.state = "header_field"
  BY <1>2, Handlers, FieldNoValue
<1>3. CASE p.state = "header_value"
  BY <1>3, Handlers, InValueTurns
<1>4. CASE p.state = "header_value_start"
  <2>1. Consume(p, c, last) = HeaderValueStart(p, c, last)
    BY <1>4, Handlers
  <2>2. CASE c = Space
    <3>1. Consume(p, c, last) = To(p, "header_value_start", <<>>)
      BY <2>1, <2>2 DEF HeaderValueStart
    <3> QED
      BY <3>1, ToNoValue
  <2>3. CASE c # Space
    <3> DEFINE q == [p EXCEPT !.state = "header_value"]
    <3>1. q \in Parser /\ q.state = "header_value" /\ q.chunk = p.chunk
      BY <1>4 DEF Parser, States, HeaderStates, MarkStates
    <3>2. Consume(p, c, last) = HeaderValue(q, c, last)
      BY <2>1, <2>3 DEF HeaderValueStart
    <3> HIDE DEF q
    <3>3. ValueTurns(q, c, HeaderValue(q, c, last))
      BY <3>1, InValueTurns
    <3> QED
      BY <1>4, <3>1, <3>2, <3>3 DEF ValueTurns
  <2> QED
    BY <2>2, <2>3
<1>5. CASE p.state \in {"header_value_almost_done", "part_data_end", "headers_almost_done", "part_data_final_hyphen"}
  BY <1>5, Handlers, ExpectNoValue
<1>6. CASE p.state = "part_data_start"
  <2> DEFINE next == IF c = CR THEN 1 ELSE 0
  <2>1. DataGoesOn(p, Consume(p, c, last), next, <<c>>)
    BY <1>6, PartBegins
  <2> HIDE DEF next
  <2> QED
    BY <2>1, GoesOnNoValue
<1>7. CASE p.state \in DataStates
  <2> DEFINE s == Consume(p, c, last)
             held == Held(p) + 1
             next == IF c = CR THEN 1 ELSE 0
             passed == Append(Passed(<<>>, p), c)
  <2>1. DataTurns(p, c, s)
    BY <1>7, DataStep
  <2>2. \/ DataGoesOn(p, s, held, passed)
        \/ DataGoesOn(p, s, next, passed)
        \/ PartEnds(s)
    BY <2>1 DEF DataTurns
  <2> HIDE DEF s, held, next, passed
  <2>3. ValueTurns(p, c, s)
    BY <2>2, GoesOnNoValue, EndsNoValue
  <2> QED
    BY <2>3 DEF s
<1>8. CASE p.state = "part_data_almost_end"
  <2>1. CASE c = Hyphen
    BY <1>8, <2>1, Handlers, ToNoValue DEF PartDataAlmostEnd
  <2>2. CASE c # Hyphen
    BY <1>8, <2>2, Handlers, ExpectNoValue DEF PartDataAlmostEnd
  <2> QED
    BY <2>1, <2>2
<1>9. CASE p.state = "end"
  BY <1>9, Handlers, ToNoValue
<1> QED
  BY <1>1, <1>2, <1>3, <1>4, <1>5, <1>6, <1>7, <1>8, <1>9, ChunkTyped
     DEF States, HeaderStates, SilentStates, DataStates

=============================================================================
