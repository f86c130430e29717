---------------------------- MODULE Upload_proofs ----------------------------
(***************************************************************************)
(* What luci-upload keeps, for any form that ends with the file, any file  *)
(* without a delimiter, any boundary and any reads.                        *)
(***************************************************************************)
EXTENDS Upload, Multipart_proofs

-----------------------------------------------------------------------------
(* The form *)

HeaderLength(part) == IF part = "filedata" THEN 21 ELSE 13

\* The parser before each byte of a header, and after its last one.
HeaderState(part, k) ==
    CASE k \in 3 .. 6 -> "header_field"
      [] k \in 7 .. 8 -> "header_value_start"
      [] k \in 9 .. 10 -> "header_value"
      [] k = 11 -> "header_value_almost_done"
      [] part = "filedata" /\ k \in 12 .. 15 -> "header_field"
      [] part = "filedata" /\ k \in 16 .. 17 -> "header_value_start"
      [] part = "filedata" /\ k = 18 -> "header_value"
      [] part = "filedata" /\ k = 19 -> "header_value_almost_done"
      [] k = HeaderLength(part) - 1 -> "header_field"
      [] k = HeaderLength(part)     -> "headers_almost_done"
      [] k = HeaderLength(part) + 1 -> "part_data_start"

LEMMA Words ==
    /\ CR \in Bytes /\ LF \in Bytes /\ Hyphen \in Bytes /\ Colon \in Bytes /\ Space \in Bytes
    /\ {"Content", "Disposition", "Type"} \subseteq Letters /\ Letters \subseteq Bytes
    /\ {"form-data", "octets"} \cup Parts \subseteq Bytes
    /\ ({"form-data", "octets"} \cup Parts) \cap {CR, LF, Space} = {}
BY BytesAssumption, WordsAssumption DEF Parts, CR, LF, Space

LEMMA PlainHeader ==
    ASSUME NEW part \in Parts, part # "filedata"
    PROVE  /\ HeaderBytes(part) \in Seq(Bytes) /\ Len(HeaderBytes(part)) = 13
           /\ HeaderBytes(part)[1] = CR /\ HeaderBytes(part)[2] = LF
           /\ HeaderBytes(part)[3] = "Content" /\ HeaderBytes(part)[4] = Hyphen
           /\ HeaderBytes(part)[5] = "Disposition" /\ HeaderBytes(part)[6] = Colon
           /\ HeaderBytes(part)[7] = Space /\ HeaderBytes(part)[8] = "form-data"
           /\ HeaderBytes(part)[9] = part /\ HeaderBytes(part)[10] = CR
           /\ HeaderBytes(part)[11] = LF /\ HeaderBytes(part)[12] = CR /\ HeaderBytes(part)[13] = LF
BY Words DEF HeaderBytes, Header, Disposition, Named

LEMMA FileHeader ==
    LET bytes == HeaderBytes("filedata")
    IN  /\ bytes \in Seq(Bytes) /\ Len(bytes) = 21
        /\ bytes[1] = CR /\ bytes[2] = LF
        /\ bytes[3] = "Content" /\ bytes[4] = Hyphen /\ bytes[5] = "Disposition"
        /\ bytes[6] = Colon /\ bytes[7] = Space /\ bytes[8] = "form-data"
        /\ bytes[9] = "filedata" /\ bytes[10] = CR /\ bytes[11] = LF
        /\ bytes[12] = "Content" /\ bytes[13] = Hyphen /\ bytes[14] = "Type"
        /\ bytes[15] = Colon /\ bytes[16] = Space /\ bytes[17] = "octets"
        /\ bytes[18] = CR /\ bytes[19] = LF /\ bytes[20] = CR /\ bytes[21] = LF
BY Words DEF HeaderBytes, Header, Disposition, Named, Parts

LEMMA HeaderBytesTyped ==
    ASSUME NEW part \in Parts
    PROVE  /\ HeaderBytes(part) \in Seq(Bytes) /\ Len(HeaderBytes(part)) = HeaderLength(part)
           /\ HeaderLength(part) \in {13, 21}
           /\ HeaderBytes(part)[1] = CR /\ HeaderBytes(part)[2] = LF
<1>1. CASE part # "filedata"
  BY <1>1, PlainHeader DEF HeaderLength
<1>2. CASE part = "filedata"
  <2>1. HeaderLength(part) = 21 /\ HeaderBytes(part) = HeaderBytes("filedata")
    BY <1>2 DEF HeaderLength
  <2> QED
    BY <2>1, FileHeader
<1> QED
  BY <1>1, <1>2

LEMMA PlainStates ==
    ASSUME NEW part \in Parts, part # "filedata"
    PROVE  /\ \A k \in {3, 4, 5, 6, 12} : HeaderState(part, k) = "header_field"
           /\ \A k \in {7, 8} : HeaderState(part, k) = "header_value_start"
           /\ \A k \in {9, 10} : HeaderState(part, k) = "header_value"
           /\ HeaderState(part, 11) = "header_value_almost_done"
           /\ HeaderState(part, 13) = "headers_almost_done"
           /\ HeaderState(part, 14) = "part_data_start"
BY DEF HeaderState, HeaderLength

LEMMA FileStates ==
    /\ \A k \in {3, 4, 5, 6, 12, 13, 14, 15, 20} : HeaderState("filedata", k) = "header_field"
    /\ \A k \in {7, 8, 16, 17} : HeaderState("filedata", k) = "header_value_start"
    /\ \A k \in {9, 10, 18} : HeaderState("filedata", k) = "header_value"
    /\ \A k \in {11, 19} : HeaderState("filedata", k) = "header_value_almost_done"
    /\ HeaderState("filedata", 21) = "headers_almost_done"
    /\ HeaderState("filedata", 22) = "part_data_start"
BY DEF HeaderState, HeaderLength

LEMMA NameTurns ==
    ASSUME NEW c \in Letters \cup {Hyphen} PROVE Turn("header_field", c, "header_field")
BY DEF Turn

LEMMA ValueWordTurns ==
    ASSUME NEW c, c \notin {CR, Space}
    PROVE  Turn("header_value_start", c, "header_value") /\ Turn("header_value", c, "header_value")
BY DEF Turn

LEMMA WordTurns ==
    /\ Turn("header_field", Colon, "header_value_start")
    /\ Turn("header_field", CR, "headers_almost_done")
    /\ Turn("header_value_start", Space, "header_value_start")
    /\ Turn("header_value", CR, "header_value_almost_done")
    /\ Turn("header_value_almost_done", LF, "header_field")
    /\ Turn("headers_almost_done", LF, "part_data_start")
BY DEF Turn

\* Each byte of a header turns the parser into the state that the next one finds.
LEMMA HeaderTurns ==
    ASSUME NEW part \in Parts, NEW k \in 3 .. HeaderLength(part)
    PROVE  Turn(HeaderState(part, k), HeaderBytes(part)[k], HeaderState(part, k + 1))
<1>0. /\ {"Content", "Disposition", Hyphen} \subseteq Letters \cup {Hyphen}
      /\ "form-data" \notin {CR, Space}
  BY Words
<1>1. CASE part # "filedata"
  <2>0. k \in 3 .. 13
    BY <1>1 DEF HeaderLength
  <2>1. CASE k \in {3, 4, 5}
    <3>1. HeaderState(part, k) = "header_field" /\ HeaderState(part, k + 1) = "header_field"
      BY <1>1, <2>1, PlainStates
    <3>2. HeaderBytes(part)[k] \in Letters \cup {Hyphen}
      <4>1. HeaderBytes(part)[k] \in {"Content", "Disposition", Hyphen}
        <5>1. /\ HeaderBytes(part)[3] = "Content" /\ HeaderBytes(part)[4] = Hyphen
              /\ HeaderBytes(part)[5] = "Disposition"
          BY <1>1, PlainHeader
        <5> QED
          BY <2>1, <5>1
      <4> QED
        BY <1>0, <4>1
    <3>3. Turn("header_field", HeaderBytes(part)[k], "header_field")
      BY <3>2, NameTurns
    <3> QED
      BY <3>1, <3>3
  <2>2. CASE k \in {6}
    <3>1. HeaderState(part, k) = "header_field" /\ HeaderState(part, k + 1) = "header_value_start"
      BY <1>1, <2>2, PlainStates
    <3>2. HeaderBytes(part)[k] = Colon
      BY <1>1, <2>2, PlainHeader
    <3> QED
      BY <3>1, <3>2, WordTurns
  <2>3. CASE k \in {7}
    <3>1. HeaderState(part, k) = "header_value_start" /\ HeaderState(part, k + 1) = "header_value_start"
      BY <1>1, <2>3, PlainStates
    <3>2. HeaderBytes(part)[k] = Space
      BY <1>1, <2>3, PlainHeader
    <3> QED
      BY <3>1, <3>2, WordTurns
  <2>4. CASE k \in {8}
    <3>1. HeaderState(part, k) = "header_value_start" /\ HeaderState(part, k + 1) = "header_value"
      BY <1>1, <2>4, PlainStates
    <3>2. HeaderBytes(part)[k] \notin {CR, Space}
      BY <1>0, <1>1, <2>4, PlainHeader
    <3>3. Turn("header_value_start", HeaderBytes(part)[k], "header_value")
      BY <3>2, ValueWordTurns
    <3> QED
      BY <3>1, <3>3
  <2>5. CASE k \in {9}
    <3>1. HeaderState(part, k) = "header_value" /\ HeaderState(part, k + 1) = "header_value"
      BY <1>1, <2>5, PlainStates
    <3>2. HeaderBytes(part)[k] \notin {CR, Space}
      BY <1>1, <2>5, PlainHeader, Words
    <3>3. Turn("header_value", HeaderBytes(part)[k], "header_value")
      BY <3>2, ValueWordTurns
    <3> QED
      BY <3>1, <3>3
  <2>6. CASE k \in {10}
    <3>1. HeaderState(part, k) = "header_value" /\ HeaderState(part, k + 1) = "header_value_almost_done"
      BY <1>1, <2>6, PlainStates
    <3>2. HeaderBytes(part)[k] = CR
      BY <1>1, <2>6, PlainHeader
    <3> QED
      BY <3>1, <3>2, WordTurns
  <2>7. CASE k \in {11}
    <3>1. HeaderState(part, k) = "header_value_almost_done" /\ HeaderState(part, k + 1) = "header_field"
      BY <1>1, <2>7, PlainStates
    <3>2. HeaderBytes(part)[k] = LF
      BY <1>1, <2>7, PlainHeader
    <3> QED
      BY <3>1, <3>2, WordTurns
  <2>8. CASE k \in {12}
    <3>1. HeaderState(part, k) = "header_field" /\ HeaderState(part, k + 1) = "headers_almost_done"
      BY <1>1, <2>8, PlainStates
    <3>2. HeaderBytes(part)[k] = CR
      BY <1>1, <2>8, PlainHeader
    <3> QED
      BY <3>1, <3>2, WordTurns
  <2>9. CASE k \in {13}
    <3>1. HeaderState(part, k) = "headers_almost_done" /\ HeaderState(part, k + 1) = "part_data_start"
      BY <1>1, <2>9, PlainStates
    <3>2. HeaderBytes(part)[k] = LF
      BY <1>1, <2>9, PlainHeader
    <3> QED
      BY <3>1, <3>2, WordTurns
  <2> QED
    BY <2>0, <2>1, <2>2, <2>3, <2>4, <2>5, <2>6, <2>7, <2>8, <2>9
<1>2. CASE part = "filedata"
  <2>0. k \in 3 .. 21
    BY <1>2 DEF HeaderLength
  <2>1. CASE k \in {3, 4, 5, 12, 13, 14}
    <3>1. HeaderState(part, k) = "header_field" /\ HeaderState(part, k + 1) = "header_field"
      BY <1>2, <2>1, FileStates
    <3>2. HeaderBytes(part)[k] \in Letters \cup {Hyphen}
      <4>1. \A j \in {3, 5, 12, 14} : HeaderBytes("filedata")[j] \in Letters
        BY FileHeader, Words
      <4>2. \A j \in {4, 13} : HeaderBytes("filedata")[j] = Hyphen
        BY FileHeader
      <4> QED
        BY <1>2, <2>1, <4>1, <4>2
    <3>3. Turn("header_field", HeaderBytes(part)[k], "header_field")
      BY <3>2, NameTurns
    <3> QED
      BY <3>1, <3>3
  <2>2. CASE k \in {6, 15}
    <3>1. HeaderState(part, k) = "header_field" /\ HeaderState(part, k + 1) = "header_value_start"
      BY <1>2, <2>2, FileStates
    <3>2. HeaderBytes(part)[k] = Colon
      BY <1>2, <2>2, FileHeader
    <3> QED
      BY <3>1, <3>2, WordTurns
  <2>3. CASE k \in {7, 16}
    <3>1. HeaderState(part, k) = "header_value_start" /\ HeaderState(part, k + 1) = "header_value_start"
      <4>1. k \in {7, 8, 16, 17} /\ k + 1 \in {7, 8, 16, 17}
        BY <2>3
      <4> QED
        BY <1>2, <4>1, FileStates
    <3>2. HeaderBytes(part)[k] = Space
      BY <1>2, <2>3, FileHeader
    <3> QED
      BY <3>1, <3>2, WordTurns
  <2>4. CASE k \in {8, 17}
    <3>1. HeaderState(part, k) = "header_value_start" /\ HeaderState(part, k + 1) = "header_value"
      BY <1>2, <2>4, FileStates
    <3>2. HeaderBytes(part)[k] \notin {CR, Space}
      <4>1. HeaderBytes(part)[k] \in {"form-data", "octets"}
        BY <1>2, <2>4, FileHeader
      <4> QED
        BY <4>1, Words
    <3>3. Turn("header_value_start", HeaderBytes(part)[k], "header_value")
      BY <3>2, ValueWordTurns
    <3> QED
      BY <3>1, <3>3
  <2>5. CASE k \in {9}
    <3>1. HeaderState(part, k) = "header_value" /\ HeaderState(part, k + 1) = "header_value"
      BY <1>2, <2>5, FileStates
    <3>2. HeaderBytes(part)[k] \notin {CR, Space}
      BY <1>2, <2>5, FileHeader, Words
    <3>3. Turn("header_value", HeaderBytes(part)[k], "header_value")
      BY <3>2, ValueWordTurns
    <3> QED
      BY <3>1, <3>3
  <2>6. CASE k \in {10, 18}
    <3>1. HeaderState(part, k) = "header_value" /\ HeaderState(part, k + 1) = "header_value_almost_done"
      BY <1>2, <2>6, FileStates
    <3>2. HeaderBytes(part)[k] = CR
      BY <1>2, <2>6, FileHeader
    <3> QED
      BY <3>1, <3>2, WordTurns
  <2>7. CASE k \in {11, 19}
    <3>1. HeaderState(part, k) = "header_value_almost_done" /\ HeaderState(part, k + 1) = "header_field"
      BY <1>2, <2>7, FileStates
    <3>2. HeaderBytes(part)[k] = LF
      BY <1>2, <2>7, FileHeader
    <3> QED
      BY <3>1, <3>2, WordTurns
  <2>8. CASE k \in {20}
    <3>1. HeaderState(part, k) = "header_field" /\ HeaderState(part, k + 1) = "headers_almost_done"
      BY <1>2, <2>8, FileStates
    <3>2. HeaderBytes(part)[k] = CR
      BY <1>2, <2>8, FileHeader
    <3> QED
      BY <3>1, <3>2, WordTurns
  <2>9. CASE k \in {21}
    <3>1. HeaderState(part, k) = "headers_almost_done" /\ HeaderState(part, k + 1) = "part_data_start"
      BY <1>2, <2>9, FileStates
    <3>2. HeaderBytes(part)[k] = LF
      BY <1>2, <2>9, FileHeader
    <3> QED
      BY <3>1, <3>2, WordTurns
  <2> QED
    BY <2>0, <2>1, <2>2, <2>3, <2>4, <2>5, <2>6, <2>7, <2>8, <2>9
<1> QED
  BY <1>1, <1>2

Sent == form \in Forms /\ body \in Bodies

Stream(part) == Content(part) \o Delimiter

NoDelimiter(s) ==
    \A i \in 0 .. Len(s) - Len(Delimiter) : \E j \in DOMAIN Delimiter : s[i + j] # Delimiter[j]

LEMMA ContentTyped ==
    ASSUME Sent, NEW part \in Parts
    PROVE  Content(part) \in Seq(Bytes) /\ NoDelimiter(Content(part))
<1>1. \/ part = "filedata" /\ Content(part) = body
      \/ Content(part) \in {SessionId, FileName, FileMode}
  BY DEF Content, Parts
<1>2. CASE part = "filedata" /\ Content(part) = body
  BY <1>2, BodiesAssumption DEF Sent, NoDelimiter
<1>3. CASE Content(part) \in {SessionId, FileName, FileMode}
  <2> DEFINE s == Content(part)
             n == Len(Delimiter)
  <2>1. s \in Seq(Bytes)
    BY <1>3, WordsAssumption
  <2>2. \A i \in 1 .. Len(s) : s[i] # CR
    BY <1>3 DEF SessionId, FileName, FileMode, CR
  <2>3. n \in Nat /\ n > 0 /\ 1 \in DOMAIN Delimiter /\ Delimiter[1] = CR
    BY DelimiterBytes, BytesTyped
  <2> HIDE DEF s, n
  <2>4. \A i \in 0 .. Len(s) - n : s[i + 1] # Delimiter[1]
    BY <2>1, <2>2, <2>3
  <2>5. \A i \in 0 .. Len(s) - n : \E j \in DOMAIN Delimiter : s[i + j] # Delimiter[j]
    BY <2>3, <2>4
  <2> QED
    BY <2>1, <2>5 DEF NoDelimiter, s, n
<1> QED
  BY <1>1, <1>2, <1>3

LEMMA StreamTyped ==
    ASSUME Sent, NEW part \in Parts
    PROVE  /\ Stream(part) \in Seq(Bytes)
           /\ Len(Stream(part)) = Len(Content(part)) + Len(Delimiter)
           /\ \A i \in 1 .. Len(Content(part)) : Stream(part)[i] = Content(part)[i]
           /\ \A j \in 1 .. Len(Delimiter) : Stream(part)[Len(Content(part)) + j] = Delimiter[j]
<1> DEFINE content == Content(part)
<1>1. content \in Seq(Bytes) /\ Delimiter \in Seq(Bytes)
  BY ContentTyped, DelimiterBytes
<1>2. Stream(part) = content \o Delimiter
  BY DEF Stream
<1> HIDE DEF content
<1> QED
  BY <1>1, <1>2 DEF content

LEMMA FormPartTyped ==
    ASSUME Sent, NEW part \in Parts
    PROVE  /\ FormPart(part) \in Seq(Bytes)
           /\ Len(FormPart(part)) = HeaderLength(part) + Len(Stream(part))
           /\ \A k \in 1 .. HeaderLength(part) : FormPart(part)[k] = HeaderBytes(part)[k]
           /\ \A i \in 1 .. Len(Stream(part)) : FormPart(part)[HeaderLength(part) + i] = Stream(part)[i]
<1> DEFINE header == HeaderBytes(part)
           stream == Stream(part)
           n == HeaderLength(part)
<1>1. header \in Seq(Bytes) /\ Len(header) = n /\ stream \in Seq(Bytes)
  BY HeaderBytesTyped, StreamTyped
<1>2. FormPart(part) = header \o stream
  BY DEF FormPart, Stream
<1> HIDE DEF header, stream, n
<1>3. n \in Nat
  BY <1>1
<1>4. /\ header \o stream \in Seq(Bytes) /\ Len(header \o stream) = Len(header) + Len(stream)
      /\ \A k \in 1 .. Len(header) : (header \o stream)[k] = header[k]
      /\ \A i \in 1 .. Len(stream) : (header \o stream)[Len(header) + i] = stream[i]
  BY <1>1
<1>5. /\ FormPart(part) \in Seq(Bytes) /\ Len(FormPart(part)) = n + Len(stream)
      /\ \A k \in 1 .. n : FormPart(part)[k] = header[k]
      /\ \A i \in 1 .. Len(stream) : FormPart(part)[n + i] = stream[i]
  BY <1>1, <1>2, <1>4
<1> QED
  BY <1>5 DEF header, stream, n

LEMMA FormTyped ==
    ASSUME Sent
    PROVE  /\ form \in Seq(Parts) /\ Len(form) \in 1 .. 3 /\ form[Len(form)] = "filedata"
           /\ \A n \in 1 .. Len(form) : form[n] \in Parts
           /\ Len(form) \in Nat /\ Len(form) > 0
<1>1. form \in Seq(Parts) /\ Len(form) \in 1 .. 3 /\ form[Len(form)] = "filedata"
  BY FormsAssumption DEF Sent
<1>2. \A n \in 1 .. Len(form) : form[n] \in Parts
  BY <1>1
<1> QED
  BY <1>1, <1>2

LEMMA PartBytesCases ==
    ASSUME Sent
    PROVE  /\ PartBytes(0) = Boundary
           /\ \A n \in 1 .. Len(form) : PartBytes(n) = FormPart(form[n])
           /\ PartBytes(Len(form) + 1) = <<Hyphen, Hyphen>>
<1>1. form \in Seq(Parts) /\ Len(form) \in Nat /\ DOMAIN form = 1 .. Len(form)
  BY FormTyped
<1>2. 0 \notin DOMAIN form /\ ~(0 > Len(form))
  BY <1>1
<1>3. \A n \in 1 .. Len(form) : n \in DOMAIN form /\ n # 0 /\ ~(n > Len(form))
  BY <1>1
<1>4. Len(form) + 1 \notin DOMAIN form /\ Len(form) + 1 > Len(form) /\ Len(form) + 1 # 0
  BY <1>1
<1>5. PartBytes(0) = Boundary
  BY <1>2 DEF PartBytes
<1>6. ASSUME NEW n \in 1 .. Len(form) PROVE PartBytes(n) = FormPart(form[n])
  BY <1>3 DEF PartBytes
<1>7. PartBytes(Len(form) + 1) = <<Hyphen, Hyphen>>
  <2> DEFINE n == Len(form) + 1
  <2>1. n # 0 /\ n \notin DOMAIN form /\ n > Len(form)
    BY <1>4
  <2> HIDE DEF n
  <2>2. PartBytes(n) = <<Hyphen, Hyphen>>
    BY <2>1 DEF PartBytes
  <2> QED
    BY <2>2 DEF n
<1> QED
  BY <1>5, <1>6, <1>7

-----------------------------------------------------------------------------
(* What is read and what is called, between any two steps *)

Where ==
    /\ at \in 0 .. Len(form) + 1 /\ place \in Nat /\ place # 0
    /\ at <= Len(form) => place <= Len(PartBytes(at))
    /\ at = Len(form) + 1 => place <= 3

\* The callbacks that are waiting go with the state of the parser.
CallsFit(state, waiting) ==
    /\ state \notin DataStates => \A i \in DOMAIN waiting :
          \/ waiting[i].on \in {"header_field", "header_value"}
          \/ /\ state = "part_data_almost_end" /\ i = 1 /\ Len(waiting) = 1
             /\ waiting[i].on = "part_data_end"
    /\ state \in DataStates => \A i \in DOMAIN waiting :
          waiting[i].on = "part_data" \/ (i = 1 /\ waiting[i].on = "headers_complete")

Typed ==
    /\ Sent /\ Where
    /\ parser \in Parser
    /\ calls \in Seq(Calls) /\ Len(calls) \in {0, 1, 2}
    /\ CallsFit(parser.state, calls)
    /\ running \in BOOLEAN /\ (Len(calls) # 0 => running)

LEMMA SameForm ==
    ASSUME UNCHANGED <<form, body>>
    PROVE  \A n : PartBytes(n)' = PartBytes(n)
BY DEF PartBytes, FormPart, Content

LEMMA PartBytesTyped ==
    ASSUME Sent, NEW n \in 0 .. Len(form)
    PROVE  PartBytes(n) \in Seq(Bytes) /\ Len(PartBytes(n)) > 0
<1>1. CASE n = 0
  BY <1>1, PartBytesCases, BytesTyped
<1>2. CASE n # 0
  <2>1. n \in 1 .. Len(form)
    BY <1>2, FormTyped
  <2>2. form[n] \in Parts /\ PartBytes(n) = FormPart(form[n])
    BY <2>1, FormTyped, PartBytesCases
  <2>3. FormPart(form[n]) \in Seq(Bytes) /\ Len(FormPart(form[n])) > 0
    <3>1. /\ Len(FormPart(form[n])) = HeaderLength(form[n]) + Len(Stream(form[n]))
          /\ HeaderLength(form[n]) \in {13, 21} /\ Len(Stream(form[n])) \in Nat
      BY <2>2, FormPartTyped, HeaderBytesTyped, StreamTyped
    <3> QED
      BY <2>2, <3>1, FormPartTyped
  <2> QED
    BY <2>2, <2>3
<1> QED
  BY <1>1, <1>2

LEMMA NextTyped ==
    ASSUME Sent, Where, ~AllRead
    PROVE  NextByte \in Bytes
<1>0. Len(form) \in Nat
  BY FormTyped
<1>1. CASE at <= Len(form)
  <2>1. at \in 0 .. Len(form)
    BY <1>0, <1>1 DEF Where
  <2> DEFINE bytes == PartBytes(at)
  <2>2. bytes \in Seq(Bytes) /\ place \in Nat /\ place # 0 /\ place <= Len(bytes)
    BY <1>1, <2>1, PartBytesTyped DEF Where
  <2> HIDE DEF bytes
  <2>3. bytes[place] \in Bytes
    BY <2>2
  <2> QED
    BY <2>3 DEF NextByte, bytes
<1>2. CASE at = Len(form) + 1
  <2>1. place \in {1, 2}
    BY <1>0, <1>2 DEF Where, AllRead
  <2> QED
    BY <1>2, <2>1, PartBytesCases, BytesTyped DEF NextByte
<1> QED
  BY <1>0, <1>1, <1>2 DEF Where

LEMMA WhereKept ==
    ASSUME Sent, Where, Advance, UNCHANGED <<form, body>>
    PROVE  Where'
<1> DEFINE n == Len(form)
<1>0. n \in Nat
  BY FormTyped
<1>1. \A k : PartBytes(k)' = PartBytes(k)
  BY SameForm
<1>2. CASE place < Len(PartBytes(at)) /\ place' = place + 1 /\ UNCHANGED at
  <2>1. CASE at <= n
    <3>1. PartBytes(at) \in Seq(Bytes)
      BY <1>0, <2>1, PartBytesTyped DEF Where
    <3>2. Len(PartBytes(at)) \in Nat
      BY <3>1
    <3>3. place' \in Nat /\ place' # 0 /\ place' <= Len(PartBytes(at)) /\ ~(at = n + 1)
      BY <1>0, <1>2, <2>1, <3>2 DEF Where
    <3> QED
      BY <1>0, <1>1, <1>2, <2>1, <3>3 DEF Where
  <2>2. CASE at = n + 1
    <3>1. Len(PartBytes(at)) = 2
      BY <2>2, PartBytesCases
    <3>2. place \in Nat /\ place < 2 /\ place' = place + 1
      BY <1>2, <3>1 DEF Where
    <3>3. place' \in Nat /\ place' # 0 /\ place' <= 3 /\ ~(at <= n)
      BY <1>0, <2>2, <3>2
    <3> QED
      BY <1>0, <1>2, <2>2, <3>3 DEF Where
  <2> QED
    BY <1>0, <2>1, <2>2 DEF Where
<1>3. CASE place = Len(PartBytes(at)) /\ at <= n /\ place' = 1 /\ at' = at + 1
  <2>1. at' \in 0 .. n + 1
    BY <1>0, <1>3 DEF Where
  <2>2. at' <= n => 1 <= Len(PartBytes(at'))
    <3> SUFFICES ASSUME at' <= n PROVE 1 <= Len(PartBytes(at'))
      OBVIOUS
    <3>1. at' \in 0 .. n
      BY <1>0, <2>1
    <3>2. PartBytes(at') \in Seq(Bytes) /\ Len(PartBytes(at')) > 0
      BY <3>1, PartBytesTyped
    <3> QED
      BY <3>2
  <2> QED
    BY <1>0, <1>1, <1>3, <2>1, <2>2 DEF Where
<1>4. CASE AtLastByte /\ place' = place + 1 /\ UNCHANGED at
  BY <1>0, <1>4 DEF Where, AtLastByte
<1> QED
  BY <1>2, <1>3, <1>4 DEF Advance

LEMMA GoFits ==
    ASSUME NEW before, NEW state \in States, NEW waiting, CallsGo(before, state, waiting)
    PROVE  CallsFit(state, waiting)
<1>1. CASE state \in HeaderStates
  <2>1. state \notin DataStates
    BY <1>1 DEF HeaderStates, DataStates
  <2> QED
    BY <1>1, <2>1 DEF CallsGo, CallsFit
<1>2. CASE state \in DataStates
  <2>1. \A i \in DOMAIN waiting : waiting[i].on = "part_data" \/ (i = 1 /\ waiting[i].on = "headers_complete")
    BY <1>2 DEF CallsGo
  <2> QED
    BY <1>2, <2>1 DEF CallsFit
<1>3. CASE state \in SilentStates
  BY <1>3 DEF SilentStates, DataStates, CallsGo, CallsFit
<1>4. CASE state = "part_data_almost_end"
  <2> DEFINE call == Call("part_data_end", <<>>)
  <2>1. state \notin DataStates
    BY <1>4 DEF DataStates
  <2>2. waiting = <<>> \/ waiting = <<call>>
    BY <1>4 DEF CallsGo
  <2>3. call \in Calls /\ call.on = "part_data_end"
    BY DEF Call, Calls, Callbacks
  <2> HIDE DEF call
  <2>4. CASE waiting = <<>>
    BY <2>1, <2>4 DEF CallsFit
  <2>5. CASE waiting = <<call>>
    <3>1. Len(waiting) = 1 /\ DOMAIN waiting = {1} /\ waiting[1] = call
      BY <2>3, <2>5, OneCall
    <3>2. waiting[1].on = "part_data_end"
      BY <2>3, <3>1
    <3> QED
      BY <1>4, <2>1, <3>1, <3>2 DEF CallsFit
  <2> QED
    BY <2>2, <2>4, <2>5
<1> QED
  BY <1>1, <1>2, <1>3, <1>4 DEF States

\* One of the waiting calls is made: the rest waits on, or the parser stops.
Made ==
    /\ Len(calls) # 0
    /\ \/ calls' = Tail(calls) /\ UNCHANGED <<running, response>>
       \/ calls' = <<>> /\ running' = FALSE
    /\ UNCHANGED <<input, parser, form, body, told>>

LEMMA CalledBy ==
    ASSUME NEW callback, Called(callback), calls \in Seq(Calls)
    PROVE  /\ Len(calls) # 0 /\ calls[1].on = callback /\ calls[1].data = data
           /\ UNCHANGED <<input, parser, told, form, body, cut>>
<1>1. calls # <<>> /\ Head(calls).on = callback
  BY DEF Called
<1>2. Len(calls) # 0 /\ Head(calls) = calls[1]
  BY <1>1
<1> QED
  BY <1>1, <1>2 DEF Called, data

LEMMA GoOnMakes == 
    ASSUME NEW callback, Called(callback), calls \in Seq(Calls), GoOn PROVE Made
BY CalledBy DEF Made, GoOn

LEMMA RespondMakes == 
    ASSUME NEW callback, Called(callback), calls \in Seq(Calls), NEW answer, Respond(answer) PROVE Made
BY CalledBy DEF Made, Respond

Callback ==
    \/ HeaderFieldCb \/ HeaderValueCb
    \/ DataBegin \/ SetField \/ WriteTemp
    \/ EndSession \/ EndFile \/ EndOther

LEMMA CallbackMakes == ASSUME calls \in Seq(Calls), Callback PROVE Made
<1>1. CASE HeaderFieldCb
  BY <1>1, GoOnMakes DEF HeaderFieldCb
<1>2. CASE HeaderValueCb
  BY <1>2, GoOnMakes DEF HeaderValueCb
<1>3. CASE DataBegin
  BY <1>3, GoOnMakes, RespondMakes DEF DataBegin
<1>4. CASE SetField
  BY <1>4, GoOnMakes DEF SetField
<1>5. CASE WriteTemp
  BY <1>5, GoOnMakes, RespondMakes DEF WriteTemp
<1>6. CASE EndSession
  BY <1>6, GoOnMakes, RespondMakes DEF EndSession
<1>7. CASE EndFile
  BY <1>7, RespondMakes DEF EndFile
<1>8. CASE EndOther
  BY <1>8, GoOnMakes DEF EndOther
<1> QED
  BY <1>1, <1>2, <1>3, <1>4, <1>5, <1>6, <1>7, <1>8 DEF Callback

\* What a step of the parser is.
LEMMA ParseReads ==
    ASSUME Typed, Parse
    PROVE  /\ running /\ calls = <<>> /\ ~AllRead /\ NextByte \in Bytes
           /\ \E last : /\ parser' = Consume(parser, NextByte, last).parser
                        /\ calls' = Consume(parser, NextByte, last).calls
                        /\ running' = Consume(parser, NextByte, last).ok
           /\ Advance /\ UNCHANGED <<st, files, told, form, body, granted, failed>>
BY NextTyped DEF Parse, Typed

LEMMA WhereUnchanged ==
    ASSUME Where, UNCHANGED <<input, form, body>>
    PROVE  Where'
BY SameForm DEF Where, input

LEMMA TypedInit == ASSUME Init PROVE Typed
<1>1. Sent
  BY DEF Init, Sent
<1>2. Where
  <2>1. Len(form) \in Nat /\ PartBytes(0) = Boundary
    BY <1>1, FormTyped, PartBytesCases
  <2> QED
    BY <2>1, BytesTyped DEF Init, Where
<1>3. parser \in Parser
  BY BytesTyped DEF Init, Initial, Parser, States, SilentStates, MarkStates
<1>4. calls \in Seq(Calls) /\ Len(calls) \in {0, 1, 2} /\ CallsFit(parser.state, calls)
      /\ Len(calls) = 0
  BY DEF Init, CallsFit
<1>5. running \in BOOLEAN
  BY DEF Init
<1> QED
  BY <1>1, <1>2, <1>3, <1>4, <1>5 DEF Typed

LEMMA TypedParse == ASSUME Typed, Parse PROVE Typed'
<1>1. PICK last : /\ parser' = Consume(parser, NextByte, last).parser
                  /\ calls' = Consume(parser, NextByte, last).calls
                  /\ running' = Consume(parser, NextByte, last).ok
  BY ParseReads
<1> DEFINE s == Consume(parser, NextByte, last)
<1>2. Sound(parser, s)
  BY ParseReads, ConsumeSound DEF Typed
<1>3. s.parser \in Parser /\ s.ok \in BOOLEAN /\ (Len(s.calls) # 0 => Goes(s))
      /\ CallsGo(parser.state, s.parser.state, s.calls)
  BY <1>2 DEF Sound
<1>4. s.parser = parser' /\ s.ok = running' /\ s.calls = calls'
  BY <1>1
<1> HIDE DEF s
<1>5. parser' \in Parser /\ running' \in BOOLEAN /\ (Len(calls') # 0 => running')
      /\ CallsGo(parser.state, parser'.state, calls')
  BY <1>3, <1>4 DEF Goes
<1>6. parser'.state \in States
  BY <1>5, ChunkTyped
<1>7. CallsFit(parser'.state, calls')
  BY <1>5, <1>6, GoFits
<1>8. calls' \in Seq(Calls) /\ Len(calls') \in {0, 1, 2}
  BY <1>5 DEF CallsGo
<1>9. Sent' /\ Where'
  BY ParseReads, WhereKept DEF Typed, Sent
<1> QED
  BY <1>5, <1>7, <1>8, <1>9 DEF Typed

LEMMA TailRest ==
    ASSUME NEW waiting \in Seq(Calls), Len(waiting) \in {1, 2}
    PROVE  /\ Tail(waiting) \in Seq(Calls) /\ Len(Tail(waiting)) \in {0, 1}
           /\ Len(waiting) = 1 => Len(Tail(waiting)) = 0
           /\ \A i \in DOMAIN Tail(waiting) : waiting[2] = Tail(waiting)[i] /\ i = 1 /\ Len(waiting) = 2
           /\ Len(waiting) = 2 => Len(Tail(waiting)) = 1 /\ Tail(waiting)[1] = waiting[2]
<1>1. CASE Len(waiting) = 1
  <2> DEFINE more == Tail(waiting)
  <2>1. more \in Seq(Calls) /\ Len(more) = Len(waiting) - 1
    BY <1>1
  <2> HIDE DEF more
  <2>2. Len(more) = 0 /\ DOMAIN more = {}
    BY <1>1, <2>1
  <2>3. Len(more) \in {0, 1} /\ \A i \in DOMAIN more : waiting[2] = more[i] /\ i = 1 /\ Len(waiting) = 2
    BY <2>2
  <2> QED
    BY <1>1, <2>1, <2>2, <2>3 DEF more
<1>2. CASE Len(waiting) = 2
  <2> DEFINE more == Tail(waiting)
  <2>1. waiting # <<>>
    BY <1>2
  <2>2. more \in Seq(Calls) /\ Len(more) = Len(waiting) - 1
        /\ \A i \in 1 .. Len(more) : more[i] = waiting[i + 1]
    BY <2>1, HeadTailProperties
  <2> HIDE DEF more
  <2>3. Len(more) = 1 /\ DOMAIN more = {1} /\ 1 \in 1 .. Len(more)
    BY <1>2, <2>2
  <2>4. more[1] = waiting[2]
    <3>1. more[1] = waiting[1 + 1]
      BY <2>2, <2>3
    <3> QED
      BY <3>1
  <2>5. /\ \A i \in DOMAIN more : waiting[2] = more[i] /\ i = 1 /\ Len(waiting) = 2
        /\ Len(more) \in {0, 1} /\ Len(waiting) # 1
    BY <1>2, <2>3, <2>4
  <2> QED
    BY <2>2, <2>3, <2>4, <2>5 DEF more
<1> QED
  BY <1>1, <1>2

LEMMA TailFits ==
    ASSUME NEW state, NEW waiting \in Seq(Calls), Len(waiting) \in {1, 2}, CallsFit(state, waiting)
    PROVE  /\ CallsFit(state, Tail(waiting))
           /\ Tail(waiting) \in Seq(Calls) /\ Len(Tail(waiting)) \in {0, 1}
           /\ \A i \in DOMAIN Tail(waiting) : waiting[2] = Tail(waiting)[i] /\ i = 1 /\ Len(waiting) = 2
<1>1. /\ Tail(waiting) \in Seq(Calls) /\ Len(Tail(waiting)) \in {0, 1}
      /\ \A i \in DOMAIN Tail(waiting) : waiting[2] = Tail(waiting)[i] /\ i = 1 /\ Len(waiting) = 2
  BY TailRest
<1>2. \A i \in DOMAIN Tail(waiting) : 2 \in DOMAIN waiting
  BY <1>1
<1> QED
  BY <1>1, <1>2 DEF CallsFit

LEMMA TypedMade == ASSUME Typed, Made, running' \in BOOLEAN PROVE Typed'
<1>1. Sent' /\ Where'
  BY WhereUnchanged DEF Typed, Made, Sent
<1>2. CASE calls' = <<>>
  BY <1>1, <1>2 DEF Typed, Made, CallsFit
<1>3. CASE calls' = Tail(calls) /\ UNCHANGED running
  <2>1. calls \in Seq(Calls) /\ Len(calls) \in {1, 2} /\ CallsFit(parser.state, calls) /\ running
    BY DEF Typed, Made
  <2> DEFINE more == Tail(calls)
  <2>2. CallsFit(parser.state, more) /\ more \in Seq(Calls) /\ Len(more) \in {0, 1}
    BY <2>1, TailFits
  <2> HIDE DEF more
  <2>3. calls' = more
    BY <1>3 DEF more
  <2>4. calls' \in Seq(Calls) /\ Len(calls') \in {0, 1, 2} 
    BY <2>2, <2>3
  <2>5. parser' = parser
    BY DEF Made
  <2> QED
    BY <1>1, <1>3, <2>1, <2>2, <2>3, <2>4, <2>5 DEF Typed
<1> QED
  BY <1>2, <1>3 DEF Made

LEMMA TypedKept == ASSUME Typed, [Next]_vars PROVE Typed'
<1>1. CASE Parse
  BY <1>1, TypedParse
<1>2. CASE Callback
  <2>1. Made
    BY <1>2, CallbackMakes DEF Typed
  <2>2. running' \in BOOLEAN
    BY <2>1 DEF Made, Typed
  <2> QED
    BY <2>1, <2>2, TypedMade
<1>3. CASE FinishCb \/ UNCHANGED vars
  <2>1. UNCHANGED <<input, running, parser, calls, form, body>>
    BY <1>3 DEF FinishCb, vars, ghosts
  <2>2. Where' /\ Sent'
    BY <2>1, WhereUnchanged DEF Typed, Sent
  <2> QED
    BY <2>1, <2>2 DEF Typed
<1> QED
  BY <1>1, <1>2, <1>3 DEF Next, Callback

-----------------------------------------------------------------------------
(* Within a part or outside of all of them *)

\* A part has begun, or ended, and that is still to be told.
Opening == Len(calls) # 0 /\ calls[1].on = "headers_complete"
Closing == Len(calls) # 0 /\ calls[1].on = "part_data_end"

InData == (parser.state \in DataStates /\ ~Opening) \/ Closing

LEMMA MadePhase ==
    ASSUME Typed, Made
    PROVE  /\ calls[1].on \in Callbacks /\ calls[1].data \in Seq(Bytes) /\ calls[1] \in Calls
           /\ ~Opening' /\ ~Closing'
           /\ InData' <=> parser.state \in DataStates
           /\ calls[1].on \in {"header_field", "header_value"} => ~InData /\ ~InData'
           /\ calls[1].on = "headers_complete" => ~InData /\ InData' /\ Opening
           /\ calls[1].on = "part_data" => InData /\ InData' /\ ~Opening /\ ~Closing
           /\ calls[1].on = "part_data_end" => InData /\ ~InData' /\ Closing
<1>1. calls \in Seq(Calls) /\ Len(calls) \in {1, 2} /\ CallsFit(parser.state, calls)
  BY DEF Typed, Made
<1>2. 1 \in DOMAIN calls /\ calls[1] \in Calls
  BY <1>1
<1>3. calls[1].on \in Callbacks /\ calls[1].data \in Seq(Bytes)
  BY <1>2, CallFields
<1>4. /\ parser.state \in DataStates => calls[1].on \in {"part_data", "headers_complete"}
      /\ parser.state \notin DataStates => calls[1].on \in {"header_field", "header_value", "part_data_end"}
  BY <1>1, <1>2 DEF CallsFit
<1>5. /\ ~Opening' /\ ~Closing'
  <2>1. CASE Len(calls') = 0
    BY <2>1 DEF Opening, Closing
  <2>2. CASE Len(calls') # 0
    <3>1. calls' = Tail(calls)
      BY <2>2 DEF Made
    <3> DEFINE more == Tail(calls)
    <3>2. more \in Seq(Calls) /\ \A i \in DOMAIN more : calls[2] = more[i] /\ i = 1 /\ Len(calls) = 2
      BY <1>1, TailFits
    <3> HIDE DEF more
    <3>3. calls' = more
      BY <3>1 DEF more
    <3>4. 1 \in DOMAIN more
      BY <2>2, <3>2, <3>3
    <3>5. calls'[1] = calls[2] /\ Len(calls) = 2
      BY <3>2, <3>3, <3>4
    <3>6. 2 \in DOMAIN calls
      BY <1>1, <3>5
    <3>7. calls[2].on \in {"header_field", "header_value", "part_data"}
      BY <1>1, <3>5, <3>6 DEF CallsFit
    <3> QED
      BY <3>5, <3>7 DEF Opening, Closing
  <2> QED
    BY <2>1, <2>2
<1>6. InData' <=> parser.state \in DataStates
  <2>1. parser' = parser
    BY DEF Made
  <2> QED
    BY <1>5, <2>1 DEF InData
<1>7. Len(calls) # 0
  BY DEF Made
<1> QED
  BY <1>2, <1>3, <1>4, <1>5, <1>6, <1>7 DEF InData, Opening, Closing

\* A part goes on or ends, and that is told.
LEMMA GoesOnPhase ==
    ASSUME NEW p, p.state \in DataStates, NEW s, NEW held, NEW passed, DataGoesOn(p, s, held, passed)
    PROVE  s.parser.state \in DataStates /\ (Len(s.calls) # 0 => s.calls[1].on = "part_data")
<1>1. s.parser.state \in DataStates /\ CallsGo(p.state, s.parser.state, s.calls)
  BY DEF DataGoesOn
<1>2. p.state # "part_data_start"
  BY DEF DataStates
<1>3. /\ \A i \in DOMAIN s.calls : s.calls[i].on = "part_data"
      /\ s.calls \in Seq(Calls)
  BY <1>1, <1>2 DEF CallsGo
<1>4. Len(s.calls) # 0 => 1 \in DOMAIN s.calls
  BY <1>3
<1> QED
  BY <1>1, <1>3, <1>4

LEMMA EndsPhase ==
    ASSUME NEW s, PartEnds(s)
    PROVE  Len(s.calls) # 0 /\ s.calls[1].on = "part_data_end" /\ s.parser.state = "part_data_almost_end"
<1> DEFINE call == Call("part_data_end", <<>>)
<1>1. call \in Calls /\ call.on = "part_data_end"
  BY DEF Call, Calls, Callbacks
<1>2. s.calls = <<call>> /\ s.parser.state = "part_data_almost_end"
  BY DEF PartEnds
<1> HIDE DEF call
<1>3. Len(<<call>>) = 1 /\ <<call>>[1] = call
  BY <1>1, OneCall
<1> QED
  BY <1>1, <1>2, <1>3

LEMMA ParsePhase ==
    ASSUME Typed, Parse
    PROVE  /\ InData' <=> InData
           /\ InData <=> parser.state \in DataStates
<1>1. PICK last : /\ parser' = Consume(parser, NextByte, last).parser
                  /\ calls' = Consume(parser, NextByte, last).calls
                  /\ running' = Consume(parser, NextByte, last).ok
  BY ParseReads
<1> DEFINE s == Consume(parser, NextByte, last)
<1>2. parser' = s.parser /\ calls' = s.calls
  BY <1>1
<1>3. parser \in Parser /\ NextByte \in Bytes /\ calls = <<>>
  BY ParseReads DEF Typed
<1>4. ~Opening /\ ~Closing
  BY <1>3 DEF Opening, Closing
<1>5. CASE parser.state \in DataStates
  <2> DEFINE held == Held(parser) + 1
             next == IF NextByte = CR THEN 1 ELSE 0
             passed == Append(Passed(<<>>, parser), NextByte)
  <2>1. DataTurns(parser, NextByte, s)
    BY <1>3, <1>5, DataStep
  <2>2. \/ DataGoesOn(parser, s, held, passed)
        \/ DataGoesOn(parser, s, next, passed)
        \/ PartEnds(s)
    BY <2>1 DEF DataTurns
  <2> HIDE DEF s, held, next, passed
  <2>3. \/ s.parser.state \in DataStates /\ (Len(s.calls) # 0 => s.calls[1].on = "part_data")
        \/ Len(s.calls) # 0 /\ s.calls[1].on = "part_data_end"
    BY <1>5, <2>2, GoesOnPhase, EndsPhase
  <2>4. InData'
    BY <1>2, <2>3 DEF InData, Opening, Closing
  <2> QED
    BY <1>4, <1>5, <2>4 DEF InData
<1>6. CASE parser.state = "part_data_start"
  <2> DEFINE next == IF NextByte = CR THEN 1 ELSE 0
  <2>1. Len(s.calls) # 0 /\ s.calls[1].on = "headers_complete"
    BY <1>3, <1>6, PartBegins
  <2> HIDE DEF s
  <2>2. Opening' /\ ~Closing'
    BY <1>2, <2>1 DEF Opening, Closing
  <2> QED
    BY <1>4, <1>6, <2>2 DEF InData, DataStates
<1>7. CASE parser.state \notin DataStates \cup {"part_data_start"}
  <2>1. Outside(s)
    BY <1>3, <1>7, OutsideStep
  <2>2. calls' \in Seq(Calls)
    BY TypedParse DEF Typed
  <2> HIDE DEF s
  <2>3. parser'.state \notin DataStates
        /\ \A i \in DOMAIN calls' : calls'[i].on \in {"header_field", "header_value"}
    BY <1>2, <2>1 DEF Outside
  <2>4. ~Closing'
    <3>1. Len(calls') # 0 => 1 \in DOMAIN calls'
      BY <2>2
    <3> QED
      BY <2>3, <3>1 DEF Closing
  <2> QED
    BY <1>4, <1>7, <2>3, <2>4 DEF InData
<1> QED
  BY <1>5, <1>6, <1>7

-----------------------------------------------------------------------------
(* Nothing is written before access was granted *)

\* The session id is the only field that may be set and not be asked about yet: within its part.
Granting ==
    /\ running /\ sessionid # NoText => granted \/ (InData /\ parttype = "sessionid")
    /\ temp # NoFile => granted
    /\ temp # NoFile => temp \in Seq(Bytes)
    /\ running /\ InData /\ parttype = "filedata" => temp # NoFile
    /\ file # OldFile => temp # NoFile

LEMMA GrantingKept == ASSUME Typed, Granting, [Next]_vars PROVE Granting'
<1>0. calls \in Seq(Calls)
  BY DEF Typed
<1>1. CASE Parse
  <2>1. InData' <=> InData
    BY <1>1, ParsePhase
  <2>2. running /\ UNCHANGED <<sessionid, granted, parttype, temp, file>>
    BY <1>1 DEF Parse, st, files
  <2> QED
    BY <2>1, <2>2 DEF Granting
<1>2. CASE HeaderFieldCb \/ HeaderValueCb
  <2>1. Made /\ calls[1].on \in {"header_field", "header_value"} /\ GoOn
    BY <1>0, <1>2, CalledBy, GoOnMakes DEF HeaderFieldCb, HeaderValueCb
  <2>2. ~InData /\ ~InData'
    BY <2>1, MadePhase
  <2>3. UNCHANGED <<running, sessionid, granted, temp, file>>
    BY <1>2 DEF HeaderFieldCb, HeaderValueCb, GoOn
  <2> QED
    BY <2>2, <2>3 DEF Granting
<1>3. CASE DataBegin
  <2>1. Made /\ calls[1].on = "headers_complete"
    BY <1>0, <1>3, CalledBy, CallbackMakes DEF DataBegin, Callback
  <2>2. ~InData /\ InData' /\ running
    BY <2>1, MadePhase DEF Typed, Made
  <2>3. UNCHANGED <<parttype, sessionid, filename, granted, file>>
    BY <1>3 DEF DataBegin, st
  <2>4. CASE parttype # "filedata" /\ GoOn /\ UNCHANGED temp
    BY <2>2, <2>3, <2>4 DEF Granting, GoOn
  <2>5. CASE ~running' /\ UNCHANGED temp
    BY <2>2, <2>3, <2>5 DEF Granting
  <2>6. CASE NoText \notin {sessionid, filename} /\ temp' = <<>> /\ GoOn
    <3>1. granted
      BY <2>2, <2>6 DEF Granting
    <3> <<>> \in Seq(Bytes)
      OBVIOUS
    <3>2. temp' \in Seq(Bytes) /\ temp' # NoFile
      BY <2>6, NothingAssumption
    <3> QED
      BY <2>3, <3>1, <3>2 DEF Granting
  <2> QED
    BY <1>3, <2>4, <2>5, <2>6 DEF DataBegin, Respond
<1>4. CASE SetField
  <2>1. Made /\ calls[1].on = "part_data" /\ GoOn
    BY <1>0, <1>4, CalledBy, GoOnMakes DEF SetField
  <2>2. InData /\ InData'
    BY <2>1, MadePhase
  <2>3. UNCHANGED <<running, parttype, granted, temp, file>> /\ parttype # "filedata"
        /\ (parttype # "sessionid" => UNCHANGED sessionid)
    BY <1>4 DEF SetField, GoOn
  <2> QED
    BY <2>2, <2>3 DEF Granting
<1>5. CASE WriteTemp
  <2>1. Made /\ calls[1].on = "part_data" /\ data = calls[1].data
    BY <1>0, <1>5, CalledBy, CallbackMakes DEF WriteTemp, Callback
  <2>2. InData /\ InData' /\ data \in Seq(Bytes) /\ running
    BY <2>1, MadePhase DEF Typed, Made
  <2>3. UNCHANGED <<parttype, sessionid, granted, file>> /\ parttype = "filedata"
    BY <1>5 DEF WriteTemp
  <2>4. temp # NoFile /\ temp \in Seq(Bytes)
    BY <2>2, <2>3 DEF Granting
  <2>5. temp' \in {temp, temp \o data}
    BY <1>5 DEF WriteTemp
  <2>6. temp \o data \in Seq(Bytes)
    BY <2>2, <2>4
  <2>7. temp' \in Seq(Bytes) /\ temp' # NoFile
    BY <2>4, <2>5, <2>6, NothingAssumption
  <2> QED
    BY <2>2, <2>3, <2>4, <2>7 DEF Granting
<1>6. CASE EndSession
  <2>1. Made /\ calls[1].on = "part_data_end"
    BY <1>0, <1>6, CalledBy, CallbackMakes DEF EndSession, Callback
  <2>2. InData /\ ~InData'
    BY <2>1, MadePhase
  <2>3. UNCHANGED <<sessionid, temp, file>> /\ (granted' \/ (UNCHANGED granted /\ ~running'))
    BY <1>6 DEF EndSession, Respond
  <2> QED
    BY <2>2, <2>3 DEF Granting
<1>7. CASE EndFile
  <2>1. Made /\ calls[1].on = "part_data_end"
    BY <1>0, <1>7, CalledBy, CallbackMakes DEF EndFile, Callback
  <2>2. InData /\ ~InData' /\ running
    BY <2>1, MadePhase DEF Typed, Made
  <2>3. UNCHANGED <<st, temp, granted>> /\ ~running' /\ parttype = "filedata"
    BY <1>7 DEF EndFile, Respond
  <2> QED
    BY <2>2, <2>3 DEF Granting
<1>8. CASE EndOther
  <2>1. Made /\ calls[1].on = "part_data_end" /\ GoOn
    BY <1>0, <1>8, CalledBy, GoOnMakes DEF EndOther
  <2>2. InData /\ ~InData'
    BY <2>1, MadePhase
  <2>3. UNCHANGED <<running, sessionid, granted, temp, file>> /\ parttype # "sessionid"
    BY <1>8 DEF EndOther, GoOn
  <2> QED
    BY <2>2, <2>3 DEF Granting
<1>9. CASE FinishCb \/ UNCHANGED vars
  <2>1. UNCHANGED <<running, parser, calls, st, files, granted>>
    BY <1>9 DEF FinishCb, vars, ghosts
  <2> QED
    BY <2>1 DEF Granting, InData, Opening, Closing, st, files
<1> QED
  BY <1>1, <1>2, <1>3, <1>4, <1>5, <1>6, <1>7, <1>8, <1>9 DEF Next

\* No temporary file and no other one is written before the session was found to have
\* access to uploads, whatever a form puts first and wherever a read ends.
THEOREM AccessFirst == Spec => []GrantedFirst
<1>1. Init => Typed /\ Granting
  <2> SUFFICES ASSUME Init PROVE Granting
    BY TypedInit
  <2> QED
    BY DEF Init, Granting, InData, Opening, Closing, Initial, DataStates
<1>2. Typed /\ Granting /\ [Next]_vars => (Typed /\ Granting)'
  BY TypedKept, GrantingKept
<1>3. Typed /\ Granting => GrantedFirst
  BY DEF Granting, GrantedFirst
<1> QED
  BY <1>1, <1>2, <1>3, PTL DEF Spec

-----------------------------------------------------------------------------
(* The parser follows the form *)

\* After r bytes of some content and its delimiter the parser takes the last h of
\* them for the start of a delimiter.
Scanned(content, r, h) ==
    /\ h <= r /\ \A j \in 1 .. h : (content \o Delimiter)[r - h + j] = Delimiter[j]
    /\ r > Len(content) => h = r - Len(content)

LEMMA ScanTurns ==
    ASSUME NEW content \in Seq(Bytes), NoDelimiter(content),
           NEW r \in Nat, NEW h \in Nat, h < Len(Delimiter),
           r < Len(content) + Len(Delimiter), Scanned(content, r, h),
           NEW c, c = (content \o Delimiter)[r + 1]
    PROVE  /\ c = Delimiter[h + 1] /\ h + 1 < Len(Delimiter) =>
                 Scanned(content, r + 1, h + 1) /\ r + 1 < Len(content) + Len(Delimiter)
           /\ c # Delimiter[h + 1] /\ c = CR =>
                 Scanned(content, r + 1, 1) /\ r + 1 < Len(content) + Len(Delimiter)
           /\ c # Delimiter[h + 1] /\ c # CR =>
                 Scanned(content, r + 1, 0) /\ r + 1 < Len(content) + Len(Delimiter)
           /\ c = Delimiter[h + 1] /\ h + 1 = Len(Delimiter) =>
                 r + 1 = Len(content) + Len(Delimiter)
<1> DEFINE n == Len(content)
           m == Len(Delimiter)
           s == content \o Delimiter
<1>1. n \in Nat /\ m \in Nat /\ m > 2
  BY DelimiterBytes, BytesTyped
<1>2. /\ \A i \in 1 .. n : s[i] = content[i]
      /\ \A j \in 1 .. m : s[n + j] = Delimiter[j]
  BY DelimiterBytes
<1>3. Delimiter[1] = CR /\ \A j \in 2 .. m : Delimiter[j] # CR
  BY DelimiterBytes
<1>4. h <= r /\ (\A j \in 1 .. h : s[r - h + j] = Delimiter[j]) /\ (r > n => h = r - n)
  BY DEF Scanned
<1>5. \A i \in 0 .. n - m : \E j \in 1 .. m : content[i + j] # Delimiter[j]
  <2>1. DOMAIN Delimiter = 1 .. m
    BY DelimiterBytes
  <2> QED
    BY <2>1 DEF NoDelimiter
<1>6. c = s[r + 1] /\ h < m /\ r < n + m
  OBVIOUS
<1>7. ASSUME NEW k \in Nat, k <= r + 1, \A j \in 1 .. k : s[(r + 1) - k + j] = Delimiter[j],
             r + 1 > n => k = (r + 1) - n
      PROVE  Scanned(content, r + 1, k)
  BY <1>7 DEF Scanned
<1> HIDE DEF n, m, s
\* Past the content it is the delimiter that is read.
<1>8. r >= n => c = Delimiter[(r - n) + 1] /\ (r - n) + 1 \in 1 .. m
  <2> SUFFICES ASSUME r >= n PROVE c = Delimiter[(r - n) + 1] /\ (r - n) + 1 \in 1 .. m
    OBVIOUS
  <2>1. (r - n) + 1 \in 1 .. m /\ n + ((r - n) + 1) = r + 1
    BY <1>1, <1>6
  <2> QED
    BY <1>2, <1>6, <2>1
<1>9. r = n => c = CR
  BY <1>1, <1>3, <1>8
<1>10. r > n => c = Delimiter[h + 1]
  BY <1>1, <1>4, <1>8
<1>11. h + 1 < m \/ c # Delimiter[h + 1] => r + 1 < n + m
  <2> SUFFICES ASSUME r + 1 = n + m PROVE h + 1 = m /\ c = Delimiter[h + 1]
    BY <1>1, <1>6
  <2>1. r > n
    BY <1>1
  <2> QED
    BY <1>1, <1>4, <1>10, <2>1
<1>12. ASSUME c = Delimiter[h + 1], h + 1 < m
       PROVE  Scanned(content, r + 1, h + 1) /\ r + 1 < n + m
  <2>1. \A j \in 1 .. h + 1 : s[(r + 1) - (h + 1) + j] = Delimiter[j]
    <3> TAKE j \in 1 .. h + 1
    <3>1. (r + 1) - (h + 1) + j = r - h + j
      BY <1>1
    <3>2. CASE j \in 1 .. h
      BY <1>4, <3>1, <3>2
    <3>3. CASE j = h + 1
      <4>1. r - h + j = r + 1
        BY <3>3
      <4> QED
        BY <1>6, <1>12, <3>1, <3>3, <4>1
    <3> QED
      BY <3>2, <3>3
  <2>2. r + 1 > n => h + 1 = (r + 1) - n
    <3>1. CASE r > n
      BY <1>1, <1>4, <3>1
    <3>2. CASE r = n
      <4>1. Delimiter[h + 1] = CR
        BY <1>9, <1>12, <3>2
      <4>2. h + 1 \notin 2 .. m
        BY <1>3, <4>1
      <4> QED
        BY <1>1, <1>12, <3>2, <4>2
    <3> QED
      BY <1>1, <3>1, <3>2
  <2>3. h + 1 \in Nat /\ h + 1 <= r + 1
    BY <1>1, <1>4
  <2> QED
    BY <1>7, <1>11, <1>12, <2>1, <2>2, <2>3
<1>13. ASSUME c # Delimiter[h + 1], c = CR
       PROVE  Scanned(content, r + 1, 1) /\ r + 1 < n + m
  <2>1. \A j \in 1 .. 1 : s[(r + 1) - 1 + j] = Delimiter[j]
    <3>1. \A j \in 1 .. 1 : j = 1 /\ (r + 1) - 1 + j = r + 1
      OBVIOUS
    <3> QED
      BY <1>3, <1>6, <1>13, <3>1
  <2>2. r + 1 > n => 1 = (r + 1) - n
    BY <1>1, <1>10, <1>13
  <2>3. 1 \in Nat /\ 1 <= r + 1
    OBVIOUS
  <2> QED
    BY <1>7, <1>11, <1>13, <2>1, <2>2, <2>3
<1>14. ASSUME c # Delimiter[h + 1], c # CR
       PROVE  Scanned(content, r + 1, 0) /\ r + 1 < n + m
  <2>1. \A j \in 1 .. 0 : s[(r + 1) - 0 + j] = Delimiter[j]
    OBVIOUS
  <2>2. r + 1 > n => 0 = (r + 1) - n
    BY <1>1, <1>9, <1>10, <1>14
  <2>3. 0 \in Nat /\ 0 <= r + 1
    OBVIOUS
  <2> QED
    BY <1>7, <1>11, <1>14, <2>1, <2>2, <2>3
\* The bytes that make a whole delimiter are the one after the content.
<1>15. ASSUME c = Delimiter[h + 1], h + 1 = m
       PROVE  r + 1 = n + m
  <2> DEFINE i == (r + 1) - m
  <2>1. i \in Nat /\ i <= n
    BY <1>1, <1>4, <1>6, <1>15
  <2>2. \A j \in 1 .. m : s[i + j] = Delimiter[j]
    <3> TAKE j \in 1 .. m
    <3>1. CASE j \in 1 .. h
      <4>1. i + j = r - h + j
        BY <1>1, <1>15
      <4> QED
        BY <1>4, <3>1, <4>1
    <3>2. CASE j = m
      <4>1. i + j = r + 1 /\ j = h + 1
        BY <1>1, <1>15, <3>2
      <4> QED
        BY <1>6, <1>15, <4>1
    <3>3. j \in 1 .. h \/ j = m
      BY <1>1, <1>15
    <3> QED
      BY <3>1, <3>2, <3>3
  <2>3. ~(i <= n - m)
    <3> SUFFICES ASSUME i <= n - m PROVE FALSE
      OBVIOUS
    <3>1. i \in 0 .. n - m
      BY <1>1, <2>1
    <3>2. PICK j \in 1 .. m : content[i + j] # Delimiter[j]
      BY <1>5, <3>1
    <3>3. i + j \in 1 .. n
      BY <1>1, <3>1
    <3> HIDE DEF i
    <3> QED
      BY <1>2, <2>2, <3>2, <3>3
  <2>4. i = n
    <3> SUFFICES ASSUME i # n PROVE FALSE
      OBVIOUS
    <3> DEFINE j == (n + 1) - i
    <3>1. j \in 2 .. m /\ i + j = n + 1
      BY <1>1, <2>1, <2>3
    <3>2. s[n + 1] = CR
      BY <1>1, <1>2, <1>3
    <3> HIDE DEF i, j
    <3>3. s[i + j] = Delimiter[j]
      BY <1>1, <2>2, <3>1
    <3> QED
      BY <1>3, <3>1, <3>2, <3>3
  <2> QED
    BY <1>1, <2>4
<1> QED
  BY <1>12, <1>13, <1>14, <1>15 DEF n, m

\* Where the parser is at byte k of part n of the form.
PlacedAt(n, k, p) ==
    /\ n = 0 => p.state = "start_boundary" /\ p.index = k - 1
    /\ n = 1 /\ k <= 2 => p.state = "start_boundary" /\ p.index = Len(Boundary) + k - 1
    /\ n > 1 /\ k = 1 => p.state = "part_data_almost_end"
    /\ n \in 2 .. Len(form) /\ k = 2 => p.state = "part_data_end"
    /\ n = Len(form) + 1 /\ k = 2 => p.state = "part_data_final_hyphen"
    /\ n = Len(form) + 1 /\ k = 3 => p.state = "end"
    /\ n \in 1 .. Len(form) /\ k \in 3 .. HeaderLength(form[n]) + 1 => p.state = HeaderState(form[n], k)
    /\ n \in 1 .. Len(form) /\ k > HeaderLength(form[n]) + 1 =>
          /\ p.state \in DataStates
          /\ Scanned(Content(form[n]), k - 1 - HeaderLength(form[n]), Held(p))

Placed == PlacedAt(at, place, parser)

LEMMA PlacedBegin ==
    ASSUME Sent, NEW k \in Nat, NEW p, p.state = "start_boundary"
    PROVE  /\ p.index = k - 1 => PlacedAt(0, k, p)
           /\ k \in {1, 2} /\ p.index = Len(Boundary) + k - 1 => PlacedAt(1, k, p)
<1>1. Len(form) \in Nat /\ Len(form) > 0
  BY FormTyped
<1>2. 1 \in 1 .. Len(form) /\ HeaderLength(form[1]) \in {13, 21}
  BY <1>1, FormTyped, HeaderBytesTyped
<1> QED
  BY <1>1, <1>2 DEF PlacedAt

LEMMA PlacedEnd ==
    ASSUME Sent, NEW n \in Nat, n > 1, n <= Len(form) + 1, NEW p
    PROVE  /\ p.state = "part_data_almost_end" => PlacedAt(n, 1, p)
           /\ n <= Len(form) /\ p.state = "part_data_end" => PlacedAt(n, 2, p)
           /\ n = Len(form) + 1 /\ p.state = "part_data_final_hyphen" => PlacedAt(n, 2, p)
           /\ n = Len(form) + 1 /\ p.state = "end" => PlacedAt(n, 3, p)
<1>1. Len(form) \in Nat /\ Len(form) > 0
  BY FormTyped
<1>2. n <= Len(form) => HeaderLength(form[n]) \in {13, 21}
  BY <1>1, FormTyped, HeaderBytesTyped
<1> QED
  BY <1>1, <1>2 DEF PlacedAt

LEMMA PlacedHeader ==
    ASSUME Sent, NEW n \in 1 .. Len(form), NEW k \in 3 .. HeaderLength(form[n]) + 1, NEW p,
           p.state = HeaderState(form[n], k)
    PROVE  PlacedAt(n, k, p)
<1>1. Len(form) \in Nat
  BY FormTyped
<1>2. HeaderLength(form[n]) \in {13, 21}
  BY FormTyped, HeaderBytesTyped
<1> QED
  BY <1>1, <1>2 DEF PlacedAt

LEMMA PlacedData ==
    ASSUME Sent, NEW n \in 1 .. Len(form), NEW k \in Nat, k > HeaderLength(form[n]) + 1, NEW p,
           p.state \in DataStates, Scanned(Content(form[n]), k - 1 - HeaderLength(form[n]), Held(p))
    PROVE  PlacedAt(n, k, p)
<1>1. Len(form) \in Nat
  BY FormTyped
<1>2. HeaderLength(form[n]) \in {13, 21}
  BY FormTyped, HeaderBytesTyped
<1> QED
  BY <1>1, <1>2 DEF PlacedAt

\* How the place moves.
LEMMA AdvanceCases ==
    ASSUME Sent, Where, Advance
    PROVE  \/ at <= Len(form) /\ place < Len(PartBytes(at)) /\ at' = at /\ place' = place + 1
           \/ at <= Len(form) /\ place = Len(PartBytes(at)) /\ at' = at + 1 /\ place' = 1
           \/ at = Len(form) + 1 /\ at' = at /\ place' = place + 1 /\ place \in {1, 2}
<1> DEFINE n == Len(form)
           m == Len(PartBytes(at))
<1>1. n \in Nat /\ at \in 0 .. n + 1 /\ place \in Nat /\ place # 0
  BY FormTyped DEF Where
<1>2. at = n + 1 => m = 2
  BY PartBytesCases
<1>3. \/ place < m /\ place' = place + 1 /\ at' = at
      \/ place = m /\ at <= n /\ place' = 1 /\ at' = at + 1
      \/ at > n /\ place = 2 /\ place' = place + 1 /\ at' = at
  BY DEF Advance, AtLastByte
<1> HIDE DEF n, m
<1>4. \/ at <= n /\ place < m /\ at' = at /\ place' = place + 1
      \/ at <= n /\ place = m /\ at' = at + 1 /\ place' = 1
      \/ at = n + 1 /\ at' = at /\ place' = place + 1 /\ place \in {1, 2}
  <2>1. CASE at <= n
    BY <1>1, <1>3, <2>1
  <2>2. CASE at = n + 1
    BY <1>1, <1>2, <1>3, <2>2
  <2> QED
    BY <1>1, <2>1, <2>2
<1> QED
  BY <1>4 DEF n, m

LEMMA HeaderStateCases ==
    ASSUME NEW part \in Parts, NEW k \in 3 .. HeaderLength(part) + 1
    PROVE  /\ HeaderState(part, k) \notin DataStates
           /\ HeaderState(part, k) \notin {"start_boundary", "part_data_almost_end", "part_data_end",
                                           "part_data_final_hyphen", "end"}
           /\ HeaderState(part, k) = "part_data_start" <=> k = HeaderLength(part) + 1
<1>1. CASE part # "filedata"
  <2>1. HeaderLength(part) = 13
    BY <1>1 DEF HeaderLength
  <2>2. k \in {3, 4, 5, 6, 12} \/ k \in {7, 8} \/ k \in {9, 10} \/ k = 11 \/ k = 13 \/ k = 14
    BY <2>1
  <2> QED
    BY <1>1, <2>1, <2>2, PlainStates DEF DataStates
<1>2. CASE part = "filedata"
  <2>1. HeaderLength(part) = 21
    BY <1>2 DEF HeaderLength
  <2>2. \/ k \in {3, 4, 5, 6, 12, 13, 14, 15, 20} \/ k \in {7, 8, 16, 17} \/ k \in {9, 10, 18}
        \/ k \in {11, 19} \/ k = 21 \/ k = 22
    BY <2>1
  <2> QED
    BY <1>2, <2>1, <2>2, FileStates DEF DataStates
<1> QED
  BY <1>1, <1>2

\* The places there are, and what the parser says of them.
LEMMA Places ==
    ASSUME Typed, Placed
    PROVE  \/ at = 0
           \/ at = 1 /\ place \in {1, 2}
           \/ at > 1 /\ place = 1
           \/ at \in 2 .. Len(form) /\ place = 2
           \/ at = Len(form) + 1 /\ place \in {2, 3}
           \/ /\ at \in 1 .. Len(form) /\ place \in 3 .. HeaderLength(form[at])
              /\ parser.state \notin DataStates \cup {"part_data_start"}
           \/ /\ at \in 1 .. Len(form) /\ place = HeaderLength(form[at]) + 1
              /\ parser.state = "part_data_start"
           \/ /\ at \in 1 .. Len(form) /\ place > HeaderLength(form[at]) + 1
              /\ parser.state \in DataStates
<1> DEFINE n == Len(form)
           m == HeaderLength(form[at])
<1>1. n \in Nat /\ n > 0 /\ at \in 0 .. n + 1 /\ place \in Nat /\ place # 0
      /\ (at = n + 1 => place <= 3)
  BY FormTyped DEF Typed, Where
<1>2. at \in 1 .. n => form[at] \in Parts /\ m \in {13, 21}
  BY FormTyped, HeaderBytesTyped DEF Typed
<1>3. CASE at \in 1 .. n /\ place \in 3 .. m + 1
  <2>1. parser.state = HeaderState(form[at], place)
    BY <1>3 DEF Placed, PlacedAt
  <2>2. /\ parser.state \notin DataStates
        /\ parser.state = "part_data_start" <=> place = m + 1
    BY <1>2, <1>3, <2>1, HeaderStateCases
  <2> HIDE DEF m, n
  <2>3. \/ place \in 3 .. m /\ parser.state \notin DataStates \cup {"part_data_start"}
        \/ place = m + 1 /\ parser.state = "part_data_start"
    BY <1>2, <1>3, <2>2
  <2> QED
    BY <1>3, <2>3 DEF m, n
<1>4. CASE at \in 1 .. n /\ place > m + 1
  BY <1>4 DEF Placed, PlacedAt
<1>5. CASE ~(at \in 1 .. n /\ place \in 3 .. m + 1) /\ ~(at \in 1 .. n /\ place > m + 1)
  <2> HIDE DEF n, m
  <2>1. \/ at = 0
        \/ at = 1 /\ place \in {1, 2}
        \/ at > 1 /\ place = 1
        \/ at \in 2 .. n /\ place = 2
        \/ at = n + 1 /\ place \in {2, 3}
    BY <1>1, <1>2, <1>5
  <2> QED
    BY <2>1 DEF n
<1> QED
  BY <1>3, <1>4, <1>5

LEMMA InDataPlace ==
    ASSUME Typed, Placed, parser.state \in DataStates
    PROVE  at \in 1 .. Len(form) /\ place > HeaderLength(form[at]) + 1
<1>0. Sent /\ place # 0 /\ place \in Nat
  BY DEF Typed, Where
<1>1. Len(form) \in Nat /\ Len(form) > 0
  BY <1>0, FormTyped
<1>2. parser.state \notin {"start_boundary", "part_data_almost_end", "part_data_end",
                           "part_data_final_hyphen", "end", "part_data_start"}
  BY DEF DataStates
<1>3. /\ ~(at = 0) /\ ~(at = 1 /\ place \in {1, 2}) /\ ~(at > 1 /\ place = 1)
      /\ ~(at \in 2 .. Len(form) /\ place = 2)
  BY <1>0, <1>1, <1>2 DEF Placed, PlacedAt
<1>4. ~(at = Len(form) + 1 /\ place \in {2, 3})
  BY <1>2 DEF Placed, PlacedAt
<1> QED
  BY <1>2, <1>3, <1>4, Places

\* How much of a part's content and delimiter was read.
ReadOf == place - 1 - HeaderLength(form[at])

LEMMA NextOf ==
    ASSUME Typed, at \in 1 .. Len(form)
    PROVE  /\ form[at] \in Parts /\ HeaderLength(form[at]) \in {13, 21}
           /\ place \in Nat /\ place # 0
           /\ Len(PartBytes(at)) = HeaderLength(form[at]) + Len(Stream(form[at]))
           /\ Len(Stream(form[at])) \in Nat /\ Len(Stream(form[at])) > 2
           /\ place <= HeaderLength(form[at]) => NextByte = HeaderBytes(form[at])[place]
           /\ place > HeaderLength(form[at]) =>
                 /\ ReadOf \in Nat /\ ReadOf < Len(Stream(form[at]))
                 /\ NextByte = Stream(form[at])[ReadOf + 1]
<1> DEFINE part == form[at]
           n == HeaderLength(part)
           stream == Stream(part)
           bytes == FormPart(part)
<1>1. Sent /\ place \in Nat /\ place # 0 /\ (at <= Len(form) => place <= Len(PartBytes(at)))
  BY DEF Typed, Where
<1>2. part \in Parts /\ n \in {13, 21} /\ PartBytes(at) = bytes /\ at <= Len(form)
  BY <1>1, FormTyped, HeaderBytesTyped, PartBytesCases
<1>3. /\ Len(bytes) = n + Len(stream) /\ stream \in Seq(Bytes)
      /\ \A k \in 1 .. n : bytes[k] = HeaderBytes(part)[k]
      /\ \A i \in 1 .. Len(stream) : bytes[n + i] = stream[i]
  BY <1>1, <1>2, FormPartTyped, StreamTyped
<1>4. Len(stream) > 2
  <2>1. Len(stream) = Len(Content(part)) + Len(Delimiter) /\ Content(part) \in Seq(Bytes)
    BY <1>1, <1>2, StreamTyped, ContentTyped
  <2> HIDE DEF stream, part
  <2>2. Len(Content(part)) \in Nat /\ Len(Delimiter) > 2 /\ Len(Delimiter) \in Nat
    BY <2>1, DelimiterBytes, BytesTyped
  <2> QED
    BY <2>1, <2>2
<1>5. NextByte = bytes[place] /\ place <= n + Len(stream) /\ ReadOf = place - 1 - n
  BY <1>1, <1>2, <1>3 DEF NextByte, ReadOf
<1>6. Len(stream) \in Nat
  BY <1>3
<1> HIDE DEF n, stream, bytes
<1>7. place <= n => NextByte = HeaderBytes(part)[place]
  BY <1>1, <1>2, <1>3, <1>5
<1>8. place > n => ReadOf \in Nat /\ ReadOf < Len(stream) /\ NextByte = stream[ReadOf + 1]
  <2> SUFFICES ASSUME place > n
               PROVE  ReadOf \in Nat /\ ReadOf < Len(stream) /\ NextByte = stream[ReadOf + 1]
    OBVIOUS
  <2>1. ReadOf \in Nat /\ ReadOf < Len(stream) /\ place = n + (ReadOf + 1) /\ ReadOf + 1 \in 1 .. Len(stream)
    BY <1>1, <1>2, <1>5, <1>6
  <2> QED
    BY <1>3, <1>5, <2>1
<1> QED
  BY <1>1, <1>2, <1>3, <1>4, <1>6, <1>7, <1>8 DEF n, stream, bytes

\* What a byte within a part leads to: more of the part, or its end with the delimiter.
More ==
    /\ at' = at /\ place' = place + 1 /\ running'
    /\ ReadOf + 1 < Len(Stream(form[at]))
    /\ parser' \in Parser /\ parser'.state \in DataStates /\ ~Closing'
    /\ Scanned(Content(form[at]), ReadOf + 1, Held(parser'))
    /\ Passed(calls', parser') = Append(Passed(<<>>, parser), NextByte)

Ended ==
    /\ at' = at + 1 /\ place' = 1 /\ running'
    /\ ReadOf + 1 = Len(Stream(form[at])) /\ Held(parser) + 1 = Len(Delimiter)
    /\ parser'.state = "part_data_almost_end" /\ Closing'
    /\ calls' = <<Call("part_data_end", <<>>)>>

LEMMA DataMoves ==
    ASSUME Typed, Placed, Parse, parser.state \in DataStates
    PROVE  More \/ Ended
<1> DEFINE part == form[at]
           content == Content(part)
           n == HeaderLength(part)
           m == Len(Stream(part))
           h == Held(parser)
           r == ReadOf
           c == NextByte
<1>1. PICK last : /\ parser' = Consume(parser, c, last).parser
                  /\ calls' = Consume(parser, c, last).calls
                  /\ running' = Consume(parser, c, last).ok
  BY ParseReads
<1> DEFINE s == Consume(parser, c, last)
<1>2. parser \in Parser /\ c \in Bytes /\ Sent /\ Where /\ Advance
  BY ParseReads DEF Typed
<1>3. at \in 1 .. Len(form) /\ place > n + 1
  BY InDataPlace
<1>4. /\ part \in Parts /\ n \in {13, 21} /\ place \in Nat
      /\ Len(PartBytes(at)) = n + m /\ m \in Nat
      /\ r \in Nat /\ r < m /\ c = Stream(part)[r + 1]
  <2>1. place > n
    <3>1. n \in {13, 21} /\ place \in Nat
      BY <1>3, NextOf
    <3> HIDE DEF n
    <3> QED
      BY <1>3, <3>1
  <2> QED
    BY <1>3, <2>1, NextOf
<1>5. content \in Seq(Bytes) /\ NoDelimiter(content) /\ m = Len(content) + Len(Delimiter)
  BY <1>2, <1>4, ContentTyped, StreamTyped
<1>6. h \in Nat /\ h < Len(Delimiter)
  BY <1>2, HeldTyped
<1>7. Scanned(content, r, h)
  BY <1>3 DEF Placed, PlacedAt, ReadOf
<1>8. c = (content \o Delimiter)[r + 1]
  BY <1>4 DEF Stream
<1>9. DataTurns(parser, c, s)
  BY <1>2, DataStep
<1>10. s.parser = parser' /\ s.calls = calls' /\ s.ok = running'
  BY <1>1
<1>11. \/ at' = at /\ place' = place + 1 /\ place < n + m
       \/ at' = at + 1 /\ place' = 1 /\ place = n + m
  <2>1. at <= Len(form) /\ ~(at = Len(form) + 1)
    BY <1>2, <1>3, FormTyped
  <2> QED
    BY <1>2, <1>4, <2>1, AdvanceCases
<1>12. place = n + r + 1
  <2>1. r = place - 1 - n
    BY DEF ReadOf
  <2> HIDE DEF n, r
  <2> QED
    BY <1>4, <2>1
<1>13. /\ r + 1 < m => at' = at /\ place' = place + 1
       /\ r + 1 = m => at' = at + 1 /\ place' = 1
  <2> HIDE DEF n, m, r
  <2> QED
    BY <1>4, <1>11, <1>12
<1> DEFINE passed == Append(Passed(<<>>, parser), c)
<1> HIDE DEF s, h, r, m, n, c, content, passed
<1>14. ASSUME NEW k, DataGoesOn(parser, s, k, passed), r + 1 < m, Scanned(content, r + 1, k)
       PROVE  More
  <2>1. /\ s.parser \in Parser /\ Goes(s) /\ s.parser.state \in DataStates
        /\ Held(s.parser) = k /\ Passed(s.calls, s.parser) = passed
    BY <1>14 DEF DataGoesOn
  <2>2. Len(s.calls) # 0 => s.calls[1].on = "part_data"
    BY <1>14, GoesOnPhase
  <2>3. ~Closing'
    BY <1>10, <2>2 DEF Closing
  <2>4. running'
    BY <1>10, <2>1 DEF Goes
  <2>5. /\ parser' \in Parser /\ parser'.state \in DataStates
        /\ Held(parser') = k /\ Passed(calls', parser') = passed
    BY <1>10, <2>1
  <2>6. /\ ReadOf + 1 < Len(Stream(form[at])) /\ Scanned(Content(form[at]), ReadOf + 1, k)
        /\ passed = Append(Passed(<<>>, parser), NextByte)
    BY <1>14 DEF r, m, content, passed, c
  <2> QED
    BY <1>13, <1>14, <2>3, <2>4, <2>5, <2>6 DEF More
<1>15. CASE c = Delimiter[h + 1] /\ h + 1 < Len(Delimiter)
  <2>1. r + 1 < m /\ Scanned(content, r + 1, h + 1)
    BY <1>4, <1>5, <1>6, <1>7, <1>8, <1>15, ScanTurns
  <2>2. DataGoesOn(parser, s, h + 1, passed)
    BY <1>9, <1>15 DEF DataTurns, h, passed
  <2> QED
    BY <1>14, <2>1, <2>2
<1>16. CASE c # Delimiter[h + 1]
  <2> DEFINE k == IF c = CR THEN 1 ELSE 0
  <2>0. /\ c = CR => Scanned(content, r + 1, 1) /\ r + 1 < Len(content) + Len(Delimiter)
        /\ c # CR => Scanned(content, r + 1, 0) /\ r + 1 < Len(content) + Len(Delimiter)
    BY <1>4, <1>5, <1>6, <1>7, <1>8, <1>16, ScanTurns
  <2>1. r + 1 < m /\ Scanned(content, r + 1, k)
    BY <1>5, <2>0
  <2>2. DataGoesOn(parser, s, k, passed)
    BY <1>9, <1>16 DEF DataTurns, h, passed
  <2> HIDE DEF k
  <2> QED
    BY <1>14, <2>1, <2>2
<1>17. CASE c = Delimiter[h + 1] /\ h + 1 = Len(Delimiter)
  <2>1. r + 1 = m
    BY <1>4, <1>5, <1>6, <1>7, <1>8, <1>17, ScanTurns
  <2>2. PartEnds(s)
    BY <1>6, <1>9, <1>17 DEF DataTurns, h
  <2>3. Len(s.calls) # 0 /\ s.calls[1].on = "part_data_end" /\ s.parser.state = "part_data_almost_end"
    BY <2>2, EndsPhase
  <2>4. Closing'
    BY <1>10, <2>3 DEF Closing
  <2>5. running' /\ calls' = <<Call("part_data_end", <<>>)>>
    BY <1>10, <2>2 DEF PartEnds, Goes
  <2>6. parser'.state = "part_data_almost_end"
    BY <1>10, <2>3
  <2>7. ReadOf + 1 = Len(Stream(form[at])) /\ Held(parser) + 1 = Len(Delimiter)
    BY <1>17, <2>1 DEF r, m, h
  <2> QED
    BY <1>13, <2>1, <2>4, <2>5, <2>6, <2>7 DEF Ended
<1> QED
  <2>1. h + 1 < Len(Delimiter) \/ h + 1 = Len(Delimiter)
    BY <1>6, DelimiterBytes, BytesTyped
  <2> QED
    BY <1>15, <1>16, <1>17, <2>1

LEMMA OpenPlace ==
    ASSUME Typed, Placed, parser.state = "part_data_start"
    PROVE  at \in 1 .. Len(form) /\ place = HeaderLength(form[at]) + 1
<1>0. Sent /\ place # 0 /\ place \in Nat
  BY DEF Typed, Where
<1>1. Len(form) \in Nat /\ Len(form) > 0
  BY <1>0, FormTyped
<1>2. parser.state \notin DataStates
  BY DEF DataStates
<1>3. /\ ~(at = 0) /\ ~(at = 1 /\ place \in {1, 2}) /\ ~(at > 1 /\ place = 1)
      /\ ~(at \in 2 .. Len(form) /\ place = 2)
  BY <1>0, <1>1 DEF Placed, PlacedAt
<1>4. ~(at = Len(form) + 1 /\ place \in {2, 3})
  BY DEF Placed, PlacedAt
<1> QED
  BY <1>2, <1>3, <1>4, Places

\* A byte that begins a part.
Begun ==
    /\ at' = at /\ place' = place + 1 /\ running'
    /\ ReadOf = 0
    /\ parser' \in Parser /\ parser'.state \in DataStates /\ Opening' /\ calls'[1].data = <<>>
    /\ Scanned(Content(form[at]), 1, Held(parser'))
    /\ Passed(calls', parser') = <<NextByte>>

LEMMA OpenMoves ==
    ASSUME Typed, Placed, Parse, parser.state = "part_data_start"
    PROVE  Begun
<1> DEFINE part == form[at]
           content == Content(part)
           n == HeaderLength(part)
           m == Len(Stream(part))
           r == ReadOf
           c == NextByte
           k == IF c = CR THEN 1 ELSE 0
<1>1. PICK last : /\ parser' = Consume(parser, c, last).parser
                  /\ calls' = Consume(parser, c, last).calls
                  /\ running' = Consume(parser, c, last).ok
  BY ParseReads
<1> DEFINE s == Consume(parser, c, last)
<1>2. parser \in Parser /\ c \in Bytes /\ Sent /\ Where /\ Advance
  BY ParseReads DEF Typed
<1>3. at \in 1 .. Len(form) /\ place = n + 1
  BY OpenPlace
<1>4. n \in {13, 21} /\ place \in Nat
  BY <1>3, NextOf
<1>5. r = 0 /\ place > n
  <2>1. r = place - 1 - n
    BY DEF ReadOf
  <2> HIDE DEF r, n
  <2> QED
    BY <1>3, <1>4, <2>1
<1>6. /\ part \in Parts /\ Len(PartBytes(at)) = n + m /\ m \in Nat /\ m > 2
      /\ c = Stream(part)[r + 1]
  BY <1>3, <1>5, NextOf
<1>7. content \in Seq(Bytes) /\ NoDelimiter(content) /\ m = Len(content) + Len(Delimiter)
  BY <1>2, <1>6, ContentTyped, StreamTyped
<1>8. Scanned(content, 0, 0)
  <2>1. Len(content) \in Nat
    BY <1>7
  <2> HIDE DEF content
  <2> QED
    BY <2>1 DEF Scanned
<1>9. at' = at /\ place' = place + 1
  <2>1. place < Len(PartBytes(at)) /\ at <= Len(form) /\ ~(at = Len(form) + 1)
    <3>1. Len(form) \in Nat
      BY <1>2, FormTyped
    <3>2. place < n + m
      <4> HIDE DEF n, m
      <4> QED
        BY <1>3, <1>4, <1>6
    <3> QED
      BY <1>3, <1>6, <3>1, <3>2
  <2>2. place # Len(PartBytes(at))
    BY <2>1, <1>4
  <2> QED
    BY <1>2, <2>1, <2>2, AdvanceCases
<1>10. /\ DataGoesOn(parser, s, k, <<c>>)
       /\ Len(s.calls) # 0 /\ s.calls[1].on = "headers_complete" /\ s.calls[1].data = <<>>
  BY <1>2, PartBegins
<1>11. s.parser = parser' /\ s.calls = calls' /\ s.ok = running'
  BY <1>1
<1>12. Scanned(content, 1, k)
  <2> DEFINE h == 0
             i == 0
  <2>1. h \in Nat /\ i \in Nat /\ h < Len(Delimiter) /\ h + 1 < Len(Delimiter)
        /\ i < Len(content) + Len(Delimiter) /\ Delimiter[h + 1] = CR
    <3>1. Len(content) \in Nat /\ Len(Delimiter) \in Nat /\ Len(Delimiter) > 2
      BY <1>7, DelimiterBytes, BytesTyped
    <3> HIDE DEF content
    <3> QED
      BY <3>1, DelimiterBytes
  <2>2. c = (content \o Delimiter)[i + 1]
    BY <1>5, <1>6 DEF Stream
  <2>3. i + 1 = 1 /\ h + 1 = 1
    OBVIOUS
  <2>4. Scanned(content, i, h)
    BY <1>8
  <2> HIDE DEF h, i, c, content
  <2>5. CASE c = CR
    BY <1>7, <2>1, <2>2, <2>3, <2>4, <2>5, ScanTurns
  <2>6. CASE c # CR
    <3>1. c # Delimiter[h + 1]
      BY <2>1, <2>6
    <3>2. Scanned(content, i + 1, 0)
      BY <1>7, <2>1, <2>2, <2>4, <2>6, <3>1, ScanTurns
    <3> QED
      BY <2>3, <2>6, <3>2
  <2> QED
    BY <2>5, <2>6
<1> HIDE DEF s, k, r, c, content
<1>13. /\ s.parser \in Parser /\ Goes(s) /\ s.parser.state \in DataStates
       /\ Held(s.parser) = k /\ Passed(s.calls, s.parser) = <<c>>
  BY <1>10 DEF DataGoesOn
<1>14. Opening' /\ calls'[1].data = <<>>
  BY <1>10, <1>11 DEF Opening
<1>15. running' /\ parser' \in Parser /\ parser'.state \in DataStates
       /\ Held(parser') = k /\ Passed(calls', parser') = <<c>>
  BY <1>11, <1>13 DEF Goes
<1>16. ReadOf = 0 /\ Scanned(Content(form[at]), 1, k)
  BY <1>5, <1>12 DEF r, content
<1> QED
  BY <1>9, <1>14, <1>15, <1>16 DEF Begun, c

LEMMA PlacedSame ==
    ASSUME UNCHANGED <<form, body>>, PlacedAt(at', place', parser') PROVE Placed'
BY DEF Placed, PlacedAt, Content

LEMMA PlacedParse == ASSUME Typed, Placed, Parse PROVE Placed' /\ running'
<1> DEFINE n == Len(form)
           m == HeaderLength(form[at])
           c == NextByte
<1>1. PICK last : /\ parser' = Consume(parser, c, last).parser
                  /\ calls' = Consume(parser, c, last).calls
                  /\ running' = Consume(parser, c, last).ok
  BY ParseReads
<1> DEFINE s == Consume(parser, c, last)
<1>2. parser \in Parser /\ c \in Bytes /\ Sent /\ Where /\ Advance /\ UNCHANGED <<form, body>> /\ ~AllRead
  BY ParseReads DEF Typed
<1>3. s.parser = parser' /\ s.calls = calls' /\ s.ok = running'
  BY <1>1
<1>4. n \in Nat /\ n > 0 /\ at \in 0 .. n + 1 /\ place \in Nat /\ place # 0
  <2>1. n \in Nat /\ n > 0
    BY <1>2, FormTyped
  <2> QED
    BY <1>2, <2>1 DEF Where
<1>5. ASSUME NEW next, Turn(parser.state, c, next) PROVE parser'.state = next /\ running'
  <2>1. Goes(s) /\ s.parser.state = next
    BY <1>2, <1>5, Turns
  <2> HIDE DEF s
  <2> QED
    BY <1>3, <2>1 DEF Goes
<1>6. ASSUME PlacedAt(at', place', parser'), running' PROVE Placed' /\ running'
  BY <1>2, <1>6, PlacedSame
<1>7. CASE at = 0
  <2>1. PartBytes(at) = Boundary /\ c = Boundary[place] /\ place <= Len(Boundary)
    BY <1>2, <1>4, <1>7, PartBytesCases DEF NextByte, Where
  <2>2. parser.state = "start_boundary" /\ parser.index = place - 1
    BY <1>7 DEF Placed, PlacedAt
  <2>3. parser.index < Len(Boundary) /\ parser.index + 1 = place /\ Len(Boundary) \in Nat
    BY <1>4, <2>1, <2>2, BytesTyped
  <2>4. Goes(s) /\ s.parser.state = "start_boundary" /\ s.parser.index = place
    BY <1>2, <2>1, <2>2, <2>3, BoundaryTurns
  <2>5. running' /\ parser'.state = "start_boundary" /\ parser'.index = place
    <3> HIDE DEF s
    <3> QED
      BY <1>3, <2>4 DEF Goes
  <2>6. \/ place < Len(Boundary) /\ at' = 0 /\ place' = place + 1
        \/ place = Len(Boundary) /\ at' = 1 /\ place' = 1
    BY <1>2, <1>4, <1>7, <2>1, AdvanceCases
  <2>7. CASE at' = 0 /\ place' = place + 1
    <3>1. place' \in Nat /\ parser'.index = place' - 1
      BY <1>4, <2>5, <2>7
    <3> QED
      BY <1>2, <1>6, <2>5, <2>7, <3>1, PlacedBegin
  <2>8. CASE place = Len(Boundary) /\ at' = 1 /\ place' = 1
    <3>1. place' \in Nat /\ place' \in {1, 2} /\ parser'.index = Len(Boundary) + place' - 1
      BY <1>4, <2>5, <2>8
    <3> QED
      BY <1>2, <1>6, <2>5, <2>8, <3>1, PlacedBegin
  <2> QED
    BY <2>6, <2>7, <2>8
<1>8. ASSUME at \in 1 .. n, place <= m PROVE at' = at /\ place' = place + 1 /\ c = HeaderBytes(form[at])[place]
  <2>1. /\ m \in {13, 21} /\ Len(PartBytes(at)) = m + Len(Stream(form[at]))
        /\ Len(Stream(form[at])) \in Nat /\ Len(Stream(form[at])) > 2
        /\ c = HeaderBytes(form[at])[place]
    BY <1>8, NextOf
  <2>2. place < Len(PartBytes(at)) /\ place # Len(PartBytes(at)) /\ ~(at = n + 1)
    <3> HIDE DEF m
    <3> QED
      BY <1>4, <1>8, <2>1
  <2> QED
    BY <1>2, <2>1, <2>2, AdvanceCases
<1>9. at \in 1 .. n => m \in {13, 21} /\ form[at] \in Parts
                       /\ HeaderBytes(form[at])[1] = CR /\ HeaderBytes(form[at])[2] = LF
  BY <1>2, FormTyped, HeaderBytesTyped
<1>10. CASE at = 1 /\ place \in {1, 2}
  <2>1. parser.state = "start_boundary" /\ parser.index = Len(Boundary) + place - 1
    BY <1>10 DEF Placed, PlacedAt
  <2>2. at' = at /\ place' = place + 1 /\ c = HeaderBytes(form[at])[place] /\ at \in 1 .. n
    <3>1. at \in 1 .. n
      BY <1>4, <1>10
    <3>2. place <= m
      BY <1>9, <1>10, <3>1
    <3> QED
      BY <1>8, <3>1, <3>2
  <2>3. CASE place = 1
    <3>1. c = CR /\ parser.index = Len(Boundary)
      BY <1>9, <2>1, <2>2, <2>3, BytesTyped
    <3>2. Goes(s) /\ s.parser.state = "start_boundary" /\ s.parser.index = parser.index + 1
      BY <1>2, <2>1, <3>1, BoundaryTurns
    <3>3. running' /\ parser'.state = "start_boundary" /\ parser'.index = Len(Boundary) + 1
      <4> HIDE DEF s
      <4> QED
        BY <1>3, <3>1, <3>2 DEF Goes
    <3>4. at' = 1 /\ place' = 2 /\ parser'.index = Len(Boundary) + 2 - 1
      BY <1>10, <2>2, <2>3, <3>3, BytesTyped
    <3> QED
      BY <1>2, <1>6, <3>3, <3>4, PlacedBegin
  <2>4. CASE place = 2
    <3>1. c = LF /\ parser.index = Len(Boundary) + 1
      BY <1>9, <2>1, <2>2, <2>4, BytesTyped
    <3>2. Goes(s) /\ s.parser.state = "header_field"
      BY <1>2, <2>1, <3>1, BoundaryTurns
    <3>3. running' /\ parser'.state = "header_field"
      <4> HIDE DEF s
      <4> QED
        BY <1>3, <3>2 DEF Goes
    <3>4. at' = at /\ place' = 3 /\ 3 \in 3 .. m + 1 /\ HeaderState(form[at], 3) = "header_field"
      <4>1. m \in {13, 21}
        BY <1>9, <2>2
      <4> QED
        BY <2>2, <2>4, <4>1 DEF HeaderState
    <3>5. PlacedAt(at', place', parser')
      BY <1>2, <2>2, <3>3, <3>4, PlacedHeader
    <3> QED
      BY <1>6, <3>3, <3>5
  <2> QED
    BY <1>10, <2>3, <2>4
<1>11. CASE at > 1 /\ place = 1
  <2>1. parser.state = "part_data_almost_end"
    BY <1>11 DEF Placed, PlacedAt
  <2>2. CASE at <= n
    <3>1. at \in 1 .. n /\ at \in 2 .. n /\ at \in Nat
      BY <1>4, <1>11, <2>2
    <3>2. at' = at /\ place' = 2 /\ c = CR
      BY <1>8, <1>9, <1>11, <3>1
    <3>3. running' /\ parser'.state = "part_data_end"
      <4>1. Turn(parser.state, c, "part_data_end")
        BY <2>1, <3>2 DEF Turn
      <4> QED
        BY <1>5, <4>1
    <3>4. PlacedAt(at', place', parser')
      BY <1>2, <1>4, <1>11, <2>2, <3>1, <3>2, <3>3, PlacedEnd
    <3> QED
      BY <1>6, <3>3, <3>4
  <2>3. CASE at = n + 1
    <3>1. c = Hyphen
      BY <1>2, <1>11, <2>3, PartBytesCases DEF NextByte
    <3>2. at' = at /\ place' = 2
      BY <1>2, <1>4, <1>11, <2>3, AdvanceCases
    <3>3. running' /\ parser'.state = "part_data_final_hyphen"
      <4>1. Turn(parser.state, c, "part_data_final_hyphen")
        BY <2>1, <3>1 DEF Turn
      <4> QED
        BY <1>5, <4>1
    <3>4. PlacedAt(at', place', parser')
      BY <1>2, <1>4, <1>11, <2>3, <3>2, <3>3, PlacedEnd
    <3> QED
      BY <1>6, <3>3, <3>4
  <2> QED
    BY <1>4, <2>2, <2>3
<1>12. CASE at \in 2 .. n /\ place = 2
  <2>1. parser.state = "part_data_end" /\ at \in 1 .. n
    BY <1>4, <1>12 DEF Placed, PlacedAt
  <2>2. at' = at /\ place' = 3 /\ c = LF /\ m \in {13, 21}
    BY <1>8, <1>9, <1>12, <2>1
  <2>3. running' /\ parser'.state = "header_field"
    <3>1. Turn(parser.state, c, "header_field")
      BY <2>1, <2>2 DEF Turn
    <3> QED
      BY <1>5, <3>1
  <2>4. 3 \in 3 .. m + 1 /\ HeaderState(form[at], 3) = "header_field"
    BY <2>2 DEF HeaderState
  <2>5. PlacedAt(at', place', parser')
    BY <1>2, <2>1, <2>2, <2>3, <2>4, PlacedHeader
  <2> QED
    BY <1>6, <2>3, <2>5
<1>13. CASE at = n + 1 /\ place \in {2, 3}
  <2>1. place = 2 /\ parser.state = "part_data_final_hyphen"
    BY <1>2, <1>4, <1>13 DEF Placed, PlacedAt, AllRead
  <2>2. c = Hyphen
    BY <1>2, <1>13, <2>1, PartBytesCases DEF NextByte
  <2>3. at' = at /\ place' = 3
    BY <1>2, <1>4, <1>13, <2>1, AdvanceCases
  <2>4. running' /\ parser'.state = "end"
    <3>1. Turn(parser.state, c, "end")
      BY <2>1, <2>2 DEF Turn
    <3> QED
      BY <1>5, <3>1
  <2>5. at \in Nat /\ at > 1 /\ at <= n + 1
    BY <1>4, <1>13
  <2>6. PlacedAt(at', place', parser')
    BY <1>2, <1>13, <2>3, <2>4, <2>5, PlacedEnd
  <2> QED
    BY <1>6, <2>4, <2>6
<1>14. CASE at \in 1 .. n /\ place \in 3 .. m
  <2>1. m \in {13, 21} /\ form[at] \in Parts
    BY <1>9, <1>14
  <2>2. at' = at /\ place' = place + 1 /\ c = HeaderBytes(form[at])[place]
        /\ place \in 3 .. m + 1 /\ place + 1 \in 3 .. m + 1
    BY <1>8, <1>14, <2>1
  <2>3. parser.state = HeaderState(form[at], place)
    BY <1>14, <2>2 DEF Placed, PlacedAt
  <2>4. Turn(parser.state, c, HeaderState(form[at], place + 1))
    BY <1>14, <2>1, <2>2, <2>3, HeaderTurns
  <2>5. running' /\ parser'.state = HeaderState(form[at], place + 1)
    BY <1>5, <2>4
  <2>6. PlacedAt(at', place', parser')
    BY <1>2, <1>14, <2>2, <2>5, PlacedHeader
  <2> QED
    BY <1>6, <2>5, <2>6
<1>15. CASE parser.state = "part_data_start"
  <2>1. Begun /\ at \in 1 .. n /\ place = m + 1 /\ m \in {13, 21}
    BY <1>9, <1>15, OpenMoves, OpenPlace
  <2>2. at' = at /\ place' = place + 1 /\ running' /\ parser'.state \in DataStates
        /\ Scanned(Content(form[at]), 1, Held(parser'))
    BY <2>1 DEF Begun
  <2>3. place' \in Nat /\ place' > m + 1 /\ place' - 1 - m = 1
    BY <2>1, <2>2
  <2>4. PlacedAt(at', place', parser')
    BY <1>2, <2>1, <2>2, <2>3, PlacedData
  <2> QED
    BY <1>6, <2>2, <2>4
<1>16. CASE parser.state \in DataStates
  <2>1. at \in 1 .. n /\ place > m + 1 /\ m \in {13, 21} /\ (More \/ Ended)
    BY <1>9, <1>16, DataMoves, InDataPlace
  <2>2. CASE More
    <3>1. at' = at /\ place' = place + 1 /\ running' /\ parser'.state \in DataStates
          /\ Scanned(Content(form[at]), ReadOf + 1, Held(parser'))
      BY <2>2 DEF More
    <3>2. ReadOf = place - 1 - m
      BY DEF ReadOf
    <3>3. place' \in Nat /\ place' > m + 1 /\ place' - 1 - m = ReadOf + 1
      <4> HIDE DEF m
      <4> QED
        BY <1>4, <2>1, <3>1, <3>2
    <3>4. PlacedAt(at', place', parser')
      BY <1>2, <2>1, <3>1, <3>3, PlacedData
    <3> QED
      BY <1>6, <3>1, <3>4
  <2>3. CASE Ended
    <3>1. at' = at + 1 /\ place' = 1 /\ running' /\ parser'.state = "part_data_almost_end"
      BY <2>3 DEF Ended
    <3>2. at' \in Nat /\ at' > 1 /\ at' <= n + 1
      BY <1>4, <2>1, <3>1
    <3>3. PlacedAt(at', place', parser')
      BY <1>2, <3>1, <3>2, PlacedEnd
    <3> QED
      BY <1>6, <3>1, <3>3
  <2> QED
    BY <2>1, <2>2, <2>3
<1> QED
  BY <1>7, <1>10, <1>11, <1>12, <1>13, <1>14, <1>15, <1>16, Places

LEMMA PlacedKept == ASSUME Typed, Placed, [Next]_vars PROVE Placed'
<1>1. CASE Parse
  BY <1>1, PlacedParse
<1>2. CASE Callback
  <2>1. Made
    BY <1>2, CallbackMakes DEF Typed
  <2>2. UNCHANGED <<at, place, parser, form, body>>
    BY <2>1 DEF Made, input
  <2>3. PlacedAt(at', place', parser')
    BY <2>2 DEF Placed
  <2> QED
    BY <2>2, <2>3, PlacedSame
<1>3. CASE FinishCb \/ UNCHANGED vars
  <2>1. UNCHANGED <<at, place, parser, form, body>>
    BY <1>3 DEF FinishCb, vars, input, ghosts
  <2>2. PlacedAt(at', place', parser')
    BY <2>1 DEF Placed
  <2> QED
    BY <2>1, <2>2, PlacedSame
<1> QED
  BY <1>1, <1>2, <1>3 DEF Next, Callback

LEMMA PlacedInit == ASSUME Init PROVE Placed
<1>1. Sent
  BY TypedInit DEF Typed
<1>2. at = 0 /\ place = 1 /\ parser = Initial
  BY DEF Init
<1>3. parser.state = "start_boundary" /\ parser.index = place - 1 /\ place \in Nat
  BY <1>2 DEF Initial
<1> QED
  BY <1>1, <1>2, <1>3, PlacedBegin DEF Placed

\* The part that the waiting calls are about.
PartOf == IF Closing THEN at - 1 ELSE at

\* A byte within a part leaves the part at hand, and one outside leads at most into the first.
LEMMA PartKept ==
    ASSUME Typed, Placed, Parse
    PROVE  /\ InData => PartOf' = PartOf /\ PartOf = at
           /\ ~InData => at' = at \/ (at = 0 /\ at' = 1)
<1>1. InData <=> parser.state \in DataStates
  BY ParsePhase
<1>2. ~Closing
  <2>1. calls = <<>>
    BY ParseReads
  <2> QED
    BY <2>1 DEF Closing
<1>3. Sent /\ Where /\ Advance
  BY ParseReads DEF Typed
<1>4. Len(form) \in Nat /\ Len(form) > 0 /\ at \in Nat
  <2>1. Len(form) \in Nat /\ Len(form) > 0
    BY <1>3, FormTyped
  <2> QED
    BY <1>3, <2>1 DEF Where
<1>5. CASE parser.state \in DataStates
  <2>1. CASE More
    BY <1>2, <2>1 DEF More, PartOf
  <2>2. CASE Ended
    <3>1. at' = at + 1 /\ Closing'
      BY <2>2 DEF Ended
    <3>2. PartOf' = at
      BY <1>4, <3>1 DEF PartOf
    <3> QED
      BY <1>1, <1>2, <1>5, <3>2 DEF PartOf
  <2>3. PartOf = at
    BY <1>2 DEF PartOf
  <2> QED
    BY <1>1, <1>5, <2>1, <2>2, <2>3, DataMoves
<1>6. CASE parser.state \notin DataStates
  <2>1. ASSUME at \in 1 .. Len(form) PROVE at' = at
    <3> DEFINE m == HeaderLength(form[at])
               k == Len(Stream(form[at]))
    <3>1. place \in Nat /\ m \in {13, 21} /\ Len(PartBytes(at)) = m + k /\ k \in Nat /\ k > 2
      BY <2>1, NextOf
    <3>2. place <= m + 1
      <4> HIDE DEF m
      <4>1. ~(place > m + 1)
        BY <1>6, <2>1 DEF Placed, PlacedAt, m
      <4> QED
        BY <3>1, <4>1
    <3>3. place # Len(PartBytes(at))
      <4> HIDE DEF m, k
      <4> QED
        BY <3>1, <3>2
    <3> QED
      BY <1>3, <3>3, AdvanceCases
  <2>2. ASSUME at = 0 PROVE at' \in {0, 1}
    BY <1>3, <2>2, AdvanceCases
  <2>3. ASSUME at = Len(form) + 1 PROVE at' = at
    <3>1. ~(at <= Len(form))
      BY <1>4, <2>3
    <3> QED
      BY <1>3, <3>1, AdvanceCases
  <2>4. at = 0 \/ at \in 1 .. Len(form) \/ at = Len(form) + 1
    BY <1>3, <1>4 DEF Where
  <2>5. ~InData
    BY <1>1, <1>6
  <2>6. at' = at \/ (at = 0 /\ at' = 1)
    BY <2>1, <2>2, <2>3, <2>4
  <2> QED
    BY <2>5, <2>6, Zenon
<1> QED
  BY <1>5, <1>6

\* The end of a part is told after its part was left.
LEMMA ClosingPlace ==
    ASSUME Typed, Placed, Closing
    PROVE  at \in 2 .. Len(form) + 1
<1>1. Sent /\ Where
  BY DEF Typed
<1>2. Len(form) \in Nat /\ Len(form) > 0
  BY <1>1, FormTyped
<1>3. parser.state = "part_data_almost_end"
  <2>1. calls \in Seq(Calls) /\ Len(calls) \in {1, 2} /\ CallsFit(parser.state, calls)
        /\ calls[1].on = "part_data_end"
    BY DEF Typed, Closing
  <2>2. 1 \in DOMAIN calls
    BY <2>1
  <2> QED
    BY <2>1, <2>2 DEF CallsFit
<1>4. /\ parser.state \notin DataStates
      /\ parser.state \notin {"start_boundary", "part_data_end", "part_data_final_hyphen", "end", "part_data_start"}
  BY <1>3 DEF DataStates
<1>5. at > 1 \/ (at \in 1 .. Len(form) /\ place \in 3 .. HeaderLength(form[at]))
  <2>1. ~(at = 0) /\ ~(at = 1 /\ place \in {1, 2})
    BY <1>2, <1>4 DEF Placed, PlacedAt
  <2> QED
    BY <1>1, <1>2, <1>4, <2>1, Places DEF Where
<1>6. ~(at \in 1 .. Len(form) /\ place \in 3 .. HeaderLength(form[at]))
  <2> SUFFICES ASSUME at \in 1 .. Len(form), place \in 3 .. HeaderLength(form[at]) PROVE FALSE
    OBVIOUS
  <2>1. form[at] \in Parts /\ HeaderLength(form[at]) \in {13, 21}
    BY <1>1, FormTyped, HeaderBytesTyped
  <2> DEFINE m == HeaderLength(form[at])
  <2>2. place \in 3 .. m + 1
    <3> HIDE DEF m
    <3>1. m \in Nat /\ place \in 3 .. m
      BY <2>1 DEF m
    <3> QED
      BY <3>1
  <2>3. parser.state = HeaderState(form[at], place)
    BY <2>2 DEF Placed, PlacedAt
  <2> QED
    BY <1>3, <2>1, <2>2, <2>3, HeaderStateCases
<1> QED
  BY <1>1, <1>2, <1>5, <1>6 DEF Where

-----------------------------------------------------------------------------
(* What was read of the fields when the file comes *)

\* Neither field is set before its part, and the file comes third or is refused.
Fields ==
    running =>
    /\ ~InData /\ at <= 1 => sessionid = NoText /\ filename = NoText
    /\ ~InData /\ at <= 2 => NoText \in {sessionid, filename}
    /\ InData /\ PartOf <= 1 => /\ sessionid # NoText => parttype = "sessionid"
                                /\ filename # NoText => parttype = "filename"
    /\ InData /\ PartOf <= 2 =>
          parttype \in {"sessionid", "filename"} \/ NoText \in {sessionid, filename}
    /\ InData /\ parttype = "filedata" => NoText \notin {sessionid, filename}

LEMMA FieldsInit == ASSUME Init PROVE Fields
<1>1. sessionid = NoText /\ filename = NoText /\ parttype = "unknown"
  BY DEF Init
<1> QED
  BY <1>1 DEF Fields

LEMMA FieldsParse == ASSUME Typed, Placed, Fields, Parse PROVE Fields'
<1>1. (InData' <=> InData) /\ running /\ UNCHANGED <<parttype, sessionid, filename>>
  BY ParsePhase DEF Parse, st
<1>2. at \in Nat
  BY FormTyped DEF Typed, Where
<1>3. /\ InData => PartOf' = PartOf
      /\ ~InData => (at' <= 1 => at <= 1) /\ (at' <= 2 => at <= 2)
  <2>1. /\ InData => PartOf' = PartOf
        /\ ~InData => at' = at \/ (at = 0 /\ at' = 1)
    BY PartKept
  <2> QED
    BY <1>2, <2>1
<1> QED
  BY <1>1, <1>3 DEF Fields

\* A part that is ended was the second one at the latest, or all fields stay as they are.
LEMMA FieldsEnd ==
    ASSUME Typed, Placed, Fields, Made, calls[1].on = "part_data_end", parttype # "filedata",
           UNCHANGED <<sessionid, filename>>
    PROVE  Fields'
<1>1. InData /\ ~InData' /\ Closing /\ running /\ at' = at
  BY MadePhase DEF Typed, Made, input
<1>2. at \in Nat /\ at >= 2 /\ PartOf = at - 1
  <2>1. at \in 2 .. Len(form) + 1
    BY <1>1, ClosingPlace
  <2>2. Len(form) \in Nat
    BY FormTyped DEF Typed
  <2> QED
    BY <1>1, <2>1, <2>2 DEF PartOf
<1>3. ~(at' <= 1) /\ (at' <= 2 => PartOf <= 1)
  BY <1>1, <1>2
<1>4. PartOf <= 1 => NoText \in {sessionid, filename}
  BY <1>1 DEF Fields
<1> QED
  BY <1>1, <1>3, <1>4 DEF Fields

LEMMA FieldsKept == ASSUME Typed, Placed, Fields, [Next]_vars PROVE Fields'
<1>0. calls \in Seq(Calls)
  BY DEF Typed
<1>1. CASE Parse
  BY <1>1, FieldsParse
<1>2. CASE HeaderFieldCb \/ HeaderValueCb
  <2>1. Made /\ calls[1].on \in {"header_field", "header_value"}
    BY <1>0, <1>2, CalledBy, GoOnMakes DEF HeaderFieldCb, HeaderValueCb
  <2>2. ~InData /\ ~InData' /\ at' = at
    BY <2>1, MadePhase DEF Made, input
  <2>3. UNCHANGED <<running, sessionid, filename>>
    BY <1>2 DEF HeaderFieldCb, HeaderValueCb, GoOn
  <2> QED
    BY <2>2, <2>3 DEF Fields
<1>3. CASE DataBegin
  <2>1. Made /\ calls[1].on = "headers_complete"
    BY <1>0, <1>3, CalledBy, CallbackMakes DEF DataBegin, Callback
  <2>2. ~InData /\ InData' /\ running /\ ~Closing' /\ at' = at
    BY <2>1, MadePhase DEF Typed, Made, input
  <2>3. UNCHANGED <<parttype, sessionid, filename>>
        /\ (running' => parttype # "filedata" \/ NoText \notin {sessionid, filename})
    BY <1>3 DEF DataBegin, st, Respond
  <2>4. PartOf' = at
    BY <2>2 DEF PartOf
  <2> QED
    BY <2>2, <2>3, <2>4 DEF Fields
<1>4. CASE SetField
  <2>1. Made /\ calls[1].on = "part_data"
    BY <1>0, <1>4, CalledBy, GoOnMakes DEF SetField
  <2>2. InData /\ InData' /\ running /\ ~Closing /\ ~Closing' /\ at' = at
    BY <2>1, MadePhase DEF Typed, Made, input
  <2>3. UNCHANGED parttype /\ parttype # "filedata"
        /\ (parttype # "sessionid" => UNCHANGED sessionid)
        /\ (parttype # "filename" => UNCHANGED filename)
    BY <1>4 DEF SetField
  <2>4. PartOf' = PartOf
    BY <2>2 DEF PartOf
  <2> QED
    BY <2>2, <2>3, <2>4 DEF Fields
<1>5. CASE WriteTemp
  <2>1. Made /\ calls[1].on = "part_data"
    BY <1>0, <1>5, CalledBy, CallbackMakes DEF WriteTemp, Callback
  <2>2. InData /\ InData' /\ running /\ ~Closing /\ ~Closing' /\ at' = at
    BY <2>1, MadePhase DEF Typed, Made, input
  <2>3. UNCHANGED <<parttype, sessionid, filename>>
    BY <1>5 DEF WriteTemp
  <2>4. PartOf' = PartOf
    BY <2>2 DEF PartOf
  <2> QED
    BY <2>2, <2>3, <2>4 DEF Fields
<1>6. CASE EndSession \/ EndOther
  <2>1. Made /\ calls[1].on = "part_data_end"
    BY <1>0, <1>6, CalledBy, CallbackMakes DEF EndSession, EndOther, Callback
  <2>2. UNCHANGED <<sessionid, filename>> /\ parttype # "filedata"
    BY <1>6 DEF EndSession, EndOther
  <2> QED
    BY <2>1, <2>2, FieldsEnd
<1>7. CASE EndFile
  <2>1. ~running'
    BY <1>7 DEF EndFile, Respond
  <2> QED
    BY <2>1 DEF Fields
<1>8. CASE FinishCb \/ UNCHANGED vars
  <2>1. UNCHANGED <<at, running, parser, calls, parttype, sessionid, filename>>
    BY <1>8 DEF FinishCb, vars, st, input
  <2> QED
    BY <2>1 DEF Fields, InData, Opening, Closing, PartOf
<1> QED
  BY <1>1, <1>2, <1>3, <1>4, <1>5, <1>6, <1>7, <1>8 DEF Next

\* What the file is taken for when its end is told is the file.
LEMMA FileIsLast ==
    ASSUME Typed, Placed, Fields, Closing, parttype = "filedata"
    PROVE  Content(form[at - 1]) = body
<1>1. Sent /\ running
  BY DEF Typed, Closing
<1>2. at \in 2 .. Len(form) + 1
  BY ClosingPlace
<1>3. ~(PartOf <= 2)
  BY <1>1 DEF Fields, InData
<1>4. Len(form) \in 1 .. 3 /\ form[Len(form)] = "filedata"
  BY <1>1, FormTyped
<1>5. at - 1 = Len(form)
  <2>1. PartOf = at - 1
    BY DEF PartOf
  <2> QED
    BY <1>2, <1>3, <1>4, <2>1
<1>6. form[at - 1] = "filedata"
  BY <1>4, <1>5
<1> QED
  BY <1>6 DEF Content

-----------------------------------------------------------------------------
(* What is written is what was read *)

LEMMA Regrouped ==
    ASSUME NEW x \in Seq(Bytes), NEW y \in Seq(Bytes), NEW z \in Seq(Bytes)
    PROVE  (x \o y) \o z = x \o (y \o z)
BY ConcatAssociative

LEMMA PassedTail ==
    ASSUME NEW waiting \in Seq(Calls), Len(waiting) \in {1, 2}, NEW p \in Parser
    PROVE  /\ waiting[1].data \in Seq(Bytes) /\ Passed(Tail(waiting), p) \in Seq(Bytes)
           /\ Passed(waiting, p) = waiting[1].data \o Passed(Tail(waiting), p)
<1> DEFINE more == Tail(waiting)
           rest == Pending(more)
           slice == waiting[1].data
           chunk == p.chunk
           held == SubSeq(Delimiter, 1, Held(p))
<1>1. more \in Seq(Calls) /\ Len(more) \in {0, 1}
      /\ (Len(waiting) = 1 => Len(more) = 0)
      /\ (Len(waiting) = 2 => Len(more) = 1 /\ more[1] = waiting[2])
  BY TailRest
<1>2. slice \in Seq(Bytes)
  <2>1. waiting[1] \in Calls
    OBVIOUS
  <2> QED
    BY <2>1, CallFields
<1>3. rest \in Seq(Bytes) /\ chunk \in Seq(Bytes) /\ held \in Seq(Bytes)
  BY <1>1, PendingTyped, ChunkTyped, HeldTyped
<1>4. Pending(waiting) = slice \o rest
  <2>1. ASSUME Len(waiting) = 1 PROVE Pending(waiting) = slice \o rest
    <3> HIDE DEF more
    <3>0. Len(more) = 0
      BY <1>1, <2>1
    <3>1. rest = <<>> /\ Pending(waiting) = slice
      BY <2>1, <3>0 DEF Pending
    <3> HIDE DEF slice, rest
    <3> QED
      BY <1>2, <3>1, ConcatEmptySeq
  <2>2. ASSUME Len(waiting) = 2 PROVE Pending(waiting) = slice \o rest
    <3> HIDE DEF more
    <3>0. Len(more) = 1 /\ more[1] = waiting[2]
      BY <1>1, <2>2
    <3>1. rest = waiting[2].data /\ Pending(waiting) = slice \o waiting[2].data
      BY <2>2, <3>0 DEF Pending
    <3> QED
      BY <3>1
  <2> QED
    BY <2>1, <2>2
<1> HIDE DEF more, rest, slice, chunk, held
<1>5. ((slice \o rest) \o chunk) \o held = slice \o ((rest \o chunk) \o held)
      /\ (rest \o chunk) \o held \in Seq(Bytes)
  <2>1. (slice \o rest) \o chunk = slice \o (rest \o chunk)
    BY <1>2, <1>3, Regrouped, Zenon
  <2>2. rest \o chunk \in Seq(Bytes)
    BY <1>3
  <2>3. (slice \o (rest \o chunk)) \o held = slice \o ((rest \o chunk) \o held)
    <3> DEFINE both == rest \o chunk
    <3> HIDE DEF both
    <3>1. both \in Seq(Bytes) /\ slice \in Seq(Bytes) /\ held \in Seq(Bytes)
      BY <1>2, <1>3, <2>2 DEF both
    <3>2. (slice \o both) \o held = slice \o (both \o held)
      BY <3>1, Regrouped, Zenon
    <3> QED
      BY <3>2 DEF both
  <2>4. (rest \o chunk) \o held \in Seq(Bytes)
    BY <1>3, <2>2
  <2> QED
    BY <2>1, <2>3, <2>4
<1>6. Passed(more, p) = (rest \o chunk) \o held
  BY DEF Passed, rest, chunk, held
<1>7. Passed(waiting, p) = ((slice \o rest) \o chunk) \o held
  BY <1>4 DEF Passed, chunk, held
<1> QED
  BY <1>2, <1>5, <1>6, <1>7 DEF more, slice

\* All of a delimiter but its last byte, cut back from what was read.
LEMMA CutBack ==
    ASSUME NEW written \in Seq(Bytes), NEW content \in Seq(Bytes),
           NEW h \in Nat, h + 1 = Len(Delimiter),
           NEW r \in Nat, r + 1 = Len(content \o Delimiter),
           written \o SubSeq(Delimiter, 1, h) = SubSeq(content \o Delimiter, 1, r)
    PROVE  written = content
<1> DEFINE n == Len(content)
           m == Len(written)
           s == content \o Delimiter
           d == SubSeq(Delimiter, 1, h)
           whole == SubSeq(s, 1, r)
<1>1. Delimiter \in Seq(Bytes) /\ Len(Delimiter) \in Nat
  BY DelimiterBytes, BytesTyped
<1>2. d \in Seq(Bytes) /\ Len(d) = h
  <2>1. h < Len(Delimiter)
    BY <1>1
  <2> QED
    BY <1>1, <2>1, PrefixGrows
<1>3. s \in Seq(Bytes) /\ Len(s) = n + (h + 1) /\ n \in Nat /\ m \in Nat
      /\ \A i \in 1 .. n : s[i] = content[i]
  <2>1. n \in Nat /\ m \in Nat
    OBVIOUS
  <2>2. s \in Seq(Bytes) /\ Len(s) = n + Len(Delimiter)
        /\ \A i \in 1 .. n + Len(Delimiter) : s[i] = IF i <= n THEN content[i] ELSE Delimiter[i - n]
    BY <1>1, ConcatProperties
  <2>3. Len(Delimiter) = h + 1
    OBVIOUS
  <2> HIDE DEF s, n, m
  <2> QED
    BY <1>1, <2>1, <2>2, <2>3
<1>4. whole \in Seq(Bytes) /\ Len(whole) = r /\ \A i \in 1 .. r : whole[i] = s[i]
  <2> HIDE DEF s
  <2>1. r < Len(s)
    BY <1>3 DEF s
  <2> QED
    BY <1>3, <2>1, PrefixGrows
<1>5. Len(written \o d) = m + h /\ \A i \in 1 .. m : (written \o d)[i] = written[i]
  BY <1>2
<1>6. written \o d = whole
  OBVIOUS
<1>7. r + 1 = Len(s)
  OBVIOUS
<1> HIDE DEF s, d, whole, n, m
<1>8. m = n /\ n <= r
  <2>1. r + 1 = n + (h + 1)
    BY <1>3, <1>7
  <2>2. m + h = r
    BY <1>4, <1>5, <1>6
  <2> QED
    BY <1>3, <2>1, <2>2
<1>9. \A i \in 1 .. n : written[i] = content[i]
  BY <1>3, <1>4, <1>5, <1>6, <1>8
<1> QED
  BY <1>8, <1>9, SeqEqual DEF m, n

\* What waits is what was read of the part at hand and is not written yet.
Streams ==
    /\ Opening => calls[1].data = <<>> /\ Passed(calls, parser) = SubSeq(Stream(form[at]), 1, ReadOf)
    /\ running /\ InData /\ ~Closing /\ parttype = "filedata" =>
          temp \o Passed(calls, parser) = SubSeq(Stream(form[at]), 1, ReadOf)
    /\ Closing /\ parttype = "filedata" => temp = Content(form[at - 1])

LEMMA StreamsInit == ASSUME Init PROVE Streams
<1>1. calls = <<>> /\ parttype = "unknown"
  BY DEF Init
<1> QED
  BY <1>1 DEF Streams, Opening, Closing

LEMMA SameStream ==
    ASSUME UNCHANGED <<form, body, at>>
    PROVE  Stream(form[at])' = Stream(form[at])
BY DEF Stream, Content

LEMMA OpeningParse ==
    ASSUME Typed, Parse, Opening'
    PROVE  parser.state = "part_data_start"
<1>1. PICK last : /\ parser' = Consume(parser, NextByte, last).parser
                  /\ calls' = Consume(parser, NextByte, last).calls
                  /\ running' = Consume(parser, NextByte, last).ok
  BY ParseReads
<1> DEFINE s == Consume(parser, NextByte, last)
<1>2. calls' = s.calls
  BY <1>1
<1>3. parser \in Parser /\ NextByte \in Bytes
  BY ParseReads DEF Typed
<1>4. CASE parser.state \in DataStates
  <2>1. InData'
    BY <1>4, ParsePhase
  <2> QED
    BY <2>1 DEF InData, Opening, Closing
<1>5. CASE parser.state \notin DataStates \cup {"part_data_start"}
  <2>1. Outside(s)
    BY <1>3, <1>5, OutsideStep
  <2>2. calls' \in Seq(Calls)
    BY TypedParse DEF Typed
  <2> HIDE DEF s
  <2>3. \A i \in DOMAIN calls' : calls'[i].on \in {"header_field", "header_value"}
    BY <1>2, <2>1 DEF Outside
  <2>4. 1 \in DOMAIN calls'
    BY <2>2 DEF Opening
  <2> QED
    BY <2>3, <2>4 DEF Opening
<1> QED
  BY <1>4, <1>5

\* One byte more of a part, and all of it with its delimiter.
LEMMA StreamsMore ==
    ASSUME Typed, Placed, Granting, Streams, Parse, parser.state \in DataStates, More
    PROVE  Streams'
<1> DEFINE s == Stream(form[at])
           r == ReadOf
           c == NextByte
           old == Passed(<<>>, parser)
<1>1. /\ InData /\ calls = <<>> /\ running /\ UNCHANGED <<form, body, parttype, temp>>
      /\ ~Opening' /\ ~Closing /\ ~Closing'
  <2>1. InData /\ calls = <<>> /\ running /\ UNCHANGED <<form, body, parttype, temp>>
    BY ParsePhase, ParseReads DEF st, files
  <2>2. ~Opening'
    BY OpeningParse DEF DataStates
  <2> QED
    BY <2>1, <2>2 DEF More, Closing
<1>2. at' = at /\ place' = place + 1 /\ Passed(calls', parser') = Append(old, c)
  BY DEF More
<1>3. at \in 1 .. Len(form) /\ place > HeaderLength(form[at]) + 1
  BY InDataPlace
<1>4. /\ place \in Nat /\ HeaderLength(form[at]) \in {13, 21} /\ form[at] \in Parts
      /\ r \in Nat /\ r < Len(s) /\ c = s[r + 1]
  <2>1. place > HeaderLength(form[at])
    <3>1. place \in Nat /\ HeaderLength(form[at]) \in {13, 21}
      BY <1>3, NextOf
    <3> QED
      BY <1>3, <3>1
  <2> QED
    BY <1>3, <2>1, NextOf
<1>5. s \in Seq(Bytes) /\ c \in Bytes /\ old \in Seq(Bytes)
  <2>1. parser \in Parser /\ c \in Bytes /\ Sent
    BY ParseReads DEF Typed
  <2>2. old \in Seq(Bytes)
    <3>1. Pending(<<>>) = <<>> /\ <<>> \in Seq(Bytes)
      BY DEF Pending
    <3> DEFINE chunk == parser.chunk
               held == SubSeq(Delimiter, 1, Held(parser))
    <3>2. chunk \in Seq(Bytes) /\ held \in Seq(Bytes)
      BY <2>1, ChunkTyped, HeldTyped
    <3>3. old = (<<>> \o chunk) \o held
      BY <3>1 DEF Passed
    <3> HIDE DEF chunk, held, old
    <3>4. <<>> \o chunk \in Seq(Bytes)
      BY <3>1, <3>2
    <3> QED
      BY <3>2, <3>3, <3>4
  <2> QED
    BY <1>4, <2>1, <2>2, StreamTyped
<1>6. ReadOf' = r + 1 /\ Stream(form[at])' = s
  <2>1. ReadOf' = place' - 1 - HeaderLength(form'[at'])
    BY DEF ReadOf
  <2>2. form'[at'] = form[at] /\ r = place - 1 - HeaderLength(form[at])
    BY <1>1, <1>2 DEF ReadOf
  <2> DEFINE n == HeaderLength(form[at])
  <2> HIDE DEF n, r
  <2>3. ReadOf' = place' - 1 - n /\ r = place - 1 - n /\ n \in Nat
    BY <1>4, <2>1, <2>2 DEF n
  <2>4. ReadOf' = r + 1
    BY <1>2, <1>4, <2>3
  <2> QED
    BY <1>1, <1>2, <2>4, SameStream
<1>7. SubSeq(s, 1, r + 1) = Append(SubSeq(s, 1, r), c)
  BY <1>4, <1>5, PrefixGrows
<1>8. ASSUME parttype = "filedata"
      PROVE  temp' \o Passed(calls', parser') = SubSeq(Stream(form[at])', 1, ReadOf')
  <2>1. temp \in Seq(Bytes)
    BY <1>1, <1>8 DEF Granting
  <2>2. temp \o old = SubSeq(s, 1, r)
    BY <1>1, <1>8 DEF Streams
  <2>3. temp \o Append(old, c) = Append(temp \o old, c)
    <3> HIDE DEF old, c
    <3>1. Append(old, c) = old \o <<c>> /\ <<c>> \in Seq(Bytes)
      BY <1>5, AppendIsConcat
    <3>2. temp \o old \in Seq(Bytes)
      BY <1>5, <2>1
    <3>3. Append(temp \o old, c) = (temp \o old) \o <<c>>
      BY <1>5, <3>2, AppendIsConcat
    <3>4. (temp \o old) \o <<c>> = temp \o (old \o <<c>>)
      BY <1>5, <2>1, <3>1, Regrouped
    <3> QED
      BY <3>1, <3>3, <3>4
  <2> HIDE DEF s, r, c, old
  <2> QED
    BY <1>1, <1>2, <1>6, <1>7, <2>2, <2>3
<1>9. parttype' = parttype
  BY <1>1
<1> QED
  BY <1>1, <1>8, <1>9 DEF Streams

LEMMA StreamsEnded ==
    ASSUME Typed, Placed, Granting, Streams, Parse, parser.state \in DataStates, Ended
    PROVE  Streams'
<1> DEFINE content == Content(form[at])
           r == ReadOf
           h == Held(parser)
<1>1. /\ InData /\ calls = <<>> /\ running /\ UNCHANGED <<form, body, parttype, temp>>
      /\ Closing' /\ ~Opening' /\ ~Closing
  <2>1. InData /\ calls = <<>> /\ running /\ UNCHANGED <<form, body, parttype, temp>>
    BY ParsePhase, ParseReads DEF st, files
  <2>2. Closing'
    BY DEF Ended
  <2> QED
    BY <2>1, <2>2 DEF Opening, Closing
<1>2. at' = at + 1 /\ r + 1 = Len(Stream(form[at])) /\ h + 1 = Len(Delimiter)
  BY DEF Ended
<1>3. at \in 1 .. Len(form) /\ place > HeaderLength(form[at]) + 1
  BY InDataPlace
<1>4. /\ form[at] \in Parts /\ r \in Nat
  <2>1. place > HeaderLength(form[at])
    <3>1. place \in Nat /\ HeaderLength(form[at]) \in {13, 21}
      BY <1>3, NextOf
    <3> QED
      BY <1>3, <3>1
  <2> QED
    BY <1>3, <2>1, NextOf
<1>5. Sent /\ parser \in Parser
  BY DEF Typed
<1>6. content \in Seq(Bytes) /\ h \in Nat
  BY <1>4, <1>5, ContentTyped, HeldTyped
<1>7. Passed(<<>>, parser) = SubSeq(Delimiter, 1, h)
  <2>1. Len(Delimiter) > 2 /\ Len(Delimiter) \in Nat
    BY DelimiterBytes, BytesTyped
  <2>2. h # 0
    <3> HIDE DEF h
    <3> QED
      BY <1>2, <1>6, <2>1
  <2>3. parser.state # "part_data"
    BY <1>5, <2>2, HeldTyped
  <2>4. parser.state \in {"part_data_almost_boundary", "part_data_boundary"}
    BY <2>3 DEF DataStates
  <2> QED
    BY <1>5, <2>4, HeldBack
<1>8. ASSUME parttype = "filedata" PROVE temp' = Content(form[at - 1])'
  <2>1. temp \in Seq(Bytes)
    BY <1>1, <1>8 DEF Granting
  <2>2. temp \o Passed(<<>>, parser) = SubSeq(content \o Delimiter, 1, r)
    BY <1>1, <1>8 DEF Streams, Stream
  <2>3. r + 1 = Len(content \o Delimiter)
    BY <1>2 DEF Stream
  <2>4. temp = content
    <3> HIDE DEF content, r, h
    <3>1. temp \o SubSeq(Delimiter, 1, h) = SubSeq(content \o Delimiter, 1, r)
      BY <1>7, <2>2
    <3> QED
      BY <1>2, <1>4, <1>6, <2>1, <2>3, <3>1, CutBack
  <2>5. Content(form[at - 1])' = content
    <3>1. at' - 1 = at
      BY <1>2, <1>3
    <3> QED
      BY <1>1, <3>1 DEF Content
  <2> QED
    BY <1>1, <2>4, <2>5
<1>9. parttype' = parttype
  BY <1>1
<1> QED
  BY <1>1, <1>8, <1>9 DEF Streams

LEMMA StreamsBegun ==
    ASSUME Typed, Placed, Streams, Parse, parser.state = "part_data_start"
    PROVE  Streams'
<1> DEFINE s == Stream(form[at])
           c == NextByte
           n == HeaderLength(form[at])
<1>1. Begun /\ at \in 1 .. Len(form) /\ place = n + 1
  BY OpenMoves, OpenPlace
<1>2. Opening' /\ ~InData' /\ ~Closing' /\ UNCHANGED <<form, body>>
  <2>1. Opening' /\ UNCHANGED <<form, body>>
    BY <1>1, ParseReads DEF Begun
  <2>2. ~InData'
    BY ParsePhase DEF DataStates
  <2> QED
    BY <2>1, <2>2 DEF InData
<1>3. /\ at' = at /\ place' = place + 1 /\ ReadOf = 0
      /\ calls'[1].data = <<>> /\ Passed(calls', parser') = <<c>>
  BY <1>1 DEF Begun
<1>4. /\ place \in Nat /\ n \in {13, 21} /\ form[at] \in Parts
      /\ Len(s) \in Nat /\ Len(s) > 2 /\ c = s[0 + 1]
  <2>1. place \in Nat /\ n \in {13, 21}
    BY <1>1, NextOf
  <2>2. place > n
    <3> HIDE DEF n
    <3> QED
      BY <1>1, <2>1
  <2> QED
    BY <1>1, <1>3, <2>2, NextOf
<1>5. s \in Seq(Bytes) /\ c \in Bytes
  <2>1. Sent
    BY DEF Typed
  <2> QED
    BY <1>4, <2>1, StreamTyped, ParseReads
<1>6. ReadOf' = 1
  <2>1. ReadOf' = place' - 1 - HeaderLength(form'[at'])
    BY DEF ReadOf
  <2>2. form'[at'] = form[at]
    BY <1>2, <1>3
  <2> HIDE DEF n
  <2>3. ReadOf' = place' - 1 - n
    BY <2>1, <2>2 DEF n
  <2> QED
    BY <1>1, <1>3, <1>4, <2>3
<1>7. Stream(form[at])' = s
  BY <1>2, <1>3, SameStream
<1>8. SubSeq(s, 1, 1) = <<c>>
  <2> HIDE DEF s, c
  <2>1. SubSeq(s, 1, 0 + 1) = Append(SubSeq(s, 1, 0), s[0 + 1])
    <3>1. 0 \in Nat /\ 0 < Len(s)
      BY <1>4
    <3> QED
      BY <1>5, <3>1, PrefixGrows
  <2>2. SubSeq(s, 1, 0) = <<>>
    BY SubSeqEmpty
  <2>3. Append(<<>>, c) = <<c>>
    BY <1>5
  <2>4. 0 + 1 = 1
    OBVIOUS
  <2> QED
    BY <1>4, <2>1, <2>2, <2>3, <2>4
<1>9. Passed(calls', parser') = SubSeq(Stream(form[at])', 1, ReadOf')
  BY <1>3, <1>6, <1>7, <1>8
<1> QED
  BY <1>2, <1>3, <1>9 DEF Streams

LEMMA StreamsParse == ASSUME Typed, Placed, Granting, Streams, Parse PROVE Streams'
<1>1. CASE parser.state \in DataStates
  BY <1>1, DataMoves, StreamsMore, StreamsEnded
<1>2. CASE parser.state = "part_data_start"
  BY <1>2, StreamsBegun
<1>3. CASE parser.state \notin DataStates \cup {"part_data_start"}
  <2>1. ~InData' /\ ~Opening'
    BY <1>3, ParsePhase, OpeningParse
  <2> QED
    BY <2>1 DEF Streams, InData
<1> QED
  BY <1>1, <1>2, <1>3

\* A callback that leaves its part, or stops the parser.
LEMMA StreamsOut ==
    ASSUME Typed, Made, ~InData' \/ ~running' \/ parttype' # "filedata"
    PROVE  Streams'
<1>1. ~Opening' /\ ~Closing'
  BY MadePhase
<1> QED
  BY <1>1 DEF Streams

\* A callback that writes its slice.
LEMMA StreamsWritten ==
    ASSUME Typed, Placed, Made, GoOn, calls[1].on \in {"headers_complete", "part_data"},
           NEW before, before \in Seq(Bytes), temp' = before \o calls[1].data,
           before \o Passed(calls, parser) = SubSeq(Stream(form[at]), 1, ReadOf)
    PROVE  Streams'
<1> DEFINE slice == calls[1].data
           more == Passed(Tail(calls), parser)
<1>1. ~Opening' /\ ~Closing'
  BY MadePhase
<1>2. calls \in Seq(Calls) /\ Len(calls) \in {1, 2} /\ parser \in Parser
  BY DEF Typed, Made
<1>3. slice \in Seq(Bytes) /\ more \in Seq(Bytes) /\ Passed(calls, parser) = slice \o more
  BY <1>2, PassedTail
<1>4. UNCHANGED <<at, place, parser, form, body>> /\ calls' = Tail(calls)
  BY DEF Made, GoOn, input
<1>5. (before \o slice) \o more = before \o (slice \o more)
  <2> HIDE DEF slice, more
  <2> QED
    BY <1>3, Regrouped
<1>6. Stream(form[at])' = Stream(form[at]) /\ ReadOf' = ReadOf
  BY <1>4, SameStream DEF ReadOf
<1>7. Passed(calls', parser') = more
  BY <1>4
<1>8. temp' \o Passed(calls', parser') = SubSeq(Stream(form[at])', 1, ReadOf')
  <2>1. temp' = before \o slice
    OBVIOUS
  <2>2. before \o (slice \o more) = SubSeq(Stream(form[at]), 1, ReadOf)
    BY <1>3
  <2> HIDE DEF slice, more
  <2> QED
    BY <1>5, <1>6, <1>7, <2>1, <2>2
<1> QED
  BY <1>1, <1>8 DEF Streams

LEMMA StreamsKept == ASSUME Typed, Placed, Granting, Streams, [Next]_vars PROVE Streams'
<1>0. calls \in Seq(Calls)
  BY DEF Typed
<1>1. CASE Parse
  BY <1>1, StreamsParse
<1>2. CASE HeaderFieldCb \/ HeaderValueCb
  <2>1. Made /\ calls[1].on \in {"header_field", "header_value"}
    BY <1>0, <1>2, CalledBy, GoOnMakes DEF HeaderFieldCb, HeaderValueCb
  <2> QED
    BY <2>1, MadePhase, StreamsOut
<1>3. CASE DataBegin
  <2>1. Made /\ calls[1].on = "headers_complete" /\ parttype' = parttype
    BY <1>0, <1>3, CalledBy, CallbackMakes DEF DataBegin, Callback, st
  <2>2. CASE parttype # "filedata" \/ ~running'
    BY <2>1, <2>2, StreamsOut
  <2>3. CASE temp' = <<>> /\ GoOn
    <3>1. Opening
      BY <2>1, MadePhase
    <3>2. calls[1].data = <<>> /\ Passed(calls, parser) = SubSeq(Stream(form[at]), 1, ReadOf)
      BY <3>1 DEF Streams
    <3>3. calls \in Seq(Calls) /\ Len(calls) \in {1, 2} /\ parser \in Parser
      BY <2>1 DEF Typed, Made
    <3>4. Passed(calls, parser) \in Seq(Bytes)
      <4>1. /\ calls[1].data \in Seq(Bytes) /\ Passed(Tail(calls), parser) \in Seq(Bytes)
            /\ Passed(calls, parser) = calls[1].data \o Passed(Tail(calls), parser)
        BY <3>3, PassedTail
      <4> QED
        BY <4>1
    <3>5. <<>> \o Passed(calls, parser) = Passed(calls, parser) /\ <<>> \o calls[1].data = <<>>
          /\ <<>> \in Seq(Bytes)
      BY <3>2, <3>4, ConcatEmptySeq
    <3>6. temp' = <<>> \o calls[1].data
      BY <2>3, <3>5
    <3>7. <<>> \o Passed(calls, parser) = SubSeq(Stream(form[at]), 1, ReadOf)
      BY <3>2, <3>5
    <3> QED
      BY <2>1, <2>3, <3>5, <3>6, <3>7, StreamsWritten
  <2> QED
    BY <1>3, <2>2, <2>3 DEF DataBegin, Respond
<1>4. CASE SetField
  <2>1. Made /\ parttype' # "filedata"
    BY <1>0, <1>4, CalledBy, GoOnMakes DEF SetField
  <2> QED
    BY <2>1, StreamsOut
<1>5. CASE WriteTemp
  <2>1. Made /\ calls[1].on = "part_data" /\ data = calls[1].data
    BY <1>0, <1>5, CalledBy, CallbackMakes DEF WriteTemp, Callback
  <2>2. InData /\ ~Closing /\ running /\ parttype = "filedata"
    BY <1>5, <2>1, MadePhase DEF Typed, Made, WriteTemp
  <2>3. CASE temp' = temp \o data /\ GoOn
    <3>1. temp \in Seq(Bytes)
      BY <2>2 DEF Granting
    <3>2. temp \o Passed(calls, parser) = SubSeq(Stream(form[at]), 1, ReadOf)
      BY <2>2 DEF Streams
    <3> QED
      BY <2>1, <2>3, <3>1, <3>2, StreamsWritten
  <2>4. CASE ~running'
    BY <2>1, <2>4, StreamsOut
  <2> QED
    BY <1>5, <2>3, <2>4 DEF WriteTemp, Respond
<1>6. CASE EndSession \/ EndFile \/ EndOther
  <2>1. Made /\ calls[1].on = "part_data_end"
    BY <1>0, <1>6, CalledBy, CallbackMakes DEF EndSession, EndFile, EndOther, Callback
  <2> QED
    BY <2>1, MadePhase, StreamsOut
<1>7. CASE FinishCb \/ UNCHANGED vars
  <2>1. UNCHANGED <<at, place, running, parser, calls, parttype, temp, form, body>>
    BY <1>7 DEF FinishCb, vars, st, input, files, ghosts
  <2>2. UNCHANGED <<Opening, Closing, InData, ReadOf>>
    BY <2>1 DEF Opening, Closing, InData, ReadOf
  <2>3. Stream(form[at])' = Stream(form[at]) /\ Content(form[at - 1])' = Content(form[at - 1])
    BY <2>1 DEF Stream, Content
  <2> QED
    BY <2>1, <2>2, <2>3 DEF Streams
<1> QED
  BY <1>1, <1>2, <1>3, <1>4, <1>5, <1>6, <1>7 DEF Next

-----------------------------------------------------------------------------
(* What is stored *)

Stored ==
    /\ running => file = OldFile /\ response = "none"
    /\ \/ file \in {OldFile, NoFile} /\ response # "success"
       \/ file = body /\ response = "success"
       \/ "read" \in failed /\ response = "success" /\ IsPrefix(file, body)
       \/ "unlink" \in failed /\ response # "success" /\ IsPrefix(file, body)

LEMMA StoredKept ==
    ASSUME Typed, Placed, Fields, Streams, Stored, [Next]_vars
    PROVE  Stored'
<1>0. calls \in Seq(Calls)
  BY DEF Typed
<1>1. CASE Parse
  <2>1. running /\ UNCHANGED <<file, response, body>>
    BY <1>1 DEF Parse, files
  <2> QED
    BY <2>1 DEF Stored
<1>2. CASE HeaderFieldCb \/ HeaderValueCb \/ SetField \/ EndOther
  <2>1. UNCHANGED <<running, file, response, body, failed>>
    BY <1>0, <1>2, CalledBy DEF HeaderFieldCb, HeaderValueCb, SetField, EndOther, GoOn
  <2> QED
    BY <2>1 DEF Stored
<1>3. CASE DataBegin \/ WriteTemp \/ EndSession
  <2>1. Made
    BY <1>0, <1>3, CallbackMakes DEF Callback
  <2>2. running /\ UNCHANGED <<file, body>>
    BY <1>3, <2>1 DEF Typed, Made, DataBegin, WriteTemp, EndSession
  <2>3. UNCHANGED <<running, response>> \/ (~running' /\ response' = "failure")
    BY <1>3 DEF DataBegin, WriteTemp, EndSession, GoOn, Respond
  <2> QED
    BY <2>2, <2>3 DEF Stored
<1>4. CASE EndFile
  <2>1. Made /\ calls[1].on = "part_data_end" /\ parttype = "filedata"
    BY <1>0, <1>4, CalledBy, CallbackMakes DEF EndFile, Callback
  <2>2. Closing /\ running /\ body' = body
    BY <2>1, MadePhase DEF Typed, Made
  <2>3. temp = body /\ file = OldFile
    BY <2>1, <2>2, FileIsLast DEF Streams, Stored
  <2>4. \/ response' = "success" /\ file' = temp
        \/ response' = "success" /\ PartCopied /\ "read" \in failed'
        \/ response' = "failure" /\ PartCopied /\ "unlink" \in failed'
        \/ response' = "failure" /\ file' \in {file, NoFile}
    BY <1>4 DEF EndFile, Respond, Copied
  <2>5. ~running'
    BY <1>4 DEF EndFile, Respond
  <2>6. body \in Seq(Bytes)
    BY BodiesAssumption DEF Typed, Sent
  <2>7. PartCopied => IsPrefix(file', body)
    BY <2>3, <2>6 DEF PartCopied, IsPrefix
  <2> QED
    BY <2>2, <2>3, <2>4, <2>5, <2>7 DEF Stored
<1>5. CASE FinishCb \/ UNCHANGED vars
  <2>1. UNCHANGED <<running, file, response, body, failed>>
    BY <1>5 DEF FinishCb, vars, files, ghosts
  <2> QED
    BY <2>1 DEF Stored
<1> QED
  BY <1>1, <1>2, <1>3, <1>4, <1>5 DEF Next

\* What holds between any two steps of the program.
Kept == Typed /\ Placed /\ Granting /\ Fields /\ Streams /\ Stored

LEMMA KeptAlways == Spec => []Kept
<1>1. Init => Kept
  <2> SUFFICES ASSUME Init PROVE Kept
    OBVIOUS
  <2>1. Granting
    BY DEF Init, Granting, InData, Opening, Closing, Initial, DataStates
  <2>2. Stored
    <3>1. running = TRUE /\ file = OldFile /\ response = "none"
      BY DEF Init
    <3> QED
      BY <3>1 DEF Stored
  <2> QED
    BY <2>1, <2>2, TypedInit, PlacedInit, FieldsInit, StreamsInit DEF Kept
<1>2. Kept /\ [Next]_vars => Kept'
  BY TypedKept, PlacedKept, GrantingKept, FieldsKept, StreamsKept, StoredKept DEF Kept
<1> QED
  BY <1>1, <1>2, PTL DEF Spec

\* A file that is reported as stored is the one that was sent, byte for byte, in
\* whatever pieces it was read and however much of it looks like a delimiter: the
\* bytes written, waiting and held back are always the ones read of the part.  The
\* exception is the copy that could not be read back, which filecopy does not notice.
THEOREM StoredWhole == Spec => []StoredIsSent
<1>1. Kept => StoredIsSent
  BY DEF Kept, Stored, StoredIsSent
<1> QED
  BY <1>1, KeptAlways, PTL

\* The file is replaced as a whole and that is reported, or it is left alone, or it
\* is removed as the copy failed; only where the copy could not be read back, or not
\* be removed, is there a part, and one that begins as what was sent.
THEOREM StoredOrNot == Spec => []AllOrNothing
<1>1. Kept => AllOrNothing
  BY DEF Kept, Stored, AllOrNothing
<1> QED
  BY <1>1, KeptAlways, PTL

-----------------------------------------------------------------------------
(* The names of the parts *)

\* A slice of a header's value that holds a name: the name is one of a part.
ValueOK(slice) == Len(slice) >= 2 /\ slice[1] = "form-data" => slice[2] \in Parts

Named1 == Len(parser.chunk) = 1 /\ parser.chunk[1] = "form-data"

Values ==
    /\ parser.state = "header_value" => ValueOK(parser.chunk)
    /\ parser.state = "header_value" /\ Named1 => at \in 1 .. Len(form) /\ place = 9
    /\ \A i \in DOMAIN calls : calls[i].on = "header_value" => ValueOK(calls[i].data)

LEMMA FormDataPlace ==
    ASSUME NEW part \in Parts, NEW k \in 3 .. HeaderLength(part), HeaderBytes(part)[k] = "form-data"
    PROVE  k = 8
<1>0. "form-data" \notin Parts \cup {CR, LF, Hyphen, Colon, Space, "Content", "Disposition", "Type", "octets"}
  BY DEF Parts, CR, LF, Hyphen, Colon, Space
<1>1. CASE part # "filedata"
  <2>1. k \in 3 .. 13
    BY <1>1 DEF HeaderLength
  <2>2. k \in {3, 4, 5, 6, 7} \/ k = 8 \/ k \in {9, 10, 11, 12, 13}
    BY <2>1
  <2> DEFINE bytes == HeaderBytes(part)
  <2>0. /\ bytes[3] = "Content" /\ bytes[4] = Hyphen /\ bytes[5] = "Disposition"
        /\ bytes[6] = Colon /\ bytes[7] = Space /\ bytes[9] = part /\ bytes[10] = CR
        /\ bytes[11] = LF /\ bytes[12] = CR /\ bytes[13] = LF
    BY <1>1, PlainHeader
  <2> HIDE DEF bytes
  <2>3. \A j \in {3, 4, 5, 6, 7} : bytes[j] # "form-data"
    BY <1>0, <2>0
  <2>4. \A j \in {9, 10, 11, 12, 13} : bytes[j] # "form-data"
    BY <1>0, <2>0
  <2> QED
    BY <2>2, <2>3, <2>4 DEF bytes
<1>2. CASE part = "filedata"
  <2>1. k \in 3 .. 21
    BY <1>2 DEF HeaderLength
  <2>2. \/ k \in {3, 4, 5, 6, 7} \/ k = 8 \/ k \in {9, 10, 11, 12, 13}
        \/ k \in {14, 15, 16, 17} \/ k \in {18, 19, 20, 21}
    BY <2>1
  <2> DEFINE bytes == HeaderBytes("filedata")
  <2>0. /\ bytes[3] = "Content" /\ bytes[4] = Hyphen /\ bytes[5] = "Disposition"
        /\ bytes[6] = Colon /\ bytes[7] = Space
        /\ bytes[9] = "filedata" /\ bytes[10] = CR /\ bytes[11] = LF
        /\ bytes[12] = "Content" /\ bytes[13] = Hyphen /\ bytes[14] = "Type"
        /\ bytes[15] = Colon /\ bytes[16] = Space /\ bytes[17] = "octets"
        /\ bytes[18] = CR /\ bytes[19] = LF /\ bytes[20] = CR /\ bytes[21] = LF
    BY FileHeader
  <2> HIDE DEF bytes
  <2>3. \A j \in {3, 4, 5, 6, 7} : bytes[j] # "form-data"
    BY <1>0, <2>0
  <2>4. \A j \in {9, 10, 11, 12, 13} : bytes[j] # "form-data"
    <3>1. "filedata" # "form-data"
      OBVIOUS
    <3> QED
      BY <1>0, <2>0, <3>1
  <2>5. \A j \in {14, 15, 16, 17} : bytes[j] # "form-data"
    BY <1>0, <2>0
  <2>6. \A j \in {18, 19, 20, 21} : bytes[j] # "form-data"
    BY <1>0, <2>0
  <2> QED
    BY <1>2, <2>2, <2>3, <2>4, <2>5, <2>6 DEF bytes
<1> QED
  BY <1>1, <1>2

\* A value is read within a header.
LEMMA ValuePlace ==
    ASSUME Typed, Placed, Parse, parser.state \in {"header_value", "header_value_start"}
    PROVE  /\ at \in 1 .. Len(form) /\ at' = at /\ place' = place + 1 /\ form[at] \in Parts
           /\ place \in 3 .. HeaderLength(form[at]) /\ NextByte = HeaderBytes(form[at])[place]
<1> DEFINE n == HeaderLength(form[at])
           m == Len(Stream(form[at]))
<1>1. Sent /\ Where /\ Advance
  BY ParseReads DEF Typed
<1>2. /\ parser.state \notin DataStates
      /\ parser.state \notin {"start_boundary", "part_data_almost_end", "part_data_end",
                              "part_data_final_hyphen", "end", "part_data_start"}
  BY DEF DataStates
<1>3. Len(form) \in Nat /\ Len(form) > 0
  BY <1>1, FormTyped
<1>4. at \in 1 .. Len(form) /\ place \in 3 .. n
  <2>1. /\ ~(at = 0) /\ ~(at = 1 /\ place \in {1, 2}) /\ ~(at > 1 /\ place = 1)
        /\ ~(at \in 2 .. Len(form) /\ place = 2)
    BY <1>1, <1>2, <1>3 DEF Placed, PlacedAt, Where
  <2>2. ~(at = Len(form) + 1 /\ place \in {2, 3})
    BY <1>2 DEF Placed, PlacedAt
  <2> QED
    BY <1>2, <2>1, <2>2, Places
<1>5. /\ form[at] \in Parts /\ n \in {13, 21} /\ place \in Nat
      /\ Len(PartBytes(at)) = n + m /\ m \in Nat /\ m > 2
  BY <1>4, NextOf
<1>6. place <= n /\ place # n + m
  <2> HIDE DEF n, m
  <2> QED
    BY <1>4, <1>5
<1>7. NextByte = HeaderBytes(form[at])[place]
  BY <1>4, <1>6, NextOf
<1>8. at' = at /\ place' = place + 1
  <2>1. place # Len(PartBytes(at)) /\ ~(at = Len(form) + 1)
    BY <1>3, <1>4, <1>5, <1>6
  <2> QED
    BY <1>1, <2>1, AdvanceCases
<1> QED
  BY <1>4, <1>5, <1>7, <1>8

\* A slice with one more byte.
LEMMA ValueGrows ==
    ASSUME NEW slice \in Seq(Bytes), NEW c \in Bytes, ValueOK(slice),
           Len(slice) = 1 /\ slice[1] = "form-data" => c \in Parts
    PROVE  /\ ValueOK(Append(slice, c))
           /\ Len(Append(slice, c)) = 1 => Len(slice) = 0 /\ Append(slice, c)[1] = c
<1> DEFINE n == Len(slice)
           more == Append(slice, c)
<1>1. n \in Nat /\ more \in Seq(Bytes) /\ Len(more) = n + 1 /\ more[n + 1] = c
      /\ \A i \in 1 .. n : more[i] = slice[i]
  BY AppendProperties
<1>2. (n >= 2 /\ slice[1] = "form-data" => slice[2] \in Parts)
      /\ (n = 1 /\ slice[1] = "form-data" => c \in Parts)
  BY DEF ValueOK
<1> HIDE DEF n, more
<1>3. Len(more) >= 2 /\ more[1] = "form-data" => more[2] \in Parts
  <2>1. CASE n = 0
    BY <1>1, <2>1
  <2>2. CASE n = 1
    BY <1>1, <1>2, <2>2
  <2>3. CASE n >= 2
    BY <1>1, <1>2, <2>3
  <2> QED
    BY <1>1, <2>1, <2>2, <2>3
<1>4. Len(more) = 1 => n = 0 /\ more[1] = c
  <2> DEFINE k == Len(more)
  <2>0. n \in Nat /\ k = n + 1
    BY <1>1
  <2> HIDE DEF k
  <2>1. k = 1 => n = 0 /\ n + 1 = 1
    BY <2>0
  <2>2. \A i : i = n + 1 => more[i] = c
    BY <1>1
  <2>3. n + 1 = 1 => more[1] = c
    BY <2>2
  <2> QED
    BY <2>1, <2>3 DEF k
<1>5. ValueOK(more)
  BY <1>3 DEF ValueOK
<1> QED
  BY <1>4, <1>5 DEF n, more

LEMMA ValuesParse == ASSUME Typed, Placed, Values, Parse PROVE Values'
<1> DEFINE c == NextByte
           chunk == parser.chunk
           more == Append(chunk, c)
           inValue == parser.state \in {"header_value", "header_value_start"}
<1>1. PICK last : /\ parser' = Consume(parser, c, last).parser
                  /\ calls' = Consume(parser, c, last).calls
                  /\ running' = Consume(parser, c, last).ok
  BY ParseReads
<1> DEFINE s == Consume(parser, c, last)
<1>2. parser \in Parser /\ c \in Bytes /\ UNCHANGED form
  BY ParseReads DEF Typed
<1>3. ValueTurns(parser, c, s)
  BY <1>2, ValueStep
<1>4. s.parser = parser' /\ s.calls = calls'
  BY <1>1
<1>5. chunk \in Seq(Bytes) /\ (parser.state = "header_value_start" => chunk = <<>>)
  BY <1>2 DEF Parser, MarkStates
<1> HIDE DEF s
<1>6. /\ parser'.state = "header_value" => inValue /\ parser'.chunk \in {<<>>, more}
      /\ \A i \in DOMAIN calls' : calls'[i].on = "header_value" =>
            inValue /\ calls'[i].data \in {chunk, more}
  BY <1>3, <1>4 DEF ValueTurns
<1>7. ASSUME inValue
      PROVE  /\ ValueOK(chunk) /\ ValueOK(more) /\ ValueOK(<<>>)
             /\ Len(more) = 1 /\ more[1] = "form-data" => at' \in 1 .. Len(form) /\ place' = 9
             /\ Len(<<>>) # 1
  <2>1. /\ at \in 1 .. Len(form) /\ at' = at /\ place' = place + 1 /\ form[at] \in Parts
        /\ place \in 3 .. HeaderLength(form[at]) /\ c = HeaderBytes(form[at])[place]
    BY <1>7, ValuePlace
  <2>2. ValueOK(<<>>) /\ Len(<<>>) = 0
    BY DEF ValueOK
  <2>3. ValueOK(chunk)
    BY <1>5, <1>7, <2>2 DEF Values
  <2>4. Len(chunk) = 1 /\ chunk[1] = "form-data" => c \in Parts
    <3> SUFFICES ASSUME Len(chunk) = 1, chunk[1] = "form-data" PROVE c \in Parts
      OBVIOUS
    <3>1. chunk # <<>>
      BY <2>2
    <3>2. place = 9
      BY <1>5, <1>7, <3>1 DEF Values, Named1
    <3>3. HeaderBytes(form[at])[9] = form[at]
      BY <2>1, PlainHeader, FileHeader
    <3> QED
      BY <2>1, <3>2, <3>3
  <2> HIDE DEF c, chunk
  <2>5. ValueOK(more) /\ (Len(more) = 1 => more[1] = c)
    BY <1>2, <1>5, <2>3, <2>4, ValueGrows
  <2>6. c = "form-data" => place' = 9
    <3>1. c = "form-data" => place = 8
      BY <2>1, FormDataPlace
    <3> QED
      BY <2>1, <3>1
  <2> QED
    BY <2>1, <2>2, <2>3, <2>5, <2>6
<1>8. parser'.state = "header_value" => ValueOK(parser'.chunk)
  <2> HIDE DEF more, chunk
  <2> QED
    BY <1>6, <1>7
<1>9. parser'.state = "header_value" /\ Named1' => at' \in 1 .. Len(form)' /\ place' = 9
  <2> HIDE DEF more, chunk
  <2>1. ASSUME parser'.state = "header_value", Len(parser'.chunk) = 1, parser'.chunk[1] = "form-data"
        PROVE  at' \in 1 .. Len(form) /\ place' = 9
    BY <1>6, <1>7, <2>1
  <2>2. form' = form
    BY <1>2
  <2> QED
    BY <2>1, <2>2 DEF Named1
<1>10. ASSUME NEW i \in DOMAIN calls', calls'[i].on = "header_value" PROVE ValueOK(calls'[i].data)
  <2> HIDE DEF more, chunk
  <2> QED
    BY <1>6, <1>7, <1>10
<1> QED
  BY <1>8, <1>9, <1>10 DEF Values

LEMMA ValuesKept == ASSUME Typed, Placed, Values, [Next]_vars PROVE Values'
<1>1. CASE Parse
  BY <1>1, ValuesParse
<1>2. CASE Callback
  <2>1. Made /\ calls \in Seq(Calls) /\ Len(calls) \in {1, 2}
    BY <1>2, CallbackMakes DEF Typed, Made
  <2>2. UNCHANGED <<at, place, parser, form>>
    BY <2>1 DEF Made, input
  <2>3. \A i \in DOMAIN calls' : \E j \in DOMAIN calls : calls'[i] = calls[j]
    <3>1. CASE calls' = <<>>
      BY <3>1
    <3>2. CASE calls' = Tail(calls)
      <4> DEFINE more == Tail(calls)
      <4>1. \A i \in DOMAIN more : calls[2] = more[i] /\ i = 1 /\ Len(calls) = 2
        BY <2>1, TailRest
      <4> HIDE DEF more
      <4>2. Len(calls) = 2 => 2 \in DOMAIN calls
        BY <2>1
      <4>3. calls' = more
        BY <3>2 DEF more
      <4> QED
        BY <4>1, <4>2, <4>3
    <3> QED
      BY <2>1, <3>1, <3>2 DEF Made
  <2> QED
    BY <2>2, <2>3 DEF Values, Named1
<1>3. CASE FinishCb \/ UNCHANGED vars
  <2>1. UNCHANGED <<at, place, parser, calls, form>>
    BY <1>3 DEF FinishCb, vars, input, ghosts
  <2> QED
    BY <2>1 DEF Values, Named1
<1> QED
  BY <1>1, <1>2, <1>3 DEF Next, Callback

-----------------------------------------------------------------------------
(* The types *)

Answers ==
    /\ parttype \in Parts \cup {"unknown"}
    /\ response \in {"none", "success", "failure"}
    /\ told \in {"waiting", "success", "failure"}
    /\ response # "none" => ~running

\* The part named by a header is one there is, also if a read ended within its name.
LEMMA RecognisedPart ==
    ASSUME Typed, Values, Called("header_value"), parttype \in Parts \cup {"unknown"}
    PROVE  Recognised \subseteq Parts \cup {"unknown"}
<1>1. calls \in Seq(Calls) /\ Len(calls) # 0 /\ calls[1].on = "header_value" /\ calls[1].data = data
  BY CalledBy DEF Typed
<1>2. 1 \in DOMAIN calls /\ calls[1] \in Calls
  BY <1>1
<1>3. ValueOK(data) /\ data \in Seq(Bytes)
  BY <1>1, <1>2, CallFields DEF Values
<1>4. ASSUME Len(data) >= 2, Head(data) = "form-data" PROVE data[2] \in Parts
  <2>1. Head(data) = data[1]
    BY <1>3, <1>4
  <2> QED
    BY <1>3, <1>4, <2>1 DEF ValueOK
<1> QED
  BY <1>4 DEF Recognised

LEMMA AnswersKept ==
    ASSUME Typed, Values, Answers, [Next]_vars
    PROVE  Answers'
<1>0. calls \in Seq(Calls)
  BY DEF Typed
<1>1. CASE Parse
  <2>1. running /\ UNCHANGED <<parttype, response, told>>
    BY <1>1 DEF Parse, st, files
  <2>2. running' \in BOOLEAN
    BY <1>1, TypedParse DEF Typed
  <2>3. response = "none"
    BY <2>1 DEF Answers
  <2> QED
    BY <2>1, <2>3 DEF Answers
<1>2. CASE HeaderFieldCb \/ SetField
  <2>1. UNCHANGED <<running, parttype, response, told>>
    BY <1>2 DEF HeaderFieldCb, SetField, Called, GoOn
  <2> QED
    BY <2>1 DEF Answers
<1>3. CASE HeaderValueCb
  <2>1. UNCHANGED <<running, response, told>>
        /\ Called("header_value")
        /\ parttype' \in Recognised \cup {parttype}
    BY <1>3 DEF HeaderValueCb, Called, GoOn
  <2>2. Recognised \subseteq Parts \cup {"unknown"}
    BY <2>1, RecognisedPart DEF Answers
  <2>3. parttype' \in Parts \cup {"unknown"}
    BY <2>1, <2>2 DEF Answers
  <2> QED
    BY <2>1, <2>3 DEF Answers
<1>4. CASE DataBegin \/ WriteTemp \/ EndSession \/ EndFile \/ EndOther
  <2>1. UNCHANGED told /\ parttype' \in {parttype, "unknown"}
    BY <1>4 DEF DataBegin, WriteTemp, EndSession, EndFile, EndOther, Called, st
  <2>2. UNCHANGED <<running, response>> \/ (~running' /\ response' \in {"success", "failure"})
    BY <1>4 DEF DataBegin, WriteTemp, EndSession, EndFile, EndOther, GoOn, Respond
  <2> QED
    BY <2>1, <2>2 DEF Answers
<1>5. CASE FinishCb
  <2>1. UNCHANGED <<running, parttype, response>> /\ told' \in {"success", "failure"}
    BY <1>5 DEF FinishCb, st, files
  <2> QED
    BY <2>1 DEF Answers
<1>6. CASE UNCHANGED vars
  BY <1>6 DEF vars, st, files, Answers
<1> QED
  BY <1>1, <1>2, <1>3, <1>4, <1>5, <1>6 DEF Next

\* The state of the parser and of the program is what the code declares; the length of
\* what the parser holds back stays within its buffer, and a part is one of the four.
THEOREM UploadTyped == Spec => []UploadTypeOK
<1>1. Init => Values /\ Answers
  <2> SUFFICES ASSUME Init PROVE Values /\ Answers
    OBVIOUS
  <2>1. parser = Initial /\ calls = <<>> /\ parttype = "unknown" /\ response = "none" /\ told = "waiting"
    BY DEF Init
  <2>2. parser.state # "header_value"
    BY <2>1 DEF Initial
  <2> QED
    BY <2>1, <2>2 DEF Values, Answers
<1>2. Kept /\ Values /\ Answers /\ [Next]_vars => (Values /\ Answers)'
  BY ValuesKept, AnswersKept DEF Kept
<1>3. Kept /\ Values /\ Answers => UploadTypeOK
  <2> SUFFICES ASSUME Kept, Values, Answers PROVE UploadTypeOK
    OBVIOUS
  <2>1. running \in BOOLEAN /\ parser \in Parser /\ calls \in Seq(Calls) /\ (Len(calls) # 0 => running)
    BY DEF Kept, Typed
  <2>2. parser.index \in 0 .. Len(Boundary) + 1
    <3>1. Len(Boundary) \in Nat /\ Len(Boundary) > 0
      BY BytesTyped
    <3>2. /\ parser.index \in Nat
          /\ parser.state = "start_boundary" => parser.index <= Len(Boundary) + 1
          /\ parser.state = "part_data_boundary" => parser.index < Len(Boundary)
          /\ parser.state \notin {"start_boundary", "part_data_boundary"} => parser.index = 0
      BY <2>1 DEF Parser
    <3> QED
      BY <3>1, <3>2
  <2>3. Len(Lookbehind(parser)) < Len(Delimiter)
    <3>1. Held(parser) \in Nat /\ Held(parser) < Len(Delimiter) /\ Len(SubSeq(Delimiter, 1, Held(parser))) = Held(parser)
      BY <2>1, HeldTyped
    <3>2. CASE parser.state = "part_data_almost_boundary"
      <4>1. Lookbehind(parser) = <<CR>> /\ Held(parser) = 1
        BY <3>2 DEF Lookbehind, Held
      <4> QED
        BY <3>1, <4>1
    <3>3. CASE parser.state = "part_data_boundary"
      <4>1. Lookbehind(parser) = SubSeq(Delimiter, 1, Held(parser))
        BY <3>3 DEF Lookbehind, Held
      <4> QED
        BY <3>1, <4>1
    <3>4. CASE parser.state \notin {"part_data_almost_boundary", "part_data_boundary"}
      <4>1. Lookbehind(parser) = <<>> /\ Held(parser) = 0
        BY <3>4 DEF Lookbehind, Held
      <4> QED
        BY <3>1, <4>1
    <3> QED
      BY <3>2, <3>3, <3>4
  <2>4. response # "none" => ~running /\ calls = <<>>
    BY <2>1 DEF Answers
  <2> QED
    BY <2>1, <2>2, <2>3, <2>4 DEF UploadTypeOK, Answers
<1> QED
  BY <1>1, <1>2, <1>3, KeptAlways, PTL DEF Spec

-----------------------------------------------------------------------------
(* Forms that are read whole *)

TypeName == <<"Content", Hyphen, "Type">>

\* What the parser has of a word of a header before byte k.
Slice(part, k) ==
    CASE k = 4 -> <<"Content">>
      [] k = 5 -> <<"Content", Hyphen>>
      [] k = 6 -> Disposition
      [] k = 9 -> <<"form-data">>
      [] k = 10 -> Named(part)
      [] part = "filedata" /\ k = 13 -> <<"Content">>
      [] part = "filedata" /\ k = 14 -> <<"Content", Hyphen>>
      [] part = "filedata" /\ k = 15 -> TypeName
      [] part = "filedata" /\ k = 18 -> <<"octets">>
      [] OTHER -> <<>>

Names(slice, part) == Len(slice) >= 2 /\ slice[1] = "form-data" /\ slice[2] = part

\* The calls that may wait before byte k of a header.
HeaderTold(part, k, call) ==
    \/ k = 7 /\ call.on = "header_field" /\ call.data = Disposition
    \/ k = 11 /\ call.on = "header_value" /\ Names(call.data, part)
    \/ part = "filedata" /\ k = 16 /\ call.on = "header_field" /\ call.data = TypeName
    \/ part = "filedata" /\ k = 19 /\ call.on = "header_value"

\* What is known of a part before byte k of its header, with calls still to be made or none.
HeaderKnown(part, k, none) ==
    /\ k \in 8 .. 10 \/ (k = 7 /\ none) \/ (k = 11 /\ ~none) => is_content_disposition
    /\ k > 11 \/ (k = 11 /\ none) => parttype = part
    /\ part = "filedata" /\ (k > 16 \/ (k = 16 /\ none)) => ~is_content_disposition

HeaderRead ==
    at \in 1 .. Len(form) /\ place \in 3 .. HeaderLength(form[at]) + 1 =>
        /\ parser.chunk = Slice(form[at], place)
        /\ \A i \in DOMAIN calls : HeaderTold(form[at], place, calls[i])
        /\ HeaderKnown(form[at], place, Len(calls) = 0)

\* A field holds what was sent for it.
Holds(part) ==
    /\ part = "sessionid" => sessionid = SessionId
    /\ part = "filename" => filename = FileName

\* The content of a field comes in one slice, and is in place before the next byte is read.
FieldRead ==
    at \in 1 .. Len(form) /\ form[at] # "filedata" /\ ReadOf > 0 =>
        LET content == Content(form[at])
            n       == Len(content)
        IN  /\ ReadOf <= n =>
                  /\ parser.state = "part_data" /\ parser.chunk = SubSeq(content, 1, ReadOf)
                  /\ \A i \in DOMAIN calls : calls[i].on = "headers_complete"
            /\ ReadOf > n =>
                  /\ parser.chunk = <<>>
                  /\ \A i \in DOMAIN calls : calls[i].on = "part_data" /\ calls[i].data = content
                  /\ Len(calls) = 0 => Holds(form[at])

PartKnown == InData \/ Opening => parttype = form[PartOf]

Past == \A i \in 1 .. Len(form) : i < at => Holds(form[i])

\* Access was granted for the session of a part that was ended.
Asked == granted => \E i \in 1 .. Len(form) : i < PartOf /\ form[i] = "sessionid"

\* The end of the file is told at the end of the form, and is the last that is told.
Ending == at > Len(form) => Closing

Read == HeaderRead /\ FieldRead /\ PartKnown /\ Past /\ Asked /\ Ending

Whole == running /\ ~cut => Read

Filled == temp \notin {NoFile, <<>>} => filedata

Outcome ==
    ~running /\ ~cut /\ failed = {} /\ granted /\ body # <<>> /\ "filename" \in ToSet(form)
        => response = "success" /\ filename = FileName

\* A byte is not the last one of its read, and what it adds to.
Adds(p, c, s) == s.parser.chunk = Append(p.chunk, c) /\ s.calls = <<>>
Silent(s) == s.parser.chunk = <<>> /\ s.calls = <<>>

LEMMA StayAdds ==
    ASSUME NEW p \in Parser, p.state \in MarkStates, NEW c \in Bytes, NEW last, ~last
    PROVE  Adds(p, c, Stay(p, c, last, <<>>)) /\ Stay(p, c, last, <<>>).parser.state = p.state
<1>1. /\ Stay(p, c, last, <<>>).parser.chunk = Append(p.chunk, c)
      /\ Stay(p, c, last, <<>>).calls = <<>>
      /\ Stay(p, c, last, <<>>).parser.state = p.state
  BY DEF Stay, Parser
<1> QED
  BY <1>1 DEF Adds

LEMMA NameAdds ==
    ASSUME NEW p \in Parser, p.state = "header_field", NEW c \in Bytes, c \in Letters \cup {Hyphen},
           NEW last, ~last
    PROVE  Adds(p, c, Consume(p, c, last))
<1>1. Consume(p, c, last) = HeaderField(p, c, last)
  BY Handlers
<1>2. AtEnd(p, c, last, "header_field") = <<>>
  BY DEF AtEnd
<1>3. HeaderField(p, c, last) = Stay(p, c, last, <<>>)
  BY <1>2, HeaderFieldCases
<1> QED
  BY <1>1, <1>3, StayAdds DEF MarkStates

LEMMA NameEnds ==
    ASSUME NEW p \in Parser, p.state = "header_field", NEW last
    PROVE  LET s == Consume(p, Colon, last)
           IN  s.parser.chunk = <<>> /\ s.calls = <<Call("header_field", p.chunk)>>
<1>1. Consume(p, Colon, last) = To(p, "header_value_start", <<Call("header_field", p.chunk)>>)
  <2>1. Consume(p, Colon, last) = HeaderField(p, Colon, last)
    BY Handlers
  <2> QED
    BY <2>1, HeaderFieldCases
<1> QED
  BY <1>1 DEF To

LEMMA ValueAdds ==
    ASSUME NEW p \in Parser, p.state \in {"header_value_start", "header_value"},
           NEW c \in Bytes, c \notin {CR, Space}, NEW last, ~last
    PROVE  Adds(p, c, Consume(p, c, last))
<1> DEFINE q == [p EXCEPT !.state = "header_value"]
<1>1. q \in Parser /\ q.state = "header_value" /\ q.chunk = p.chunk
  BY DEF Parser, States, HeaderStates, MarkStates
<1>2. p.state = "header_value" => p = q
  BY DEF Parser
<1> HIDE DEF q
<1>3. Consume(p, c, last) = HeaderValue(q, c, last)
  <2>1. CASE p.state = "header_value"
    <3>1. Consume(p, c, last) = HeaderValue(p, c, last)
      BY <2>1, Handlers
    <3> QED
      BY <1>2, <2>1, <3>1
  <2>2. CASE p.state = "header_value_start"
    <3>1. Consume(p, c, last) = HeaderValueStart(p, c, last)
      BY <2>2, Handlers
    <3> QED
      BY <3>1 DEF HeaderValueStart, q
  <2> QED
    BY <2>1, <2>2
<1>4. HeaderValue(q, c, last) = Stay(q, c, last, <<>>)
  BY DEF HeaderValue, AtEnd
<1>5. Adds(q, c, Stay(q, c, last, <<>>))
  BY <1>1, StayAdds DEF MarkStates
<1> QED
  BY <1>1, <1>3, <1>4, <1>5 DEF Adds

LEMMA ValueEnds ==
    ASSUME NEW p \in Parser, p.state = "header_value", NEW last
    PROVE  LET s == Consume(p, CR, last)
           IN  /\ s.parser.chunk = <<>> /\ Len(s.calls) # 0
               /\ \A i \in DOMAIN s.calls : /\ s.calls[i].on = "header_value"
                                            /\ s.calls[i].data \in {p.chunk, Append(p.chunk, CR)}
<1> DEFINE more == Append(p.chunk, CR)
           call == Call("header_value", p.chunk)
           calls2 == AtEnd(p, CR, last, "header_value")
           all == <<call>> \o calls2
<1>1. Consume(p, CR, last) = To(p, "header_value_almost_done", all)
  BY Handlers DEF HeaderValue
<1>2. CR \in Bytes /\ "header_value" \in Callbacks /\ p.chunk \in Seq(Bytes) /\ more \in Seq(Bytes)
  BY Words, ChunkTyped DEF Callbacks
<1>3. call \in Calls /\ call.on = "header_value" /\ call.data = p.chunk
  BY <1>2, CallTyped
<1>4. /\ calls2 \in Seq(Calls) /\ Len(calls2) \in {0, 1}
      /\ \A i \in DOMAIN calls2 : calls2[i].on = "header_value"
  BY <1>2, AtEndCalls
<1>5. \A i \in DOMAIN calls2 : calls2[i].data = more
  <2>1. Call("header_value", more).data = more
    BY DEF Call
  <2> QED
    BY <2>1 DEF AtEnd
<1>6. Consume(p, CR, last).parser.chunk = <<>> /\ Consume(p, CR, last).calls = all
  BY <1>1 DEF To
<1> HIDE DEF call, calls2, more
<1>7. /\ Len(all) = 1 + Len(calls2) /\ all[1] = call
      /\ \A i \in DOMAIN all : i = 1 \/ (i = 2 /\ Len(calls2) = 1 /\ all[i] = calls2[1])
  BY <1>3, <1>4, TwoCalls
<1> HIDE DEF all
<1>8. ASSUME NEW i \in DOMAIN all PROVE all[i].on = "header_value" /\ all[i].data \in {p.chunk, more}
  <2>1. Len(calls2) = 1 => 1 \in DOMAIN calls2
    BY <1>4
  <2> QED
    BY <1>3, <1>4, <1>5, <1>7, <2>1
<1>9. Len(all) # 0
  BY <1>4, <1>7
<1> QED
  BY <1>6, <1>8, <1>9 DEF more

LEMMA SilentBytes ==
    ASSUME NEW p \in Parser, NEW c \in Bytes, NEW last,
           \/ p.state = "header_value_start" /\ c = Space
           \/ p.state = "header_field" /\ c = CR
           \/ p.state \in {"header_value_almost_done", "headers_almost_done", "part_data_end"} /\ c = LF
           \/ p.state = "start_boundary" /\ p.index = Len(Boundary) + 1 /\ c = LF
    PROVE  Silent(Consume(p, c, last))
<1>1. ASSUME NEW state PROVE Silent(To(p, state, <<>>))
  BY DEF To, Silent
<1>2. ASSUME NEW state PROVE Silent(Expect(p, c, c, state))
  BY <1>1 DEF Expect
<1>3. CASE p.state = "header_value_start" /\ c = Space
  BY <1>1, <1>3, Handlers DEF HeaderValueStart
<1>4. CASE p.state = "header_field" /\ c = CR
  <2>1. Consume(p, c, last) = HeaderField(p, c, last)
    BY <1>4, Handlers
  <2>2. HeaderField(p, c, last) = To(p, "headers_almost_done", <<>>)
    BY <1>4, HeaderFieldCases
  <2> QED
    BY <1>1, <2>1, <2>2
<1>5. CASE p.state \in {"header_value_almost_done", "headers_almost_done", "part_data_end"} /\ c = LF
  BY <1>2, <1>5, Handlers
<1>6. CASE p.state = "start_boundary" /\ p.index = Len(Boundary) + 1 /\ c = LF
  BY <1>2, <1>6, Handlers DEF StartBoundary
<1> QED
  BY <1>3, <1>4, <1>5, <1>6

\* The bytes of a part, where they are not the last of a read.
LEMMA DataAdds ==
    ASSUME NEW p \in Parser, p.state = "part_data", NEW c \in Bytes, c # CR, NEW last, ~last
    PROVE  Adds(p, c, Consume(p, c, last)) /\ Consume(p, c, last).parser.state = "part_data"
<1>1. Consume(p, c, last) = Stay(p, c, last, <<>>)
  BY Handlers DEF PartData, AtEnd
<1>2. p.state \in MarkStates
  BY DEF MarkStates
<1> QED
  BY <1>1, <1>2, StayAdds

LEMMA DataStops ==
    ASSUME NEW p \in Parser, p.state = "part_data", NEW last
    PROVE  LET s == Consume(p, CR, last)
           IN  s.parser.chunk = <<>> /\ s.calls = <<Call("part_data", p.chunk)>>
<1>1. Consume(p, CR, last) = To(p, "part_data_almost_boundary", <<Call("part_data", p.chunk)>>)
  BY Handlers DEF PartData
<1> QED
  BY <1>1 DEF To

LEMMA DelimiterSilent ==
    ASSUME NEW p \in Parser, NEW c \in Bytes, NEW last,
           \/ p.state = "part_data_almost_boundary" /\ c = LF
           \/ p.state = "part_data_boundary" /\ c = Boundary[p.index + 1] /\ p.index + 1 # Len(Boundary)
    PROVE  Silent(Consume(p, c, last))
<1>1. CASE p.state = "part_data_almost_boundary" /\ c = LF
  BY <1>1, Handlers DEF PartDataAlmostBoundary, To, Silent
<1>2. CASE p.state = "part_data_boundary" /\ c = Boundary[p.index + 1] /\ p.index + 1 # Len(Boundary)
  <2> DEFINE q == [p EXCEPT !.index = @ + 1]
  <2>1. Consume(p, c, last) = PartDataBoundary(p, c, last)
    BY <1>2, Handlers
  <2>2. PartDataBoundary(p, c, last) = [parser |-> q, calls |-> <<>>, ok |-> TRUE]
    BY <1>2 DEF PartDataBoundary
  <2>3. q.chunk = <<>>
    BY <1>2 DEF Parser, MarkStates
  <2> HIDE DEF q
  <2>4. Consume(p, c, last).parser.chunk = <<>> /\ Consume(p, c, last).calls = <<>>
    BY <2>1, <2>2, <2>3
  <2> QED
    BY <2>4 DEF Silent
<1> QED
  BY <1>1, <1>2

LEMMA DataOpens ==
    ASSUME NEW p \in Parser, p.state = "part_data_start", NEW c \in Bytes, c # CR, NEW last, ~last
    PROVE  LET s == Consume(p, c, last)
           IN  /\ s.parser.state = "part_data" /\ s.parser.chunk = <<c>>
               /\ Len(s.calls) = 1 /\ s.calls[1].on = "headers_complete"
<1> DEFINE q == [state |-> "part_data", index |-> 0, chunk |-> <<>>]
           call == Call("headers_complete", <<>>)
           made == PartData(q, c, last)
<1>1. Consume(p, c, last) = [made EXCEPT !.calls = <<call>> \o @]
  <2>1. Consume(p, c, last) = ThenData(p, c, last, <<call>>)
    BY Handlers
  <2> QED
    BY <2>1 DEF ThenData
<1>2. made = Stay(q, c, last, <<>>)
  BY DEF PartData, AtEnd
<1>3. made = [parser |-> [q EXCEPT !.chunk = Append(@, c)], calls |-> <<>>, ok |-> TRUE]
  BY <1>2 DEF Stay
<1>4. [q EXCEPT !.chunk = Append(@, c)] = [state |-> "part_data", index |-> 0, chunk |-> <<c>>]
  OBVIOUS
<1> HIDE DEF made, q
<1>5. call.on = "headers_complete"
  BY DEF Call
<1> HIDE DEF call
<1>6. /\ Consume(p, c, last).parser = made.parser
      /\ Consume(p, c, last).calls = <<call>> \o <<>>
  BY <1>1, <1>3
<1>7. Consume(p, c, last).calls = <<call>>
  BY <1>6
<1> QED
  BY <1>3, <1>4, <1>5, <1>6, <1>7

LEMMA SliceIs ==
    ASSUME NEW part
    PROVE  /\ \A k \in {3, 7, 8, 11, 12, 16, 17, 19, 20, 21, 22} : Slice(part, k) = <<>>
           /\ Slice(part, 4) = <<"Content">> /\ Slice(part, 5) = <<"Content", Hyphen>>
           /\ Slice(part, 6) = <<"Content", Hyphen, "Disposition">>
           /\ Slice(part, 9) = <<"form-data">> /\ Slice(part, 10) = <<"form-data", part>>
           /\ part # "filedata" => Slice(part, 13) = <<>> /\ Slice(part, 14) = <<>>
           /\ part = "filedata" => /\ Slice(part, 13) = <<"Content">>
                                   /\ Slice(part, 14) = <<"Content", Hyphen>>
                                   /\ Slice(part, 15) = <<"Content", Hyphen, "Type">>
                                   /\ Slice(part, 18) = <<"octets">>
BY DEF Slice, Disposition, Named, TypeName

LEMMA Extended ==
    ASSUME NEW S, NEW s \in Seq(S), NEW e \in S, NEW v \in Seq(S), Len(v) = Len(s) + 1,
           \A i \in 1 .. Len(s) : v[i] = s[i], v[Len(s) + 1] = e
    PROVE  v = Append(s, e)
<1> DEFINE u == Append(s, e)
<1>1. /\ u \in Seq(S) /\ Len(u) = Len(s) + 1 /\ u[Len(s) + 1] = e
      /\ \A i \in 1 .. Len(s) : u[i] = s[i]
  BY AppendProperties
<1> HIDE DEF u
<1>2. Len(s) \in Nat
  OBVIOUS
<1>3. \A i \in 1 .. Len(u) : u[i] = v[i]
  BY <1>1, <1>2
<1>4. u = v
  BY <1>1, <1>3, SeqEqual
<1> QED
  BY <1>4 DEF u

LEMMA ShortSequences ==
    ASSUME NEW a, NEW b, NEW c
    PROVE  Append(<<>>, a) = <<a>> /\ Append(<<a>>, b) = <<a, b>> /\ Append(<<a, b>>, c) = <<a, b, c>>
<1> DEFINE S == {a, b, c}
           one == <<a>>
           two == <<a, b>>
           three == <<a, b, c>>
<1>1. Append(<<>>, a) = <<a>>
  <2>1. <<>> \in Seq(S) /\ a \in S
    OBVIOUS
  <2>2. Append(<<>>, a) = <<>> \o <<a>>
    BY <2>1, AppendIsConcat
  <2> QED
    BY <2>2
<1>2. one \in Seq(S) /\ Len(one) = 1 /\ one[1] = a /\ b \in S /\ c \in S
  OBVIOUS
<1>3. two \in Seq(S) /\ Len(two) = 2 /\ two[1] = a /\ two[2] = b
  OBVIOUS
<1>4. three \in Seq(S) /\ Len(three) = 3 /\ three[1] = a /\ three[2] = b /\ three[3] = c
  OBVIOUS
<1> HIDE DEF S, one, two, three
<1>5. two = Append(one, b)
  <2>1. Len(two) = Len(one) + 1 /\ (\A i \in 1 .. Len(one) : two[i] = one[i]) /\ two[Len(one) + 1] = b
    BY <1>2, <1>3
  <2> QED
    BY <1>2, <1>3, <2>1, Extended
<1>6. three = Append(two, c)
  <2>1. Len(three) = Len(two) + 1 /\ (\A i \in 1 .. Len(two) : three[i] = two[i]) /\ three[Len(two) + 1] = c
    BY <1>3, <1>4
  <2> QED
    BY <1>2, <1>3, <1>4, <2>1, Extended
<1> QED
  BY <1>1, <1>5, <1>6 DEF one, two, three

LEMMA SliceGrows ==
    ASSUME NEW part
    PROVE  /\ Slice(part, 4) = Append(Slice(part, 3), "Content")
           /\ Slice(part, 5) = Append(Slice(part, 4), Hyphen)
           /\ Slice(part, 6) = Append(Slice(part, 5), "Disposition")
           /\ Slice(part, 9) = Append(Slice(part, 8), "form-data")
           /\ Slice(part, 10) = Append(Slice(part, 9), part)
           /\ part = "filedata" => /\ Slice(part, 13) = Append(Slice(part, 12), "Content")
                                   /\ Slice(part, 14) = Append(Slice(part, 13), Hyphen)
                                   /\ Slice(part, 15) = Append(Slice(part, 14), "Type")
                                   /\ Slice(part, 18) = Append(Slice(part, 17), "octets")
<1>1. /\ Append(<<>>, "Content") = <<"Content">>
      /\ Append(<<>>, "form-data") = <<"form-data">>
      /\ Append(<<>>, "octets") = <<"octets">>
  BY ShortSequences
<1>2. /\ Append(<<"Content">>, Hyphen) = <<"Content", Hyphen>>
      /\ Append(<<"form-data">>, part) = <<"form-data", part>>
  BY ShortSequences
<1>3. /\ Append(<<"Content", Hyphen>>, "Disposition") = <<"Content", Hyphen, "Disposition">>
      /\ Append(<<"Content", Hyphen>>, "Type") = <<"Content", Hyphen, "Type">>
  BY ShortSequences
<1> QED
  BY <1>1, <1>2, <1>3, SliceIs

\* What a byte of a header makes of the slice and the calls.
Reads(part, k, s) ==
    /\ s.parser.chunk = Slice(part, k)
    /\ \A i \in DOMAIN s.calls : HeaderTold(part, k, s.calls[i])
    /\ k \in {7, 11} \/ (part = "filedata" /\ k = 16) => Len(s.calls) # 0

LEMMA AddsReads ==
    ASSUME NEW part, NEW k \in Nat, k \notin {7, 11, 16}, NEW p, NEW c, NEW s,
           Adds(p, c, s), Slice(part, k) = Append(p.chunk, c)
    PROVE  Reads(part, k, s)
<1>1. DOMAIN s.calls = {}
  BY DEF Adds
<1> QED
  BY <1>1 DEF Adds, Reads

LEMMA SilentReads ==
    ASSUME NEW part, NEW k \in Nat, k \notin {7, 11, 16}, NEW s, Silent(s), Slice(part, k) = <<>>
    PROVE  Reads(part, k, s)
<1>1. DOMAIN s.calls = {}
  BY DEF Silent
<1> QED
  BY <1>1 DEF Silent, Reads

\* The name of a header, up to its colon.
LEMMA NameReads ==
    ASSUME NEW part, NEW s, NEW slice \in Seq(Bytes), s.parser.chunk = <<>>,
           s.calls = <<Call("header_field", slice)>>
    PROVE  /\ slice = Disposition => Reads(part, 7, s)
           /\ part = "filedata" /\ slice = TypeName => Reads(part, 16, s)
<1> DEFINE call == Call("header_field", slice)
<1>1. call.on = "header_field" /\ call.data = slice
  BY DEF Call
<1>2. Slice(part, 7) = <<>> /\ Slice(part, 16) = <<>>
  BY SliceIs
<1> HIDE DEF call
<1>3. s.calls = <<call>>
  BY DEF call
<1>4. Len(s.calls) # 0 /\ \A i \in DOMAIN s.calls : s.calls[i] = call
  BY <1>3
<1>5. ASSUME NEW i \in DOMAIN s.calls
      PROVE  /\ slice = Disposition => HeaderTold(part, 7, s.calls[i])
             /\ part = "filedata" /\ slice = TypeName => HeaderTold(part, 16, s.calls[i])
  BY <1>1, <1>4 DEF HeaderTold
<1> QED
  BY <1>2, <1>4, <1>5 DEF Reads

LEMMA NamesMore ==
    ASSUME NEW slice \in Seq(Bytes), NEW c \in Bytes, NEW part, Names(slice, part)
    PROVE  Names(Append(slice, c), part)
<1> DEFINE n == Len(slice)
           more == Append(slice, c)
<1>1. n \in Nat /\ Len(more) = n + 1 /\ \A i \in 1 .. n : more[i] = slice[i]
  BY AppendProperties
<1>2. n >= 2 /\ slice[1] = "form-data" /\ slice[2] = part
  BY DEF Names
<1> HIDE DEF n, more
<1>3. Len(more) >= 2 /\ more[1] = "form-data" /\ more[2] = part
  BY <1>1, <1>2
<1> QED
  BY <1>3 DEF Names, more

\* The value of a header, up to the end of its line.
LEMMA ValueReads ==
    ASSUME NEW part \in Parts, NEW s, NEW slice, s.parser.chunk = <<>>, Len(s.calls) # 0,
           \A i \in DOMAIN s.calls : /\ s.calls[i].on = "header_value"
                                     /\ s.calls[i].data \in {slice, Append(slice, CR)}
    PROVE  /\ slice = <<"form-data", part>> => Reads(part, 11, s)
           /\ part = "filedata" => Reads(part, 19, s)
<1>1. Slice(part, 11) = <<>> /\ Slice(part, 19) = <<>>
  BY SliceIs
<1>2. Names(<<"form-data", part>>, part) /\ Names(Append(<<"form-data", part>>, CR), part)
  <2> DEFINE slice1 == <<"form-data", part>>
             more == Append(slice1, CR)
  <2>1. slice1 \in Seq(Bytes) /\ Len(slice1) = 2 /\ slice1[1] = "form-data" /\ slice1[2] = part
    BY Words
  <2>2. CR \in Bytes
    BY Words
  <2>3. Names(slice1, part)
    BY <2>1 DEF Names
  <2> HIDE DEF slice1
  <2>4. Names(more, part)
    BY <2>1, <2>2, <2>3, NamesMore
  <2> QED
    BY <2>3, <2>4 DEF slice1
<1>3. ASSUME NEW i \in DOMAIN s.calls
      PROVE  /\ slice = <<"form-data", part>> => HeaderTold(part, 11, s.calls[i])
             /\ part = "filedata" => HeaderTold(part, 19, s.calls[i])
  <2>1. slice = <<"form-data", part>> => Names(s.calls[i].data, part)
    BY <1>2
  <2> QED
    BY <2>1 DEF HeaderTold
<1> QED
  BY <1>1, <1>3 DEF Reads

\* A byte of a header that is not lost: the last one of a read is at the end of a word.
LEMMA HeaderReads ==
    ASSUME NEW part \in Parts, NEW k \in 3 .. HeaderLength(part), NEW p \in Parser,
           p.state = HeaderState(part, k), p.chunk = Slice(part, k),
           NEW c, c = HeaderBytes(part)[k], NEW last,
           last => HeaderState(part, k + 1) \notin {"header_field", "header_value"} \/ c = LF
    PROVE  Reads(part, k + 1, Consume(p, c, last))
<1> DEFINE s == Consume(p, c, last)
<1>0. /\ {"Content", "Disposition", "Type", Hyphen} \subseteq Letters \cup {Hyphen}
      /\ {"Content", "Disposition", "Type", Hyphen, "form-data", "octets"} \subseteq Bytes
      /\ {CR, LF, Colon, Space} \cup Parts \subseteq Bytes
      /\ ({"form-data", "octets"} \cup Parts) \cap {CR, LF, Space} = {}
      /\ {"Content", "Disposition", "Type", Hyphen} \cap {LF} = {}
  BY Words DEF Hyphen, LF
<1>1. ASSUME NEW word \in {"Content", "Disposition", "Type", Hyphen}, c = word, p.state = "header_field",
             HeaderState(part, k + 1) = "header_field"
      PROVE  Adds(p, c, s)
  <2>1. ~last /\ c \in Bytes /\ c \in Letters \cup {Hyphen}
    BY <1>0, <1>1
  <2> QED
    BY <1>1, <2>1, NameAdds
<1>2. ASSUME c \in {"form-data", "octets"} \cup Parts, p.state \in {"header_value_start", "header_value"},
             HeaderState(part, k + 1) = "header_value"
      PROVE  Adds(p, c, s)
  <2>1. ~last /\ c \in Bytes /\ c \notin {CR, Space}
    BY <1>0, <1>2
  <2> QED
    BY <1>2, <2>1, ValueAdds
<1>3. ASSUME p.state = "header_field", c = Colon
      PROVE  s.parser.chunk = <<>> /\ s.calls = <<Call("header_field", p.chunk)>>
  BY <1>3, NameEnds
<1>4. ASSUME p.state = "header_value", c = CR
      PROVE  /\ s.parser.chunk = <<>> /\ Len(s.calls) # 0
             /\ \A i \in DOMAIN s.calls : /\ s.calls[i].on = "header_value"
                                          /\ s.calls[i].data \in {p.chunk, Append(p.chunk, CR)}
  BY <1>4, ValueEnds
<1>5. ASSUME \/ p.state = "header_value_start" /\ c = Space
             \/ p.state = "header_field" /\ c = CR
             \/ p.state \in {"header_value_almost_done", "headers_almost_done"} /\ c = LF
      PROVE  Silent(s)
  <2>1. c \in Bytes
    BY <1>0, <1>5
  <2> QED
    BY <1>5, <2>1, SilentBytes
<1> HIDE DEF s
<1> DEFINE bytes == HeaderBytes(part)
<1>6. /\ bytes[3] = "Content" /\ bytes[4] = Hyphen /\ bytes[5] = "Disposition" /\ bytes[6] = Colon
      /\ bytes[7] = Space /\ bytes[8] = "form-data" /\ bytes[9] = part /\ bytes[10] = CR /\ bytes[11] = LF
  BY PlainHeader, FileHeader
<1>7. /\ \A j \in {3, 4, 5, 6, 12} : HeaderState(part, j) = "header_field"
      /\ \A j \in {7, 8} : HeaderState(part, j) = "header_value_start"
      /\ \A j \in {9, 10} : HeaderState(part, j) = "header_value"
      /\ HeaderState(part, 11) = "header_value_almost_done"
  BY PlainStates, FileStates
<1>8. CASE k = 3
  <2>1. Adds(p, c, s) /\ p.chunk = <<>>
    BY <1>1, <1>6, <1>7, <1>8, SliceIs
  <2>2. Slice(part, 4) = Append(Slice(part, 3), bytes[3])
    BY <1>6, SliceGrows
  <2>3. Slice(part, k + 1) = Append(p.chunk, c) /\ k + 1 \in Nat /\ k + 1 \notin {7, 11, 16}
    BY <2>2, <1>8
  <2> QED
    BY <2>1, <2>3, AddsReads DEF s
<1>9. CASE k = 4
  <2>1. Adds(p, c, s) /\ p.chunk = <<"Content">>
    BY <1>1, <1>6, <1>7, <1>9, SliceIs
  <2>2. Slice(part, 5) = Append(Slice(part, 4), bytes[4])
    BY <1>6, SliceGrows
  <2>3. Slice(part, k + 1) = Append(p.chunk, c) /\ k + 1 \in Nat /\ k + 1 \notin {7, 11, 16}
    BY <2>2, <1>9
  <2> QED
    BY <2>1, <2>3, AddsReads DEF s
<1>10. CASE k = 5
  <2>1. Adds(p, c, s) /\ p.chunk = <<"Content", Hyphen>>
    BY <1>1, <1>6, <1>7, <1>10, SliceIs
  <2>2. Slice(part, 6) = Append(Slice(part, 5), bytes[5])
    BY <1>6, SliceGrows
  <2>3. Slice(part, k + 1) = Append(p.chunk, c) /\ k + 1 \in Nat /\ k + 1 \notin {7, 11, 16}
    BY <2>2, <1>10
  <2> QED
    BY <2>1, <2>3, AddsReads DEF s
<1>11. CASE k = 6
  <2>1. s.parser.chunk = <<>> /\ s.calls = <<Call("header_field", p.chunk)>>
    BY <1>3, <1>6, <1>7, <1>11
  <2>2. p.chunk = Disposition /\ p.chunk \in Seq(Bytes)
    BY <1>11, SliceIs, ChunkTyped DEF Disposition
  <2> QED
    BY <1>11, <2>1, <2>2, NameReads DEF s
<1>12. CASE k = 7
  <2>1. Silent(s) /\ Slice(part, 8) = <<>>
    BY <1>5, <1>6, <1>7, <1>12, SliceIs
  <2> QED
    BY <1>12, <2>1, SilentReads DEF s
<1>13. CASE k = 8
  <2>1. Adds(p, c, s) /\ p.chunk = <<>>
    BY <1>2, <1>6, <1>7, <1>13, SliceIs
  <2>2. Slice(part, 9) = Append(Slice(part, 8), bytes[8])
    BY <1>6, SliceGrows
  <2>3. Slice(part, k + 1) = Append(p.chunk, c) /\ k + 1 \in Nat /\ k + 1 \notin {7, 11, 16}
    BY <2>2, <1>13
  <2> QED
    BY <2>1, <2>3, AddsReads DEF s
<1>14. CASE k = 9
  <2>1. Adds(p, c, s) /\ p.chunk = <<"form-data">>
    BY <1>2, <1>6, <1>7, <1>14, SliceIs
  <2>2. Slice(part, 10) = Append(Slice(part, 9), bytes[9])
    BY <1>6, SliceGrows
  <2>3. Slice(part, k + 1) = Append(p.chunk, c) /\ k + 1 \in Nat /\ k + 1 \notin {7, 11, 16}
    BY <2>2, <1>14
  <2> QED
    BY <2>1, <2>3, AddsReads DEF s
<1>15. CASE k = 10
  <2>1. /\ s.parser.chunk = <<>> /\ Len(s.calls) # 0
        /\ \A i \in DOMAIN s.calls : /\ s.calls[i].on = "header_value"
                                     /\ s.calls[i].data \in {p.chunk, Append(p.chunk, CR)}
    BY <1>4, <1>6, <1>7, <1>15
  <2>2. p.chunk = <<"form-data", part>>
    BY <1>15, SliceIs
  <2>3. Reads(part, 11, s)
    <3> DEFINE slice == p.chunk
    <3> HIDE DEF slice
    <3>1. slice = <<"form-data", part>>
      BY <2>2 DEF slice
    <3>2. \A i \in DOMAIN s.calls : /\ s.calls[i].on = "header_value"
                                   /\ s.calls[i].data \in {slice, Append(slice, CR)}
      BY <2>1 DEF slice
    <3> QED
      BY <2>1, <3>1, <3>2, ValueReads
  <2> QED
    BY <1>15, <2>3 DEF s
<1>16. CASE k = 11
  <2>1. Silent(s) /\ Slice(part, 12) = <<>>
    BY <1>5, <1>6, <1>7, <1>16, SliceIs
  <2> QED
    BY <1>16, <2>1, SilentReads DEF s
<1>17. CASE k > 11 /\ part # "filedata"
  <2>1. k \in {12, 13} /\ bytes[12] = CR /\ bytes[13] = LF
    BY <1>17, PlainHeader DEF HeaderLength
  <2>2. Silent(s)
    BY <1>5, <1>7, <1>17, <2>1, PlainStates
  <2>3. Slice(part, 13) = <<>> /\ Slice(part, 14) = <<>>
    BY <1>17, SliceIs
  <2>4. k + 1 \in {13, 14}
    BY <2>1
  <2>5. Slice(part, k + 1) = <<>> /\ k + 1 \in Nat /\ k + 1 \notin {7, 11, 16}
    BY <2>3, <2>4
  <2> QED
    BY <2>2, <2>5, SilentReads DEF s
<1>18. CASE k > 11 /\ part = "filedata"
  <2>0. k \in 12 .. 21 /\ k \in {12, 13, 14} \cup {15} \cup {16} \cup {17} \cup {18} \cup {19, 20, 21}
    BY <1>18 DEF HeaderLength
  <2>1. /\ bytes[12] = "Content" /\ bytes[13] = Hyphen /\ bytes[14] = "Type"
        /\ bytes[15] = Colon /\ bytes[16] = Space /\ bytes[17] = "octets"
        /\ bytes[18] = CR /\ bytes[19] = LF /\ bytes[20] = CR /\ bytes[21] = LF
    BY <1>18, FileHeader
  <2>2. /\ \A j \in {12, 13, 14, 15, 20} : HeaderState(part, j) = "header_field"
        /\ \A j \in {16, 17} : HeaderState(part, j) = "header_value_start"
        /\ HeaderState(part, 18) = "header_value"
        /\ HeaderState(part, 19) = "header_value_almost_done"
        /\ HeaderState(part, 21) = "headers_almost_done"
    BY <1>18, FileStates
  <2> HIDE DEF bytes
  <2>3. CASE k \in {12, 13, 14}
    <3>1. Adds(p, c, s)
      BY <1>1, <2>1, <2>2, <2>3 DEF bytes
    <3>2. Slice(part, k + 1) = Append(Slice(part, k), c)
      <4>1. c = bytes[k]
        BY DEF bytes
      <4>2. CASE k = 12
        <5>1. Slice(part, 13) = Append(Slice(part, 12), bytes[12])
          BY <1>18, <2>1, SliceGrows
        <5> QED
          BY <4>1, <4>2, <5>1
      <4>3. CASE k = 13
        <5>1. Slice(part, 14) = Append(Slice(part, 13), bytes[13])
          BY <1>18, <2>1, SliceGrows
        <5> QED
          BY <4>1, <4>3, <5>1
      <4>4. CASE k = 14
        <5>1. Slice(part, 15) = Append(Slice(part, 14), bytes[14])
          BY <1>18, <2>1, SliceGrows
        <5> QED
          BY <4>1, <4>4, <5>1
      <4> QED
        BY <2>3, <4>2, <4>3, <4>4
    <3>3. k + 1 \in Nat /\ k + 1 \notin {7, 11, 16}
      BY <2>3
    <3> QED
      BY <3>1, <3>2, <3>3, AddsReads DEF s
  <2>4. CASE k = 15
    <3>1. s.parser.chunk = <<>> /\ s.calls = <<Call("header_field", p.chunk)>>
      BY <1>3, <2>1, <2>2, <2>4 DEF bytes
    <3>2. p.chunk = TypeName /\ p.chunk \in Seq(Bytes)
      BY <1>18, <2>4, SliceIs, ChunkTyped DEF TypeName
    <3>3. Reads(part, 16, s)
      BY <1>18, <3>1, <3>2, NameReads
    <3> QED
      BY <2>4, <3>3 DEF s
  <2>5. CASE k = 16
    <3>1. Silent(s) /\ Slice(part, 17) = <<>>
      BY <1>5, <2>1, <2>2, <2>5, SliceIs DEF bytes
    <3> QED
      BY <2>5, <3>1, SilentReads DEF s
  <2>6. CASE k = 17
    <3>1. Adds(p, c, s) /\ p.chunk = <<>>
      BY <1>2, <2>1, <2>2, <2>6, SliceIs DEF bytes
    <3>2. Slice(part, 18) = Append(Slice(part, 17), bytes[17])
      BY <1>18, <2>1, SliceGrows
    <3>3. Slice(part, k + 1) = Append(p.chunk, c) /\ k + 1 \in Nat /\ k + 1 \notin {7, 11, 16}
      BY <2>6, <3>2 DEF bytes
    <3> QED
      BY <3>1, <3>3, AddsReads DEF s
  <2>7. CASE k = 18
    <3>1. /\ s.parser.chunk = <<>> /\ Len(s.calls) # 0
          /\ \A i \in DOMAIN s.calls : /\ s.calls[i].on = "header_value"
                                       /\ s.calls[i].data \in {p.chunk, Append(p.chunk, CR)}
      BY <1>4, <2>1, <2>2, <2>7 DEF bytes
    <3>2. Reads(part, 19, s)
      BY <1>18, <3>1, ValueReads
    <3> QED
      BY <2>7, <3>2 DEF s
  <2>8. CASE k \in {19, 20, 21}
    <3>1. Silent(s)
      BY <1>5, <2>1, <2>2, <2>8 DEF bytes
    <3>2. k + 1 \in {20, 21, 22} /\ k + 1 \in Nat /\ k + 1 \notin {7, 11, 16}
      BY <2>8
    <3>3. \A j \in {20, 21, 22} : Slice(part, j) = <<>>
      BY SliceIs
    <3> QED
      BY <3>1, <3>2, <3>3, SilentReads DEF s
  <2> QED
    BY <2>0, <2>3, <2>4, <2>5, <2>6, <2>7, <2>8
<1>19. k \in {3, 4, 5, 6, 7, 8, 9, 10, 11} \/ k > 11
  OBVIOUS
<1> QED
  BY <1>8, <1>9, <1>10, <1>11, <1>12, <1>13, <1>14, <1>15, <1>16, <1>17, <1>18, <1>19 DEF s

-----------------------------------------------------------------------------
(* A byte is read, and nothing is cut *)

Reading(last) ==
    /\ parser' = Consume(parser, NextByte, last).parser
    /\ calls' = Consume(parser, NextByte, last).calls
    /\ last => parser'.state \notin {"header_field", "header_value"} \/ NextByte = LF
    /\ last => parser'.state # "part_data" \/ parttype = "filedata"

LEMMA UncutReads ==
    ASSUME Parse, ~cut'
    PROVE  ~cut /\ \E last : Reading(last)
<1>1. PICK last \in BOOLEAN :
          /\ parser' = Consume(parser, NextByte, last).parser
          /\ calls' = Consume(parser, NextByte, last).calls
          /\ cut' = (cut \/ (last /\ Cuts(Consume(parser, NextByte, last).parser, NextByte)))
  BY Zenon DEF Parse
<1>2. ~cut /\ (last => ~Cuts(parser', NextByte))
  BY <1>1, Zenon
<1> QED
  BY <1>1, <1>2, Zenon DEF Reading, Cuts

\* What a step that reads a byte leaves alone.
LEMMA ParseKeeps ==
    ASSUME Typed, Parse
    PROVE  /\ running /\ Len(calls) = 0 /\ calls = <<>> /\ ~AllRead /\ NextByte \in Bytes
           /\ Sent /\ form' = form /\ body' = body /\ granted' = granted
           /\ is_content_disposition' = is_content_disposition /\ parttype' = parttype
           /\ sessionid' = sessionid /\ filename' = filename
           /\ ~Opening /\ ~Closing /\ PartOf = at
<1>1. /\ running /\ calls = <<>> /\ ~AllRead /\ NextByte \in Bytes
      /\ UNCHANGED <<st, files, told, form, body, granted, failed>>
  BY ParseReads
<1>2. Len(calls) = 0
  BY <1>1
<1> QED
  BY <1>1, <1>2 DEF Typed, st, Opening, Closing, PartOf

LEMMA HeaderKnownNext ==
    ASSUME NEW part, NEW k \in 3 .. 21, NEW more \in BOOLEAN,
           HeaderKnown(part, k, TRUE),
           k + 1 \in {7, 11} \/ (part = "filedata" /\ k + 1 = 16) => more
    PROVE  HeaderKnown(part, k + 1, ~more)
<1>1. /\ k = 7 \/ k \in 8 .. 10 => is_content_disposition
      /\ k > 11 \/ k = 11 => parttype = part
      /\ part = "filedata" /\ (k > 16 \/ k = 16) => ~is_content_disposition
  BY DEF HeaderKnown
<1> QED
  BY <1>1 DEF HeaderKnown

LEMMA HeaderReadParse ==
    ASSUME Typed, Placed, Parse, Read, ~cut'
    PROVE  HeaderRead'
<1> DEFINE n == at
           part == form[n]
           k == place
<1>1. /\ Len(calls) = 0 /\ NextByte \in Bytes /\ Sent /\ form' = form /\ Where
      /\ is_content_disposition' = is_content_disposition /\ parttype' = parttype
  BY ParseKeeps DEF Typed
<1>2. SUFFICES ASSUME at' \in 1 .. Len(form), place' \in 3 .. HeaderLength(form[at']) + 1
               PROVE  /\ parser'.chunk = Slice(form[at'], place')
                      /\ \A i \in DOMAIN calls' : HeaderTold(form[at'], place', calls'[i])
                      /\ HeaderKnown(form[at'], place', Len(calls') = 0)
  BY <1>1 DEF HeaderRead, HeaderKnown
<1>3. at' = at /\ place' = place + 1 /\ place \in Nat
  <2>1. Advance
    BY ParseReads
  <2>2. Len(form) \in Nat
    BY <1>1, FormTyped
  <2> QED
    BY <1>1, <1>2, <2>1, <2>2, AdvanceCases DEF Where
<1>4. /\ n \in 1 .. Len(form) /\ part \in Parts /\ HeaderLength(part) \in {13, 21}
      /\ k \in 2 .. HeaderLength(part) /\ NextByte = HeaderBytes(part)[k]
  BY <1>2, <1>3, NextOf
<1>5. PICK last : Reading(last)
  BY UncutReads
<1>6. parser \in Parser
  BY DEF Typed
<1>7. CASE k = 2
  <2>1. \/ parser.state = "start_boundary" /\ parser.index = Len(Boundary) + 1
        \/ parser.state = "part_data_end"
    BY <1>4, <1>7 DEF Placed, PlacedAt
  <2>2. NextByte = LF
    BY <1>4, <1>7, HeaderBytesTyped
  <2>3. Silent(Consume(parser, NextByte, last))
    BY <1>1, <1>6, <2>1, <2>2, SilentBytes
  <2>4. parser'.chunk = <<>> /\ calls' = <<>>
    BY <1>5, <2>3 DEF Silent, Reading
  <2>5. Slice(part, 3) = <<>>
    BY SliceIs
  <2>6. ASSUME NEW none PROVE HeaderKnown(part, 3, none)
    BY DEF HeaderKnown
  <2> QED
    BY <1>3, <1>7, <2>4, <2>5, <2>6
<1>8. CASE k # 2
  <2>1. k \in 3 .. HeaderLength(part)
    BY <1>4, <1>8
  <2>2. parser.state = HeaderState(part, k)
    BY <1>4, <2>1 DEF Placed, PlacedAt
  <2>3. /\ parser.chunk = Slice(part, k)
        /\ HeaderKnown(part, k, Len(calls) = 0)
    BY <1>4, <2>1 DEF Read, HeaderRead
  <2>4. parser'.state = HeaderState(part, k + 1)
    <3>1. Placed'
      BY PlacedParse
    <3> QED
      BY <1>1, <1>3, <1>4, <2>1, <3>1 DEF Placed, PlacedAt
  <2>5. last => HeaderState(part, k + 1) \notin {"header_field", "header_value"} \/ NextByte = LF
    BY <1>5, <2>4 DEF Reading
  <2>6. Reads(part, k + 1, Consume(parser, NextByte, last))
    BY <1>4, <1>6, <2>1, <2>2, <2>3, <2>5, HeaderReads
  <2>7. /\ parser'.chunk = Slice(part, k + 1)
        /\ \A i \in DOMAIN calls' : HeaderTold(part, k + 1, calls'[i])
        /\ k + 1 \in {7, 11} \/ (part = "filedata" /\ k + 1 = 16) => Len(calls') # 0
    BY <1>5, <2>6, Zenon DEF Reading, Reads
  <2>8. HeaderKnown(part, k + 1, Len(calls') = 0)
    <3>1. HeaderKnown(part, k, TRUE)
      BY <1>1, <2>3
    <3>2. k \in 3 .. 21
      BY <1>4, <2>1
    <3>3. HeaderKnown(part, k + 1, ~(Len(calls') # 0))
      BY <2>7, <3>1, <3>2, HeaderKnownNext
    <3> QED
      BY <3>3
  <2> QED
    BY <1>3, <2>7, <2>8
<1> QED
  BY <1>7, <1>8

\* The content of a field: one or two bytes, none of them a carriage return.
LEMMA FieldContent ==
    ASSUME Sent, NEW part \in Parts, part # "filedata"
    PROVE  /\ Content(part) \in Seq(Bytes) /\ Len(Content(part)) > 0
           /\ \A i \in 1 .. Len(Content(part)) : Content(part)[i] # CR
           /\ Content(part)' = Content(part)
           /\ part = "sessionid" => Content(part) = SessionId
           /\ part = "filename" => Content(part) = FileName
<1>1. part \in {"sessionid", "filename", "filemode"}
  BY DEF Parts
<1>2. /\ part = "sessionid" => Content(part) = SessionId /\ Content(part)' = SessionId
      /\ part = "filename" => Content(part) = FileName /\ Content(part)' = FileName
      /\ part = "filemode" => Content(part) = FileMode /\ Content(part)' = FileMode
  BY DEF Content, SessionId, FileName, FileMode
<1>3. /\ Len(SessionId) > 0 /\ \A i \in 1 .. Len(SessionId) : SessionId[i] # CR
      /\ Len(FileName) > 0 /\ \A i \in 1 .. Len(FileName) : FileName[i] # CR
      /\ Len(FileMode) > 0 /\ \A i \in 1 .. Len(FileMode) : FileMode[i] # CR
  BY DEF SessionId, FileName, FileMode, CR
<1>4. Content(part) \in Seq(Bytes)
  BY ContentTyped
<1>5. CASE part = "sessionid"
  BY <1>2, <1>3, <1>4, <1>5, Zenon
<1>6. CASE part = "filename"
  BY <1>2, <1>3, <1>4, <1>6, Zenon
<1>7. CASE part = "filemode"
  BY <1>2, <1>3, <1>4, <1>7, Zenon
<1> QED
  BY <1>1, <1>5, <1>6, <1>7

\* What a byte of a field makes of the slice and the calls, if r bytes of it are read with it.
FieldReads(content, r, s) ==
    /\ r <= Len(content) =>
          /\ s.parser.state = "part_data" /\ s.parser.chunk = SubSeq(content, 1, r)
          /\ \A i \in DOMAIN s.calls : s.calls[i].on = "headers_complete"
    /\ r > Len(content) =>
          /\ s.parser.chunk = <<>>
          /\ \A i \in DOMAIN s.calls : s.calls[i].on = "part_data" /\ s.calls[i].data = content
          /\ r = Len(content) + 1 => Len(s.calls) # 0

LEMMA FieldOpens ==
    ASSUME NEW content \in Seq(Bytes), Len(content) > 0, content[1] # CR,
           NEW p \in Parser, p.state = "part_data_start", NEW last, ~last
    PROVE  FieldReads(content, 1, Consume(p, content[1], last))
<1> DEFINE c == content[1]
           s == Consume(p, c, last)
<1>1. c \in Bytes /\ Len(content) \in Nat
  OBVIOUS
<1>2. /\ s.parser.state = "part_data" /\ s.parser.chunk = <<c>>
      /\ Len(s.calls) = 1 /\ s.calls[1].on = "headers_complete"
  BY <1>1, DataOpens
<1>3. SubSeq(content, 1, 1) = <<c>>
  <2> DEFINE none == SubSeq(content, 1, 0)
             one  == SubSeq(content, 1, 1)
  <2>1. one = Append(none, c) /\ none \in Seq(Bytes) /\ Len(none) = 0
    <3>1. 0 \in Nat /\ 0 < Len(content) /\ 0 + 1 = 1
      BY <1>1
    <3>2. one = Append(none, content[0 + 1]) /\ none \in Seq(Bytes) /\ Len(none) = 0
      BY <3>1, PrefixGrows
    <3> QED
      BY <3>1, <3>2
  <2> HIDE DEF none, one
  <2>2. none = <<>>
    BY <2>1
  <2>3. Append(<<>>, c) = <<c>>
    BY ShortSequences
  <2>4. one = <<c>>
    BY <2>1, <2>2, <2>3, Zenon
  <2> QED
    BY <2>4 DEF one
<1> QED
  BY <1>1, <1>2, <1>3 DEF FieldReads

LEMMA FieldGoesOn ==
    ASSUME NEW content \in Seq(Bytes), \A i \in 1 .. Len(content) : content[i] # CR,
           NEW p \in Parser, p.state \in DataStates,
           NEW r \in Nat, r > 0, r + 1 < Len(content \o Delimiter), Scanned(content, r, Held(p)),
           r <= Len(content) => p.state = "part_data" /\ p.chunk = SubSeq(content, 1, r),
           r > Len(content) => p.chunk = <<>>,
           NEW c, c = (content \o Delimiter)[r + 1],
           NEW last, last => Consume(p, c, last).parser.state # "part_data"
    PROVE  FieldReads(content, r + 1, Consume(p, c, last))
<1> DEFINE s == Consume(p, c, last)
           n == Len(content)
           stream == content \o Delimiter
           m == Len(Delimiter)
<1>0. /\ n \in Nat /\ Delimiter \in Seq(Bytes) /\ m = 2 + Len(Boundary)
      /\ Len(Boundary) \in Nat /\ m \in Nat
  BY DelimiterBytes, BytesTyped
<1>1. /\ Len(stream) = n + m
      /\ \A i \in 1 .. n : stream[i] = content[i]
      /\ \A j \in 1 .. m : stream[n + j] = Delimiter[j]
  BY <1>0
<1> HIDE DEF m
<1> HIDE DEF stream
<1>2. r + 1 < n + m /\ c = stream[r + 1]
  BY <1>1 DEF stream
<1>3. CASE r < n
  <2>1. /\ c = content[r + 1] /\ c # CR /\ c \in Bytes
        /\ p.state = "part_data" /\ p.chunk = SubSeq(content, 1, r)
    <3>1. r + 1 \in 1 .. n
      BY <1>0, <1>3
    <3>2. c = content[r + 1]
      BY <1>1, <1>2, <3>1
    <3>3. content[r + 1] \in Bytes /\ content[r + 1] # CR
      BY <3>1
    <3> QED
      BY <1>0, <1>3, <3>2, <3>3
  <2>2. s.parser.state = "part_data"
    <3>1. s = PartData(p, c, last)
      BY <2>1, Handlers
    <3>2. SliceGoesOn(p, c, s)
      BY <2>1, <3>1, PartDataStep
    <3> QED
      BY <2>1, <3>2 DEF SliceGoesOn
  <2>3. ~last
    BY <2>2
  <2>4. Adds(p, c, s)
    BY <2>1, <2>3, DataAdds
  <2>5. SubSeq(content, 1, r + 1) = Append(SubSeq(content, 1, r), content[r + 1])
    BY <1>0, <1>1, <1>3, PrefixGrows
  <2>6. s.parser.chunk = SubSeq(content, 1, r + 1) /\ s.calls = <<>>
    BY <2>1, <2>4, <2>5, Zenon DEF Adds
  <2>7. DOMAIN s.calls = {} /\ r + 1 <= n /\ ~(r + 1 > n)
    BY <1>0, <1>1, <1>3, <2>6
  <2> QED
    BY <2>2, <2>6, <2>7 DEF FieldReads
<1>4. CASE r = n
  <2>1. c = CR /\ p.state = "part_data" /\ p.chunk = content
    <3>1. c = Delimiter[1] /\ Delimiter[1] = CR
      <4>1. 1 \in 1 .. m /\ stream[n + 1] = Delimiter[1]
        BY <1>0, <1>1
      <4> QED
        BY <1>2, <1>4, <4>1, DelimiterBytes
    <3>2. SubSeq(content, 1, n) = content
      OBVIOUS
    <3>3. p.state = "part_data" /\ p.chunk = SubSeq(content, 1, r)
      BY <1>0, <1>1, <1>4
    <3> QED
      BY <1>4, <3>1, <3>2, <3>3
  <2>2. s.parser.chunk = <<>> /\ s.calls = <<Call("part_data", content)>>
    BY <2>1, DataStops
  <2> DEFINE call == Call("part_data", content)
  <2>3. call.on = "part_data" /\ call.data = content
    BY DEF Call
  <2> HIDE DEF call
  <2>4. s.calls = <<call>>
    BY <2>2 DEF call
  <2>5. Len(s.calls) # 0 /\ \A i \in DOMAIN s.calls : s.calls[i] = call
    BY <2>4
  <2>6. r + 1 > n /\ ~(r + 1 <= n)
    BY <1>0, <1>1, <1>4
  <2> QED
    BY <2>2, <2>3, <2>5, <2>6 DEF FieldReads
<1>5. CASE r > n
  <2> DEFINE h == Held(p)
  <2>1. h = r - n /\ h \in Nat /\ h > 0 /\ h + 1 < m
    <3>1. h = r - n
      BY <1>5 DEF Scanned
    <3> HIDE DEF h
    <3> QED
      BY <1>0, <1>1, <1>2, <1>5, <3>1
  <2>2. c = Delimiter[h + 1]
    <3>1. stream[n + (h + 1)] = Delimiter[h + 1]
      BY <1>0, <1>1, <2>1
    <3> QED
      BY <1>0, <1>1, <1>2, <2>1, <3>1
  <2>3. p.state # "part_data"
    BY <2>1, HeldTyped
  <2>4. \/ p.state = "part_data_almost_boundary" /\ h = 1
        \/ p.state = "part_data_boundary" /\ h = 2 + p.index /\ p.index \in Nat
    BY <2>3, HeldTyped, ChunkTyped DEF DataStates
  <2> HIDE DEF h
  <2>5. \/ p.state = "part_data_almost_boundary" /\ c = LF
        \/ p.state = "part_data_boundary" /\ c = Boundary[p.index + 1] /\ p.index + 1 # Len(Boundary)
    <3>1. CASE p.state = "part_data_almost_boundary" /\ h = 1
      <4>1. h + 1 = 2 /\ Delimiter[2] = LF
        BY <3>1, DelimiterBytes
      <4> QED
        BY <2>2, <3>1, <4>1
    <3>2. CASE p.state = "part_data_boundary" /\ h = 2 + p.index /\ p.index \in Nat
      <4>1. p.index + 1 \in 1 .. Len(Boundary) /\ p.index + 1 # Len(Boundary) /\ h + 1 = 2 + (p.index + 1)
        <5> DEFINE i == p.index
                   l == Len(Boundary)
        <5>1. i \in Nat /\ h = 2 + i /\ l \in Nat /\ m = 2 + l /\ h + 1 < m
          BY <1>0, <2>1, <3>2
        <5> HIDE DEF i, l
        <5>2. i + 1 \in 1 .. l /\ i + 1 # l /\ h + 1 = 2 + (i + 1)
          BY <5>1
        <5> QED
          BY <5>2 DEF i, l
      <4>2. Delimiter[2 + (p.index + 1)] = Boundary[p.index + 1]
        BY <4>1, DelimiterBytes
      <4> QED
        BY <2>2, <3>2, <4>1, <4>2
    <3> QED
      BY <2>4, <3>1, <3>2
  <2>6. c \in Bytes
    BY <1>0, <1>1, <2>1, <2>2
  <2>7. s.parser.chunk = <<>> /\ s.calls = <<>>
    BY <2>5, <2>6, DelimiterSilent DEF Silent
  <2>8. DOMAIN s.calls = {} /\ r + 1 > n /\ ~(r + 1 <= n) /\ r + 1 # n + 1
    BY <1>0, <1>1, <1>5, <2>7
  <2> QED
    BY <2>7, <2>8 DEF FieldReads
<1> QED
  BY <1>0, <1>1, <1>3, <1>4, <1>5

LEMMA FieldReadParse ==
    ASSUME Typed, Placed, Parse, Read, ~cut'
    PROVE  FieldRead'
<1> DEFINE part == form[at]
           content == Content(part)
           r == ReadOf
<1>1. /\ Len(calls) = 0 /\ NextByte \in Bytes /\ Sent /\ form' = form /\ body' = body /\ Where
      /\ sessionid' = sessionid /\ filename' = filename /\ parttype' = parttype
  BY ParseKeeps DEF Typed
<1>2. SUFFICES ASSUME at' \in 1 .. Len(form), form[at'] # "filedata",
                      place' - 1 - HeaderLength(form[at']) > 0
               PROVE  FieldRead'
  BY <1>1 DEF FieldRead, ReadOf
<1>3. at' = at /\ place' = place + 1 /\ place \in Nat
  <2>1. Advance
    BY ParseReads
  <2>2. Len(form) \in Nat /\ form[at'] \in Parts
    BY <1>1, <1>2, FormTyped
  <2>3. HeaderLength(form[at']) \in {13, 21}
    BY <2>2, HeaderBytesTyped
  <2>4. place' # 1
    BY <1>2, <2>3
  <2> QED
    BY <1>1, <1>2, <2>1, <2>2, <2>4, AdvanceCases DEF Where
<1>4. /\ at \in 1 .. Len(form) /\ part \in Parts /\ part # "filedata" /\ HeaderLength(part) = 13
  BY <1>2, <1>3, NextOf DEF HeaderLength
<1>5. /\ r \in Nat /\ r < Len(Stream(part)) /\ NextByte = Stream(part)[r + 1] /\ place = r + 14
      /\ place > 13
  BY <1>2, <1>3, <1>4, NextOf DEF ReadOf
<1>6. PICK last : Reading(last)
  BY UncutReads
<1>7. parser \in Parser
  BY DEF Typed
<1>8. /\ content \in Seq(Bytes) /\ Len(content) > 0 /\ content' = content
      /\ \A i \in 1 .. Len(content) : content[i] # CR
  BY <1>1, <1>3, <1>4, FieldContent
<1>9. parttype = part
  <2>1. CASE place = 14
    BY <1>4, <2>1 DEF Read, HeaderRead, HeaderKnown
  <2>2. CASE place # 14
    <3>1. parser.state \in DataStates
      BY <1>4, <1>5, <2>2 DEF Placed, PlacedAt
    <3>2. InData /\ PartOf = at
      BY <3>1, ParseKeeps DEF InData
    <3> QED
      BY <3>2 DEF Read, PartKnown
  <2> QED
    BY <2>1, <2>2
<1>10. last => parser'.state # "part_data"
  BY <1>4, <1>6, <1>9 DEF Reading
<1>11. FieldReads(content, r + 1, Consume(parser, NextByte, last))
  <2>1. CASE r = 0
    <3>1. parser.state = "part_data_start"
      BY <1>4, <1>5, <2>1, PlainStates DEF Placed, PlacedAt
    <3>2. NextByte = content[1]
      BY <1>4, <1>5, <1>8, <2>1, StreamTyped, ParseKeeps
    <3>3. parser'.state = "part_data"
      <4> DEFINE call == Call("headers_complete", <<>>)
                 s == Consume(parser, NextByte, last)
      <4>1. s = ThenData(parser, NextByte, last, <<call>>)
        BY <3>1, Handlers
      <4>2. call \in Calls
        <5>1. "headers_complete" \in Callbacks /\ <<>> \in Seq(Bytes)
          BY DEF Callbacks
        <5> QED
          BY <5>1, CallTyped
      <4> HIDE DEF call
      <4>3. DataBegins(NextByte, call, s)
        BY <1>1, <4>1, <4>2, ThenDataStep
      <4>4. NextByte # CR
        BY <1>8, <3>2
      <4>5. s.parser.state = "part_data"
        BY <4>3, <4>4 DEF DataBegins
      <4> QED
        BY <1>6, <4>5 DEF Reading
    <3>4. ~last
      BY <1>10, <3>3
    <3> QED
      BY <1>7, <1>8, <2>1, <3>1, <3>2, <3>4, FieldOpens
  <2>2. CASE r # 0
    <3>1. /\ parser.state \in DataStates
          /\ Scanned(content, r, Held(parser))
      BY <1>4, <1>5, <2>2 DEF Placed, PlacedAt
    <3>2. /\ r <= Len(content) => parser.state = "part_data" /\ parser.chunk = SubSeq(content, 1, r)
          /\ r > Len(content) => parser.chunk = <<>>
      BY <1>4, <1>5, <2>2 DEF Read, FieldRead, ReadOf
    <3>3. r + 1 < Len(content \o Delimiter)
      <4>1. Len(PartBytes(at)) = 13 + Len(Stream(part)) /\ Len(Stream(part)) \in Nat
        BY <1>4, NextOf
      <4>2. place < Len(PartBytes(at))
        <5>1. Advance /\ Len(form) \in Nat
          BY <1>1, ParseReads, FormTyped
        <5> QED
          BY <1>1, <1>3, <1>4, <5>1, AdvanceCases
      <4> QED
        BY <1>5, <4>1, <4>2 DEF Stream
    <3>4. NextByte = (content \o Delimiter)[r + 1]
      BY <1>5 DEF Stream
    <3>5. last => Consume(parser, NextByte, last).parser.state # "part_data"
      BY <1>6, <1>10, Zenon DEF Reading
    <3>6. r > 0
      BY <1>5, <2>2
    <3> HIDE DEF content, r
    <3> QED
      BY <1>5, <3>6, <1>7, <1>8, <2>2, <3>1, <3>2, <3>3, <3>4, <3>5, FieldGoesOn
  <2> QED
    BY <2>1, <2>2
<1>12. /\ r + 1 <= Len(content) =>
            /\ parser'.state = "part_data" /\ parser'.chunk = SubSeq(content, 1, r + 1)
            /\ \A i \in DOMAIN calls' : calls'[i].on = "headers_complete"
       /\ r + 1 > Len(content) =>
            /\ parser'.chunk = <<>>
            /\ \A i \in DOMAIN calls' : calls'[i].on = "part_data" /\ calls'[i].data = content
            /\ r + 1 = Len(content) + 1 => Len(calls') # 0
  BY <1>6, <1>11, Zenon DEF Reading, FieldReads
<1>13. r + 1 > Len(content) /\ Len(calls') = 0 => Holds(part)'
  <2>1. r + 1 > Len(content) /\ Len(calls') = 0 => r > Len(content)
    BY <1>5, <1>8, <1>12
  <2>2. r > Len(content) => Holds(part)
    BY <1>1, <1>4, <1>5, <1>8 DEF Read, FieldRead, ReadOf
  <2> QED
    BY <1>1, <1>3, <2>1, <2>2 DEF Holds
<1>14. ReadOf' = r + 1 /\ part' = part
  BY <1>1, <1>3, <1>4, <1>5 DEF ReadOf, HeaderLength
<1> HIDE DEF r, content, part
<1> QED
  BY <1>8, <1>12, <1>13, <1>14 DEF FieldRead, part, content, r

LEMMA PartKnownParse ==
    ASSUME Typed, Placed, Parse, Read
    PROVE  PartKnown'
<1>1. Sent /\ form' = form /\ parttype' = parttype /\ PartOf = at /\ Where
  BY ParseKeeps DEF Typed
<1>2. CASE InData'
  <2>1. InData /\ PartOf' = PartOf
    BY <1>2, ParsePhase, PartKept
  <2>2. parttype = form[PartOf]
    BY <2>1 DEF Read, PartKnown
  <2> QED
    BY <1>1, <2>1, <2>2 DEF PartKnown
<1>3. CASE Opening'
  <2>1. parser.state = "part_data_start"
    BY <1>3, OpeningParse
  <2>2. at \in 1 .. Len(form) /\ place = HeaderLength(form[at]) + 1 /\ form[at] \in Parts
    BY <1>1, <2>1, OpenPlace, FormTyped
  <2>3. HeaderLength(form[at]) \in {13, 21} /\ place \in 3 .. HeaderLength(form[at]) + 1 /\ place > 11
    BY <2>2, HeaderBytesTyped
  <2>4. parttype = form[at]
    BY <2>2, <2>3 DEF Read, HeaderRead, HeaderKnown
  <2>5. at' = at
    BY <2>1, OpenMoves DEF Begun
  <2>6. PartOf' = at'
    BY <1>3 DEF Opening, Closing, PartOf
  <2> QED
    BY <1>1, <2>4, <2>5, <2>6 DEF PartKnown
<1> QED
  BY <1>2, <1>3 DEF PartKnown

LEMMA PastParse ==
    ASSUME Typed, Placed, Parse, Read
    PROVE  Past'
<1>1. /\ Sent /\ Where /\ Len(calls) = 0 /\ form' = form
      /\ sessionid' = sessionid /\ filename' = filename
  BY ParseKeeps DEF Typed
<1>2. ASSUME NEW part PROVE Holds(part)' <=> Holds(part)
  BY <1>1 DEF Holds
<1>3. SUFFICES ASSUME NEW i \in 1 .. Len(form), i < at' PROVE Holds(form[i])
  BY <1>1, <1>2 DEF Past, Holds
<1>4. Len(form) \in Nat /\ i \in Nat /\ at \in Nat /\ form[i] \in Parts
  BY <1>1, FormTyped DEF Where
<1>5. CASE i < at
  BY <1>5 DEF Read, Past
<1>6. CASE i >= at
  <2>1. Advance
    BY ParseReads
  <2>2. at = i /\ place = Len(PartBytes(at))
    BY <1>1, <1>3, <1>4, <1>6, <2>1, AdvanceCases
  <2>3. CASE form[i] = "filedata"
    BY <2>3 DEF Holds
  <2>4. CASE form[i] # "filedata"
    <3>1. /\ Len(PartBytes(at)) = HeaderLength(form[at]) + Len(Stream(form[at])) /\ place \in Nat
          /\ HeaderLength(form[at]) \in {13, 21}
      BY <1>3, <2>2, NextOf
    <3>2. /\ Len(Stream(form[at])) = Len(Content(form[at])) + Len(Delimiter)
          /\ Content(form[at]) \in Seq(Bytes)
      BY <1>1, <1>4, <2>2, StreamTyped, ContentTyped
    <3>3. Len(Delimiter) = 2 + Len(Boundary) /\ Len(Boundary) \in Nat
      BY DelimiterBytes, BytesTyped
    <3>4. ReadOf > Len(Content(form[at])) /\ ReadOf > 0
      BY <2>2, <3>1, <3>2, <3>3 DEF ReadOf
    <3> QED
      BY <1>1, <1>3, <2>2, <2>4, <3>4 DEF Read, FieldRead
  <2> QED
    BY <2>3, <2>4
<1> QED
  BY <1>4, <1>5, <1>6

LEMMA AskedParse ==
    ASSUME Typed, Placed, Parse, Read
    PROVE  Asked'
<1>1. Sent /\ Where /\ form' = form /\ granted' = granted /\ PartOf = at /\ Len(form) \in Nat
  BY ParseKeeps, FormTyped DEF Typed
<1>2. PartOf' \in Nat /\ PartOf' >= PartOf
  <2>1. at \in Nat
    BY <1>1 DEF Where
  <2>2. CASE InData
    BY <1>1, <2>1, <2>2, PartKept
  <2>3. CASE ~InData
    <3>1. ~Closing'
      BY <2>3, ParsePhase DEF InData
    <3> QED
      BY <1>1, <2>1, <2>3, <3>1, PartKept DEF PartOf
  <2> QED
    BY <2>2, <2>3
<1>3. SUFFICES ASSUME granted PROVE \E i \in 1 .. Len(form) : i < PartOf' /\ form[i] = "sessionid"
  BY <1>1 DEF Asked
<1>4. PICK i \in 1 .. Len(form) : i < PartOf /\ form[i] = "sessionid"
  BY <1>3 DEF Read, Asked
<1>5. PartOf \in Nat
  BY <1>1 DEF Where
<1> QED
  BY <1>1, <1>2, <1>4, <1>5

LEMMA EndingParse ==
    ASSUME Typed, Placed, Parse, Read
    PROVE  Ending'
<1>1. Sent /\ Where /\ form' = form /\ ~Closing /\ Len(form) \in Nat /\ at \in Nat /\ place \in Nat
  BY ParseKeeps, FormTyped DEF Typed, Where
<1>2. SUFFICES ASSUME at' > Len(form) PROVE Closing'
  BY <1>1 DEF Ending
<1>3. at <= Len(form)
  BY <1>1 DEF Read, Ending
<1>4. at = Len(form) /\ at' = at + 1 /\ place = Len(PartBytes(at))
  <2>1. Advance
    BY ParseReads
  <2> QED
    BY <1>1, <1>2, <1>3, <2>1, AdvanceCases
<1>5. parser.state \in DataStates
  <2>1. at \in 1 .. Len(form)
    BY <1>1, <1>4, FormTyped
  <2>2. /\ Len(PartBytes(at)) = HeaderLength(form[at]) + Len(Stream(form[at]))
        /\ Len(Stream(form[at])) \in Nat /\ Len(Stream(form[at])) > 2 /\ HeaderLength(form[at]) \in {13, 21}
    BY <2>1, NextOf
  <2>3. place > HeaderLength(form[at]) + 1
    BY <1>4, <2>2
  <2> QED
    BY <2>1, <2>3 DEF Placed, PlacedAt
<1>6. More \/ Ended
  BY <1>5, DataMoves
<1> QED
  BY <1>1, <1>4, <1>6 DEF More, Ended

LEMMA WholeParse ==
    ASSUME Typed, Placed, Whole, Parse
    PROVE  Whole'
<1>1. SUFFICES ASSUME running', ~cut' PROVE Read'
  BY DEF Whole
<1>2. ~cut /\ running
  BY <1>1, UncutReads, ParseKeeps
<1>3. Read
  BY <1>2 DEF Whole
<1> QED
  BY <1>1, <1>3, HeaderReadParse, FieldReadParse, PartKnownParse, PastParse, AskedParse, EndingParse DEF Read

-----------------------------------------------------------------------------
(* A callback is made, and the parser goes on *)

\* What is left after the first of the calls: part of it is what was there.
LEMMA RestCalls ==
    ASSUME Typed, Made, calls' = Tail(calls)
    PROVE  /\ Len(calls) # 0 /\ 1 \in DOMAIN calls /\ calls' \in Seq(Calls) /\ Len(calls') \in Nat
           /\ \A i \in DOMAIN calls' : \E j \in DOMAIN calls : calls'[i] = calls[j]
           /\ form' = form /\ body' = body /\ at' = at /\ place' = place /\ parser' = parser
<1>1. calls \in Seq(Calls) /\ Len(calls) \in {1, 2}
  BY DEF Typed, Made
<1>2. /\ Tail(calls) \in Seq(Calls) /\ Len(Tail(calls)) \in {0, 1}
      /\ \A i \in DOMAIN Tail(calls) : calls[2] = Tail(calls)[i] /\ i = 1 /\ Len(calls) = 2
  BY <1>1, TailRest
<1>3. \A i \in DOMAIN calls' : calls'[i] = calls[2] /\ 2 \in DOMAIN calls
  BY <1>1, <1>2
<1> QED
  BY <1>1, <1>2, <1>3 DEF Made, input

\* Callbacks that leave the fields, the part and the access alone, or set what was asked for.
LEMMA FieldReadMade ==
    ASSUME Typed, Made, calls' = Tail(calls), Read,
           calls[1].on = "part_data" /\ at \in 1 .. Len(form) /\ form[at] # "filedata"
              /\ ReadOf > Len(Content(form[at])) /\ calls[1].data = Content(form[at])
              => Holds(form[at])'
    PROVE  FieldRead'
<1>1. /\ Len(calls) # 0 /\ 1 \in DOMAIN calls
      /\ \A i \in DOMAIN calls' : \E j \in DOMAIN calls : calls'[i] = calls[j]
      /\ form' = form /\ body' = body /\ at' = at /\ place' = place /\ parser' = parser
  BY RestCalls
<1>2. CASE ~(at \in 1 .. Len(form) /\ form[at] # "filedata" /\ ReadOf > 0)
  BY <1>1, <1>2 DEF FieldRead, ReadOf
<1>3. CASE at \in 1 .. Len(form) /\ form[at] # "filedata" /\ ReadOf > 0
  <2> DEFINE content == Content(form[at])
             n == Len(content)
  <2>1. content' = content /\ ReadOf' = ReadOf
    <3>1. Sent /\ form[at] \in Parts
      BY <1>3, FormTyped DEF Typed
    <3> QED
      BY <1>1, <1>3, <3>1, FieldContent DEF ReadOf, HeaderLength
  <2>2. /\ ReadOf <= n =>
             /\ parser.state = "part_data" /\ parser.chunk = SubSeq(content, 1, ReadOf)
             /\ \A i \in DOMAIN calls : calls[i].on = "headers_complete"
        /\ ReadOf > n =>
             /\ parser.chunk = <<>>
             /\ \A i \in DOMAIN calls : calls[i].on = "part_data" /\ calls[i].data = content
    BY <1>3 DEF Read, FieldRead
  <2>3. ReadOf > n => Holds(form[at])'
    BY <1>1, <1>3, <2>2
  <2> HIDE DEF content
  <2>4. /\ ReadOf <= n =>
             /\ parser'.state = "part_data" /\ parser'.chunk = SubSeq(content, 1, ReadOf)
             /\ \A i \in DOMAIN calls' : calls'[i].on = "headers_complete"
        /\ ReadOf > n =>
             /\ parser'.chunk = <<>>
             /\ \A i \in DOMAIN calls' : calls'[i].on = "part_data" /\ calls'[i].data = content
    <3>1. ASSUME NEW i \in DOMAIN calls', ReadOf <= n PROVE calls'[i].on = "headers_complete"
      BY <1>1, <2>2, <3>1
    <3>2. ASSUME NEW i \in DOMAIN calls', ReadOf > n
          PROVE  calls'[i].on = "part_data" /\ calls'[i].data = content
      BY <1>1, <2>2, <3>2
    <3> QED
      BY <1>1, <2>2, <3>1, <3>2
  <2> QED
    BY <1>1, <2>1, <2>3, <2>4 DEF FieldRead, content
<1> QED
  BY <1>2, <1>3

\* The callbacks of the body of a part come when the header is read.
LEMMA HeaderReadMade ==
    ASSUME Typed, Made, calls' = Tail(calls), Read,
           at \in 1 .. Len(form) /\ place \in 3 .. HeaderLength(form[at]) + 1
              /\ HeaderTold(form[at], place, calls[1])
              => HeaderKnown(form[at], place, Len(calls) = 0)'
    PROVE  HeaderRead'
<1>1. /\ Len(calls) # 0 /\ 1 \in DOMAIN calls
      /\ \A i \in DOMAIN calls' : \E j \in DOMAIN calls : calls'[i] = calls[j]
      /\ form' = form /\ at' = at /\ place' = place /\ parser' = parser
  BY RestCalls
<1>2. CASE ~(at \in 1 .. Len(form) /\ place \in 3 .. HeaderLength(form[at]) + 1)
  BY <1>1, <1>2 DEF HeaderRead
<1>3. CASE at \in 1 .. Len(form) /\ place \in 3 .. HeaderLength(form[at]) + 1
  <2>1. /\ parser.chunk = Slice(form[at], place)
        /\ \A i \in DOMAIN calls : HeaderTold(form[at], place, calls[i])
    BY <1>3 DEF Read, HeaderRead
  <2>2. \A i \in DOMAIN calls' : HeaderTold(form[at], place, calls'[i])
    BY <1>1, <2>1, Zenon
  <2>3. HeaderKnown(form[at], place, Len(calls) = 0)'
    BY <1>1, <1>3, <2>1
  <2> QED
    BY <1>1, <2>1, <2>2, <2>3 DEF HeaderRead
<1> QED
  BY <1>2, <1>3

\* What a callback keeps when it is not the last of a part.
LEMMA RestMade ==
    ASSUME Typed, Made, calls' = Tail(calls), Read, calls[1].on # "part_data_end",
           granted' = granted,
           \A part \in Parts : Holds(part) => Holds(part)'
    PROVE  Past' /\ Asked' /\ Ending'
<1>1. form' = form /\ at' = at /\ \A i \in 1 .. Len(form) : form[i] \in Parts
  BY RestCalls, FormTyped DEF Typed
<1>2. ~Closing /\ ~Closing' /\ PartOf = at /\ PartOf' = at'
  BY MadePhase DEF Closing, PartOf
<1>3. Past'
  <2>1. ASSUME NEW i \in 1 .. Len(form), i < at PROVE Holds(form[i])'
    <3>1. PICK part \in Parts : part = form[i]
      BY <1>1
    <3>2. Holds(part)'
      BY <2>1, <3>1 DEF Read, Past
    <3> QED
      BY <1>1, <3>1, <3>2
  <2> QED
    BY <1>1, <2>1 DEF Past
<1>4. Asked'
  BY <1>1, <1>2 DEF Read, Asked
<1>5. Ending'
  BY <1>1, <1>2 DEF Read, Ending
<1> QED
  BY <1>3, <1>4, <1>5

LEMMA NoHeaderTold ==
    ASSUME Typed, Made, calls' = Tail(calls), Read, calls[1].on \notin {"header_field", "header_value"}
    PROVE  HeaderRead'
<1>1. ~HeaderTold(form[at], place, calls[1])
  BY DEF HeaderTold
<1> QED
  BY <1>1, HeaderReadMade

LEMMA NamesApart == IsPrefix(Disposition, Disposition) /\ ~IsPrefix(TypeName, Disposition)
<1> DEFINE d == Disposition
           t == TypeName
<1>1. /\ d \in Seq(Bytes) /\ Len(d) = 3 /\ d[3] = "Disposition"
      /\ t \in Seq(Bytes) /\ Len(t) = 3 /\ t[3] = "Type"
  BY Words DEF Disposition, TypeName
<1> HIDE DEF d, t
<1>2. SubSeq(d, 1, 3) = d /\ SubSeq(t, 1, 3) = t
  BY <1>1
<1>3. SubSeq(t, 1, Len(t)) # SubSeq(d, 1, Len(t))
  BY <1>1, <1>2
<1> QED
  BY <1>1, <1>3 DEF IsPrefix, d, t

LEMMA FieldNameReads ==
    ASSUME Typed, Placed, Read, HeaderFieldCb
    PROVE  Read'
<1>1. /\ Made /\ calls[1].on = "header_field" /\ calls[1].data = data /\ calls' = Tail(calls)
      /\ is_content_disposition' = IsPrefix(data, Disposition) /\ parttype' = parttype
      /\ granted' = granted /\ sessionid' = sessionid /\ filename' = filename
  BY CallbackMakes, CalledBy DEF Typed, HeaderFieldCb, Callback, GoOn
<1>2. ASSUME NEW part PROVE Holds(part)' <=> Holds(part)
  BY <1>1 DEF Holds
<1>3. Past' /\ Asked' /\ Ending'
  BY <1>1, <1>2, RestMade
<1>4. FieldRead'
  BY <1>1, FieldReadMade
<1>5. PartKnown'
  BY <1>1, MadePhase DEF PartKnown
<1>6. HeaderRead'
  <2>1. SUFFICES ASSUME at \in 1 .. Len(form), place \in 3 .. HeaderLength(form[at]) + 1,
                        HeaderTold(form[at], place, calls[1])
                 PROVE  HeaderKnown(form[at], place, Len(calls) = 0)'
    BY <1>1, HeaderReadMade
  <2>2. HeaderKnown(form[at], place, Len(calls) = 0) /\ Len(calls) # 0
    BY <2>1, <1>1, RestCalls DEF Read, HeaderRead
  <2>3. form' = form /\ at' = at /\ place' = place
    BY <1>1, RestCalls
  <2>4. \/ place = 7 /\ data = Disposition
        \/ form[at] = "filedata" /\ place = 16 /\ data = TypeName
    BY <1>1, <2>1 DEF HeaderTold
  <2>5. CASE place = 7 /\ data = Disposition
    <3>1. is_content_disposition'
      BY <1>1, <2>5, NamesApart
    <3> QED
      BY <2>3, <2>5, <3>1 DEF HeaderKnown
  <2>6. CASE form[at] = "filedata" /\ place = 16 /\ data = TypeName
    <3>1. ~is_content_disposition'
      BY <1>1, <2>6, NamesApart
    <3>2. parttype = form[at]
      BY <2>2, <2>6 DEF HeaderKnown
    <3> QED
      BY <1>1, <2>3, <2>6, <3>1, <3>2 DEF HeaderKnown
  <2> QED
    BY <2>4, <2>5, <2>6
<1> QED
  BY <1>3, <1>4, <1>5, <1>6 DEF Read

LEMMA FieldValueReads ==
    ASSUME Typed, Placed, Read, HeaderValueCb
    PROVE  Read'
<1>1. /\ Made /\ calls[1].on = "header_value" /\ calls[1].data = data /\ calls' = Tail(calls)
      /\ is_content_disposition' = is_content_disposition
      /\ parttype' \in IF is_content_disposition THEN Recognised ELSE {parttype}
      /\ granted' = granted /\ sessionid' = sessionid /\ filename' = filename
  BY CallbackMakes, CalledBy DEF Typed, HeaderValueCb, Callback, GoOn
<1>2. ASSUME NEW part PROVE Holds(part)' <=> Holds(part)
  BY <1>1 DEF Holds
<1>3. Past' /\ Asked' /\ Ending'
  BY <1>1, <1>2, RestMade
<1>4. FieldRead'
  BY <1>1, FieldReadMade
<1>5. PartKnown'
  BY <1>1, MadePhase DEF PartKnown
<1>6. HeaderRead'
  <2>1. SUFFICES ASSUME at \in 1 .. Len(form), place \in 3 .. HeaderLength(form[at]) + 1,
                        HeaderTold(form[at], place, calls[1])
                 PROVE  HeaderKnown(form[at], place, Len(calls) = 0)'
    BY <1>1, HeaderReadMade
  <2>2. HeaderKnown(form[at], place, FALSE)
    <3>1. HeaderKnown(form[at], place, Len(calls) = 0) /\ Len(calls) # 0
      BY <2>1, <1>1, RestCalls DEF Read, HeaderRead
    <3> QED
      BY <3>1
  <2>3. form' = form /\ at' = at /\ place' = place
    BY <1>1, RestCalls
  <2>4. \/ place = 11 /\ Names(data, form[at])
        \/ form[at] = "filedata" /\ place = 19
    BY <1>1, <2>1 DEF HeaderTold
  <2>5. CASE place = 11 /\ Names(data, form[at])
    <3>1. is_content_disposition
      BY <2>2, <2>5 DEF HeaderKnown
    <3>2. Recognised = {form[at]}
      <4>1. Len(data) >= 2 /\ data[1] = "form-data" /\ data[2] = form[at]
        BY <2>5 DEF Names
      <4>2. Head(data) = data[1]
        <5>1. data \in Seq(Bytes)
          BY <1>1, MadePhase
        <5> HIDE DEF data
        <5> QED
          BY <5>1, <4>1
      <4> HIDE DEF data
      <4> QED
        BY <4>1, <4>2 DEF Recognised
    <3>3. parttype' = form[at]
      BY <1>1, <3>1, <3>2
    <3> QED
      BY <1>1, <2>3, <2>5, <3>1, <3>3 DEF HeaderKnown
  <2>6. CASE form[at] = "filedata" /\ place = 19
    <3>1. ~is_content_disposition /\ parttype = form[at]
      BY <2>2, <2>6 DEF HeaderKnown
    <3> QED
      BY <1>1, <2>3, <2>6, <3>1 DEF HeaderKnown
  <2> QED
    BY <2>4, <2>5, <2>6
<1> QED
  BY <1>3, <1>4, <1>5, <1>6 DEF Read

LEMMA BeginReads ==
    ASSUME Typed, Placed, Read, DataBegin, running'
    PROVE  Read'
<1>1. /\ Made /\ calls[1].on = "headers_complete" /\ calls' = Tail(calls)
      /\ parttype' = parttype /\ granted' = granted /\ sessionid' = sessionid /\ filename' = filename
  <2>1. Made /\ calls[1].on = "headers_complete"
    BY CallbackMakes, CalledBy DEF Typed, DataBegin, Callback
  <2>2. calls' = Tail(calls)
    BY Zenon DEF DataBegin, Respond, GoOn
  <2> QED
    BY <2>1, <2>2 DEF DataBegin, st
<1>2. ASSUME NEW part PROVE Holds(part)' <=> Holds(part)
  BY <1>1 DEF Holds
<1>3. Past' /\ Asked' /\ Ending'
  BY <1>1, <1>2, RestMade
<1>4. FieldRead' /\ HeaderRead'
  BY <1>1, FieldReadMade, NoHeaderTold
<1>5. PartKnown'
  <2>1. Opening /\ ~Closing /\ ~Closing'
    BY <1>1, MadePhase DEF Closing
  <2>2. parttype = form[at] /\ PartOf' = at' /\ at' = at /\ form' = form
    BY <1>1, <2>1, RestCalls DEF Read, PartKnown, PartOf
  <2> QED
    BY <1>1, <2>2 DEF PartKnown
<1> QED
  BY <1>3, <1>4, <1>5 DEF Read

\* A slice is passed on for the part the parser is in.
LEMMA DataPart ==
    ASSUME Typed, Placed, Made, Read, calls[1].on = "part_data"
    PROVE  /\ at \in 1 .. Len(form) /\ place > HeaderLength(form[at]) + 1
           /\ parttype = form[at] /\ ~Closing /\ ~Closing' /\ at' = at /\ form' = form
           /\ PartOf' = at
<1>1. InData /\ ~Opening /\ ~Closing /\ ~Closing'
  BY MadePhase
<1>2. parser.state \in DataStates
  BY <1>1 DEF InData
<1>3. parttype = form[at]
  BY <1>1 DEF Read, PartKnown, PartOf
<1> QED
  BY <1>1, <1>2, <1>3, InDataPlace DEF Made, PartOf, input

LEMMA WriteReads ==
    ASSUME Typed, Placed, Read, WriteTemp, running'
    PROVE  Read'
<1>1. /\ Made /\ calls[1].on = "part_data" /\ calls' = Tail(calls) /\ parttype = "filedata"
      /\ parttype' = parttype /\ granted' = granted /\ sessionid' = sessionid /\ filename' = filename
  <2>1. Made /\ calls[1].on = "part_data"
    BY CallbackMakes, CalledBy DEF Typed, WriteTemp, Callback
  <2>2. calls' = Tail(calls)
    BY Zenon DEF WriteTemp, Respond, GoOn
  <2> QED
    BY <2>1, <2>2 DEF WriteTemp
<1>2. ASSUME NEW part PROVE Holds(part)' <=> Holds(part)
  BY <1>1 DEF Holds
<1>3. Past' /\ Asked' /\ Ending'
  BY <1>1, <1>2, RestMade
<1>4. FieldRead' /\ HeaderRead'
  BY <1>1, DataPart, FieldReadMade, NoHeaderTold
<1>5. PartKnown'
  BY <1>1, DataPart DEF PartKnown
<1> QED
  BY <1>3, <1>4, <1>5 DEF Read

LEMMA SetReads ==
    ASSUME Typed, Placed, Read, SetField
    PROVE  Read'
<1>1. /\ Made /\ calls[1].on = "part_data" /\ calls[1].data = data /\ calls' = Tail(calls)
      /\ parttype # "filedata" /\ parttype' = parttype /\ granted' = granted
      /\ sessionid' = IF parttype = "sessionid" THEN data ELSE sessionid
      /\ filename' = IF parttype = "filename" THEN data ELSE filename
  BY CallbackMakes, CalledBy DEF Typed, SetField, Callback, GoOn
<1>2. /\ at \in 1 .. Len(form) /\ place > HeaderLength(form[at]) + 1 /\ parttype = form[at]
      /\ at' = at /\ form' = form /\ PartOf' = at
  BY <1>1, DataPart
<1>3. Sent /\ form[at] \in Parts /\ place \in Nat /\ HeaderLength(form[at]) \in {13, 21}
  BY <1>2, FormTyped, HeaderBytesTyped DEF Typed, Where
<1>4. data = Content(form[at])
  <2>1. ReadOf > 0
    BY <1>2, <1>3 DEF ReadOf
  <2>2. 1 \in DOMAIN calls
    BY <1>1, RestCalls
  <2>3. ReadOf \in Int /\ Len(Content(form[at])) \in Nat
    BY <1>1, <1>2, <1>3, FieldContent DEF ReadOf
  <2> QED
    BY <1>1, <1>2, <2>1, <2>2, <2>3 DEF Read, FieldRead
<1>5. /\ form[at] = "sessionid" => data = SessionId
      /\ form[at] = "filename" => data = FileName
  BY <1>1, <1>2, <1>3, <1>4, FieldContent
<1> HIDE DEF data
<1>6. ASSUME NEW part, Holds(part) \/ part = form[at] PROVE Holds(part)'
  BY <1>1, <1>2, <1>5, <1>6 DEF Holds
<1>7. Past' /\ Asked' /\ Ending'
  <2>1. \A part \in Parts : Holds(part) => Holds(part)'
    BY <1>6
  <2> QED
    BY <1>1, <2>1, RestMade
<1>8. FieldRead' /\ HeaderRead'
  <2>1. Holds(form[at])'
    BY <1>1, <1>2, <1>5 DEF Holds
  <2> QED
    BY <1>1, <2>1, FieldReadMade, NoHeaderTold
<1>9. PartKnown'
  BY <1>1, <1>2 DEF PartKnown
<1> QED
  BY <1>7, <1>8, <1>9 DEF Read

\* A part is ended: the place after it, and what it was.
LEMMA EndedPart ==
    ASSUME Typed, Placed, Made, Read, calls[1].on = "part_data_end"
    PROVE  /\ Closing /\ ~Closing' /\ ~Opening' /\ ~InData' /\ PartOf = at - 1 /\ PartOf' = at
           /\ at \in 2 .. Len(form) + 1 /\ parttype = form[at - 1] /\ form' = form /\ at' = at
<1>1. InData /\ Closing /\ ~Closing' /\ ~Opening' /\ ~InData'
  BY MadePhase
<1>2. PartOf = at - 1 /\ at \in 2 .. Len(form) + 1
  BY <1>1, ClosingPlace DEF PartOf
<1>3. form' = form /\ at' = at
  BY DEF Made, input
<1> QED
  BY <1>1, <1>2, <1>3 DEF Read, PartKnown, PartOf

LEMMA EndReads ==
    ASSUME Typed, Placed, Made, Read, calls[1].on = "part_data_end", calls' = Tail(calls),
           parttype # "filedata", granted' # granted => parttype = "sessionid",
           sessionid' = sessionid, filename' = filename
    PROVE  Read'
<1>1. /\ Closing /\ ~Closing' /\ ~Opening' /\ ~InData' /\ PartOf = at - 1 /\ PartOf' = at
      /\ at \in 2 .. Len(form) + 1 /\ parttype = form[at - 1] /\ form' = form /\ at' = at
  BY EndedPart
<1>2. Len(form) \in Nat /\ form[Len(form)] = "filedata" /\ at \in Nat
  BY FormTyped DEF Typed, Where
<1>3. FieldRead' /\ HeaderRead'
  BY FieldReadMade, NoHeaderTold
<1>4. PartKnown'
  BY <1>1 DEF PartKnown
<1>5. Past'
  BY <1>1 DEF Read, Past, Holds
<1>6. Asked'
  <2>1. SUFFICES ASSUME granted' PROVE \E i \in 1 .. Len(form) : i < at /\ form[i] = "sessionid"
    BY <1>1 DEF Asked
  <2>2. CASE parttype = "sessionid"
    <3>1. at - 1 \in 1 .. Len(form) /\ at - 1 < at /\ form[at - 1] = "sessionid"
      BY <1>1, <1>2, <2>2
    <3> QED
      BY <3>1
  <2>3. CASE parttype # "sessionid"
    <3>1. granted
      BY <2>1, <2>3
    <3>2. PICK i \in 1 .. Len(form) : i < at - 1 /\ form[i] = "sessionid"
      BY <1>1, <3>1 DEF Read, Asked
    <3> QED
      BY <1>2, <3>2
  <2> QED
    BY <2>2, <2>3
<1>7. Ending'
  <2>1. at # Len(form) + 1
    BY <1>1, <1>2
  <2>2. ~(at > Len(form))
    BY <1>1, <1>2, <2>1
  <2> QED
    BY <1>1, <2>2 DEF Ending
<1> QED
  BY <1>3, <1>4, <1>5, <1>6, <1>7 DEF Read

LEMMA WholeKept == ASSUME Typed, Placed, Whole, [Next]_vars PROVE Whole'
<1>1. CASE Parse
  BY <1>1, WholeParse
<1>2. CASE UNCHANGED vars \/ FinishCb
  <2>1. UNCHANGED <<at, place, running, parser, calls, st, form, body, granted, cut>>
    BY <1>2, Zenon DEF FinishCb, vars, input, ghosts
  <2>2. /\ at' = at /\ place' = place /\ running' = running /\ parser' = parser /\ calls' = calls
        /\ form' = form /\ body' = body /\ granted' = granted /\ cut' = cut
        /\ is_content_disposition' = is_content_disposition /\ parttype' = parttype
        /\ sessionid' = sessionid /\ filename' = filename
    BY <2>1 DEF st
  <2> QED
    BY <2>2 DEF Whole, Read, HeaderRead, FieldRead, PartKnown, Past, Asked, Ending, HeaderKnown, Holds,
                ReadOf, PartOf, InData, Opening, Closing, Content
<1>3. CASE Callback
  <2>1. SUFFICES ASSUME running', ~cut' PROVE Read'
    BY DEF Whole
  <2>2. Made /\ Len(calls) # 0 /\ cut' = cut
    BY <1>3, CallbackMakes, Zenon DEF Typed, Callback, Called, Made, HeaderFieldCb, HeaderValueCb,
          DataBegin, SetField, WriteTemp, EndSession, EndFile, EndOther
  <2>3. Read
    BY <2>1, <2>2 DEF Typed, Whole
  <2>4. CASE HeaderFieldCb \/ HeaderValueCb \/ DataBegin \/ SetField \/ WriteTemp
    BY <2>1, <2>3, <2>4, FieldNameReads, FieldValueReads, BeginReads, SetReads, WriteReads
  <2>5. CASE EndSession
    <3>1. calls[1].on = "part_data_end" /\ parttype = "sessionid"
      BY <2>5, CalledBy DEF Typed, EndSession
    <3>2. calls' = Tail(calls) /\ sessionid' = sessionid /\ filename' = filename
      BY <2>1, <2>5, Zenon DEF EndSession, GoOn, Respond
    <3> QED
      BY <2>2, <2>3, <3>1, <3>2, EndReads
  <2>6. CASE EndOther
    <3>1. calls[1].on = "part_data_end" /\ parttype # "filedata"
      BY <2>6, CalledBy DEF Typed, EndOther
    <3>2. calls' = Tail(calls) /\ sessionid' = sessionid /\ filename' = filename /\ granted' = granted
      BY <2>6, Zenon DEF EndOther, GoOn
    <3> QED
      BY <2>2, <2>3, <3>1, <3>2, EndReads
  <2>7. CASE EndFile
    <3>1. ~running'
      BY <2>7, Zenon DEF EndFile, Respond
    <3> QED
      BY <2>1, <3>1
  <2> QED
    BY <1>3, <2>4, <2>5, <2>6, <2>7 DEF Callback
<1> QED
  BY <1>1, <1>2, <1>3, Zenon DEF Next, Callback

LEMMA FilledKept == ASSUME Typed, Granting, Filled, [Next]_vars PROVE Filled'
<1>1. CASE temp' = temp /\ filedata' = filedata
  BY <1>1 DEF Filled
<1>2. CASE WriteTemp
  <2>1. /\ Made /\ calls[1].on = "part_data" /\ calls[1].data = data /\ parttype = "filedata"
        /\ \/ temp' = temp \o data /\ filedata' = (filedata \/ data # <<>>)
           \/ temp' = temp /\ filedata' = filedata
    BY <1>2, CallbackMakes, CalledBy DEF Typed, WriteTemp, Callback
  <2>2. temp \in Seq(Bytes) /\ data \in Seq(Bytes)
    <3>1. InData /\ running
      BY <2>1, MadePhase DEF Typed, Made
    <3> QED
      BY <2>1, <3>1, MadePhase DEF Granting
  <2> HIDE DEF data
  <2>3. CASE temp' = temp \o data /\ filedata' = (filedata \/ data # <<>>)
    <3>1. data = <<>> => temp' = temp
      BY <2>2, <2>3
    <3>2. data # <<>> => filedata'
      BY <2>3
    <3>3. data = <<>> => (filedata => filedata')
      BY <2>3
    <3> QED
      BY <3>1, <3>2, <3>3 DEF Filled
  <2> QED
    BY <1>1, <2>1, <2>3
<1>3. CASE DataBegin
  <2>1. temp' = <<>> \/ (temp' = temp /\ filedata' = filedata)
    BY <1>3, Zenon DEF DataBegin, st
  <2> QED
    BY <1>1, <2>1 DEF Filled
<1>4. CASE Parse \/ HeaderFieldCb \/ HeaderValueCb \/ SetField \/ EndSession \/ EndFile \/ EndOther
           \/ FinishCb \/ UNCHANGED vars
  <2>1. temp' = temp /\ filedata' = filedata
    BY <1>4, Zenon DEF Parse, HeaderFieldCb, HeaderValueCb, SetField, EndSession, EndFile, EndOther,
          FinishCb, vars, st, files
  <2> QED
    BY <1>1, <2>1
<1> QED
  BY <1>2, <1>3, <1>4, Zenon DEF Next

-----------------------------------------------------------------------------
(* How it ends *)

\* The file comes after the session that was granted access and after the name, which are whole.
LEMMA NamedBefore ==
    ASSUME Typed, Read, granted, "filename" \in ToSet(form),
           PartOf \in 1 .. Len(form), PartOf <= at, form[PartOf] = "filedata"
    PROVE  sessionid = SessionId /\ filename = FileName
<1>1. Len(form) \in 1 .. 3 /\ form[Len(form)] = "filedata" /\ Len(form) \in Nat /\ at \in Nat
  BY FormTyped DEF Typed, Where
<1>2. PICK i \in 1 .. Len(form) : i < PartOf /\ form[i] = "sessionid"
  BY DEF Read, Asked
<1>3. PICK j \in 1 .. Len(form) : form[j] = "filename"
  BY DEF ToSet
<1>4. j < PartOf
  <2> DEFINE n == PartOf
  <2>1. n \in 1 .. Len(form) /\ i < n /\ j # n /\ j # i /\ j # Len(form)
    BY <1>1, <1>2, <1>3
  <2> HIDE DEF n
  <2>2. j < n
    BY <1>1, <2>1
  <2> QED
    BY <2>2 DEF n
<1>5. i < at /\ j < at
  BY <1>1, <1>2, <1>3, <1>4
<1> QED
  BY <1>2, <1>3, <1>5 DEF Read, Past, Holds

\* A session is not asked for twice in a form that names a file.
LEMMA AskedOnce ==
    ASSUME Typed, Read, granted, "filename" \in ToSet(form),
           PartOf \in 1 .. Len(form), form[PartOf] = "sessionid"
    PROVE  FALSE
<1>1. Len(form) \in 1 .. 3 /\ form[Len(form)] = "filedata" /\ Len(form) \in Nat
  BY FormTyped DEF Typed
<1>2. PICK i \in 1 .. Len(form) : i < PartOf /\ form[i] = "sessionid"
  BY DEF Read, Asked
<1>3. PICK j \in 1 .. Len(form) : form[j] = "filename"
  BY DEF ToSet
<1> DEFINE n == PartOf
<1>4. n \in 1 .. Len(form) /\ i < n /\ j # n /\ j # i /\ j # Len(form) /\ n # Len(form)
  BY <1>1, <1>2, <1>3
<1> HIDE DEF n
<1> QED
  BY <1>1, <1>4

LEMMA OutcomeSame ==
    ASSUME Outcome, UNCHANGED <<running, cut, failed, granted, body, form, response, filename>>
    PROVE  Outcome'
BY DEF Outcome

\* No file is opened for a form without a session or a name: not for one that is granted access and named.
LEMMA OutcomeBegin ==
    ASSUME Typed, Placed, Whole, Outcome, DataBegin
    PROVE  Outcome'
<1>1. Made /\ calls[1].on = "headers_complete" /\ Len(calls) # 0 /\ running
  BY CallbackMakes, CalledBy DEF Typed, DataBegin, Callback
<1>2. /\ cut' = cut /\ form' = form /\ body' = body /\ granted' = granted
      /\ \/ failed' # {} \/ running' = running
         \/ parttype = "filedata" /\ NoText \in {sessionid, filename} /\ failed' = failed
  BY Zenon DEF DataBegin, Called, GoOn, Respond
<1>3. SUFFICES ASSUME ~running', ~cut', failed' = {}, granted', body' # <<>>, "filename" \in ToSet(form')
               PROVE  FALSE
  BY DEF Outcome
<1>4. /\ parttype = "filedata" /\ NoText \in {sessionid, filename}
      /\ Read /\ granted /\ "filename" \in ToSet(form)
  BY <1>1, <1>2, <1>3 DEF Whole
<1>5. Opening /\ ~Closing
  BY <1>1, MadePhase DEF Closing
<1>6. PartOf = at /\ form[at] = "filedata" /\ at \in 1 .. Len(form)
  <2>1. at \in Nat /\ Len(form) \in Nat
    BY FormTyped DEF Typed, Where
  <2>2. PartOf = at /\ form[at] = "filedata"
    BY <1>4, <1>5 DEF Read, PartKnown, PartOf
  <2>3. at <= Len(form)
    BY <1>4, <1>5, <2>1 DEF Read, Ending
  <2>4. at # 0
    <3>1. parser.state \in DataStates
      BY <1>1, MadePhase DEF InData
    <3> QED
      BY <3>1, InDataPlace
  <2> QED
    BY <2>1, <2>2, <2>3, <2>4
<1>7. sessionid = SessionId /\ filename = FileName
  BY <1>4, <1>6, NamedBefore
<1> QED
  BY <1>4, <1>7, WordsAssumption, NothingAssumption

LEMMA OutcomeSession ==
    ASSUME Typed, Placed, Whole, Outcome, EndSession
    PROVE  Outcome'
<1>1. Made /\ calls[1].on = "part_data_end" /\ Len(calls) # 0 /\ running
  BY CallbackMakes, CalledBy DEF Typed, EndSession, Callback
<1>2. /\ cut' = cut /\ form' = form /\ body' = body /\ failed' = failed /\ parttype = "sessionid"
      /\ running' = running \/ granted' = granted
  BY Zenon DEF EndSession, Called, GoOn, Respond
<1>3. SUFFICES ASSUME ~running', ~cut', failed' = {}, granted', body' # <<>>, "filename" \in ToSet(form')
               PROVE  FALSE
  BY DEF Outcome
<1>4. Read /\ granted /\ "filename" \in ToSet(form)
  BY <1>1, <1>2, <1>3 DEF Whole
<1>5. PartOf \in 1 .. Len(form) /\ form[PartOf] = "sessionid"
  <2>1. PartOf = at - 1 /\ at \in 2 .. Len(form) + 1 /\ parttype = form[at - 1]
    BY <1>1, <1>4, EndedPart
  <2>2. Len(form) \in Nat
    BY FormTyped DEF Typed
  <2> QED
    BY <1>2, <2>1, <2>2
<1> QED
  BY <1>4, <1>5, AskedOnce

LEMMA OutcomeFile ==
    ASSUME Typed, Placed, Granting, Fields, Streams, Whole, Filled, Outcome, EndFile
    PROVE  Outcome'
<1>1. Made /\ calls[1].on = "part_data_end" /\ Len(calls) # 0 /\ running
  BY CallbackMakes, CalledBy DEF Typed, EndFile, Callback
<1>2. /\ cut' = cut /\ form' = form /\ body' = body /\ granted' = granted /\ filename' = filename
      /\ parttype = "filedata"
      /\ \/ response' = "success"
         \/ ~filedata
         \/ failed' # {}
  BY Zenon DEF EndFile, Called, Respond, Copied, st
<1>3. SUFFICES ASSUME ~running', ~cut', failed' = {}, granted', body' # <<>>, "filename" \in ToSet(form')
               PROVE  response' = "success" /\ filename' = FileName
  BY DEF Outcome
<1>4. Read /\ granted /\ "filename" \in ToSet(form) /\ body # <<>>
  BY <1>1, <1>2, <1>3 DEF Whole
<1>5. /\ Closing /\ PartOf = at - 1 /\ at \in 2 .. Len(form) + 1 /\ parttype = form[at - 1]
  BY <1>1, <1>4, EndedPart
<1>6. PartOf \in 1 .. Len(form) /\ PartOf <= at /\ form[PartOf] = "filedata"
  <2>1. Len(form) \in Nat
    BY FormTyped DEF Typed
  <2> QED
    BY <1>2, <1>5, <2>1
<1>7. filename = FileName
  BY <1>4, <1>6, NamedBefore
<1>8. filedata
  <2>1. temp = body
    BY <1>2, <1>5, FileIsLast DEF Streams
  <2>2. body \in Seq(Bytes)
    BY BodiesAssumption DEF Typed, Sent
  <2>3. temp \notin {NoFile, <<>>}
    BY <1>4, <2>1, <2>2, NothingAssumption
  <2> QED
    BY <2>3 DEF Filled
<1> QED
  BY <1>2, <1>3, <1>7, <1>8

LEMMA OutcomeKept ==
    ASSUME Typed, Placed, Granting, Fields, Streams, Whole, Filled, Outcome, [Next]_vars
    PROVE  Outcome'
<1>1. CASE Parse
  <2>1. running'
    BY <1>1, PlacedParse
  <2> QED
    BY <2>1 DEF Outcome
<1>2. CASE FinishCb \/ UNCHANGED vars
  <2>1. UNCHANGED <<running, cut, failed, granted, body, form, response, filename>>
    BY <1>2, Zenon DEF FinishCb, vars, st, files, ghosts
  <2> QED
    BY <2>1, OutcomeSame
<1>3. CASE HeaderFieldCb \/ HeaderValueCb \/ SetField \/ EndOther
  <2>1. Made /\ Len(calls) # 0
    BY <1>3, CallbackMakes DEF Typed, Callback, Made
  <2>2. running
    BY <2>1 DEF Typed
  <2>3. running' = running
    BY <1>3, Zenon DEF HeaderFieldCb, HeaderValueCb, SetField, EndOther, GoOn
  <2> QED
    BY <2>2, <2>3 DEF Outcome
<1>4. CASE WriteTemp
  <2>1. Made /\ Len(calls) # 0
    BY <1>4, CallbackMakes DEF Typed, Callback, Made
  <2>2. running
    BY <2>1 DEF Typed
  <2>3. running' = running \/ failed' # {}
    BY <1>4, Zenon DEF WriteTemp, GoOn
  <2> QED
    BY <2>2, <2>3 DEF Outcome
<1> QED
  BY <1>1, <1>2, <1>3, <1>4, OutcomeBegin, OutcomeSession, OutcomeFile DEF Next

LEMMA UncutInit == ASSUME Init PROVE Whole /\ Filled /\ Outcome
<1>1. /\ at = 0 /\ running /\ calls = <<>> /\ parser = Initial /\ granted = FALSE /\ temp = NoFile
  BY DEF Init
<1>2. Len(calls) = 0 /\ ~Opening /\ ~Closing
  BY <1>1 DEF Opening, Closing
<1>3. ~InData
  BY <1>1, <1>2 DEF InData, Initial, DataStates
<1>4. Len(form) \in Nat
  BY TypedInit, FormTyped DEF Typed
<1>5. HeaderRead /\ FieldRead /\ PartKnown /\ Past /\ Asked /\ Ending
  BY <1>1, <1>2, <1>3, <1>4 DEF HeaderRead, FieldRead, PartKnown, Past, Asked, Ending
<1> QED
  BY <1>1, <1>5 DEF Whole, Read, Filled, Outcome

\* A complete upload succeeds under the name given, in whatever pieces the file itself comes, if
\* no read ends within a header or a field and no system call fails: UncutIsStored for every
\* boundary, every file and every form of up to three parts that ends with the file.
THEOREM UncutStored == Spec => []UncutIsStored
<1>1. Init => Whole /\ Filled /\ Outcome
  BY UncutInit
<1>2. Kept /\ Whole /\ Filled /\ Outcome /\ [Next]_vars => (Whole /\ Filled /\ Outcome)'
  <2> SUFFICES ASSUME Kept, Whole, Filled, Outcome, [Next]_vars PROVE Whole' /\ Filled' /\ Outcome'
    OBVIOUS
  <2> QED
    BY WholeKept, FilledKept, OutcomeKept DEF Kept
<1>3. Kept /\ Whole /\ Filled /\ Outcome => UncutIsStored
  <2> SUFFICES ASSUME Kept, Whole, Outcome,
                      AllRead \/ ~running, calls = <<>>, ~cut, failed = {}, granted,
                      body # <<>>, "filename" \in ToSet(form)
               PROVE  response = "success" /\ filename = FileName /\ file = body
    BY DEF UncutIsStored
  <2>1. ~running
    <3>1. SUFFICES ASSUME running, AllRead PROVE FALSE
      OBVIOUS
    <3>2. Closing
      BY <3>1 DEF Whole, Read, Ending, AllRead
    <3> QED
      BY <3>2 DEF Closing
  <2>2. response = "success" /\ filename = FileName
    BY <2>1 DEF Outcome
  <2> QED
    BY <2>2 DEF Kept, Stored
<1> QED
  BY <1>1, <1>2, <1>3, KeptAlways, PTL DEF Spec

=============================================================================
