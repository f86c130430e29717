------------------------------- MODULE Upload -------------------------------
(***************************************************************************)
(* luci-upload (main.c): the CGI program that stores a file the browser    *)
(* uploads.  It reads the form from its standard input in pieces, the      *)
(* parser of Multipart calls it back, and it answers once, then drains the *)
(* rest of its input.                                                      *)
(***************************************************************************)
EXTENDS Multipart, SequencesExt

CONSTANTS
    Forms,      \* the parts a browser or a script may send, in order
    Bodies,     \* the file contents it may send; a delimiter is in none
    NoText,     \* a pointer that is NULL
    NoFile,     \* no such file
    OldFile     \* what the file held before

Parts == {"sessionid", "filename", "filemode", "filedata"}

\* The file ends the form, as in the form of ui.js, which has the other two before it.
ASSUME FormsAssumption ==
    \A f \in Forms : f \in Seq(Parts) /\ Len(f) \in 1 .. 3 /\ f[Len(f)] = "filedata"

ASSUME BodiesAssumption ==
    \A b \in Bodies :
        /\ b \in Seq(Bytes)
        /\ \A i \in 0 .. Len(b) - Len(Delimiter) :
               \E j \in DOMAIN Delimiter : b[i + j] # Delimiter[j]

VARIABLES
    at,         \* the part of the form that is read
    place,      \* where in it the next byte is
    running,    \* the parser still reads
    parser,
    calls,      \* the callbacks the byte just read makes, as far as not made yet
    is_content_disposition, parttype, sessionid, filename, filedata,   \* struct state
    temp,       \* the temporary file (st.tempfd)
    file,       \* the file the name given leads to
    response,   \* "none", "success" or "failure"
    told,       \* what the page takes the answer for; "waiting" before it came
    (* to state the properties *)
    form, body, \* the parts and the file that are sent
    granted,    \* the session was found to have access
    cut,        \* a read ended inside a header or a field that is not the file
    failed      \* system calls that failed: "read" and "unlink", which the program
                \* does not look at, "checked" for all others

st      == <<is_content_disposition, parttype, sessionid, filename, filedata>>
files   == <<temp, file, response>>
ghosts  == <<form, body, granted, cut, failed>>
input   == <<at, place>>
vars    == <<input, running, parser, calls, st, files, told, ghosts>>

-----------------------------------------------------------------------------
(* The form *)

Disposition == <<"Content", Hyphen, "Disposition">>
SessionId   == <<"s1", "s2">>
FileName    == <<"n1", "n2">>
FileMode    == <<"m">>

ASSUME WordsAssumption ==
    /\ {"Content", "Disposition", "Type"} \subseteq Letters
    /\ {"form-data", "octets"} \cup Parts \subseteq Bytes
    /\ {SessionId, FileName, FileMode} \subseteq Seq(Bytes)

ASSUME NothingAssumption == NoText \notin Seq(Bytes) /\ NoFile \notin Seq(Bytes)

\* The value of the Content-Disposition header of a part: form-data; name="..."
Named(part) == <<"form-data", part>>

Header(name, value) == name \o <<Colon, Space>> \o value \o <<CR, LF>>

Content(part) ==
    CASE part = "sessionid" -> SessionId
      [] part = "filename"  -> FileName
      [] part = "filemode"  -> FileMode
      [] part = "filedata"  -> body

HeaderBytes(part) ==
    <<CR, LF>> \o Header(Disposition, Named(part))
      \o (IF part = "filedata" THEN Header(<<"Content", Hyphen, "Type">>, <<"octets">>) ELSE <<>>)
      \o <<CR, LF>>

FormPart(part) == HeaderBytes(part) \o (Content(part) \o Delimiter)

\* The bytes sent: the boundary, the parts, each up to its delimiter, and the end.
PartBytes(n) ==
    CASE n = 0           -> Boundary
      [] n \in DOMAIN form -> FormPart(form[n])
      [] n > Len(form)   -> <<Hyphen, Hyphen>>

NextByte   == PartBytes(at)[place]
AtLastByte == at > Len(form) /\ place = 2
AllRead    == at > Len(form) /\ place > 2

Advance ==
    \/ place < Len(PartBytes(at)) /\ place' = place + 1 /\ UNCHANGED at
    \/ place = Len(PartBytes(at)) /\ at <= Len(form) /\ place' = 1 /\ at' = at + 1
    \/ AtLastByte /\ place' = place + 1 /\ UNCHANGED at

Init ==
    /\ body \in Bodies
    /\ form \in Forms
    /\ at = 0 /\ place = 1
    /\ running = TRUE
    /\ parser = Initial
    /\ calls = <<>>
    /\ is_content_disposition = FALSE
    /\ parttype = "unknown"
    /\ sessionid = NoText /\ filename = NoText /\ filedata = FALSE
    /\ temp = NoFile /\ file = OldFile /\ response = "none" /\ told = "waiting"
    /\ granted = FALSE /\ cut = FALSE /\ failed = {}

-----------------------------------------------------------------------------

\* The read ended after byte c of something the program wants whole.
Cuts(p, c) ==
    \/ p.state \in {"header_field", "header_value"} /\ c # LF
    \/ p.state = "part_data" /\ parttype # "filedata"

\* One byte; it is the last one of its read or not.
Parse ==
    /\ running /\ calls = <<>> /\ ~AllRead
    /\ \E last \in BOOLEAN :
          LET step == Consume(parser, NextByte, last)
          IN  /\ AtLastByte => last
              /\ parser' = step.parser
              /\ calls' = step.calls
              /\ running' = step.ok
              /\ cut' = (cut \/ (last /\ Cuts(step.parser, NextByte)))
    /\ Advance
    /\ UNCHANGED <<st, files, told, form, body, granted, failed>>

\* The next callback, with its slice.
Called(callback) ==
    /\ calls # <<>>
    /\ Head(calls).on = callback
    /\ UNCHANGED <<input, parser, told, form, body, cut>>

GoOn == calls' = Tail(calls) /\ UNCHANGED <<running, response>>

\* Mutant of Respond: lets the parser go on.
RespondAndGoOn(answer) == response' = answer /\ calls' = Tail(calls) /\ UNCHANGED running

\* Answering stops the parser, as response returns -1 whatever it says.
Respond(answer) == response' = answer /\ calls' = <<>> /\ running' = FALSE

data == Head(calls).data

HeaderFieldCb ==
    /\ Called("header_field")
    /\ is_content_disposition' = IsPrefix(data, Disposition)
    /\ GoOn
    /\ UNCHANGED <<parttype, sessionid, filename, filedata, temp, file, granted, failed>>

\* A slice that ends within the name is read beyond its end: any name may come out.
Recognised ==
    IF Len(data) >= 2 /\ Head(data) = "form-data" THEN {data[2]}
    ELSE IF data = <<"form-data">> THEN Parts \cup {parttype}
    ELSE {parttype}

HeaderValueCb ==
    /\ Called("header_value")
    /\ parttype' \in IF is_content_disposition THEN Recognised ELSE {parttype}
    /\ GoOn
    /\ UNCHANGED <<is_content_disposition, sessionid, filename, filedata, temp, file, granted, failed>>

DataBegin ==
    /\ Called("headers_complete")
    /\ \/ /\ parttype # "filedata"
          /\ GoOn
          /\ UNCHANGED <<temp, failed>>
       \/ /\ parttype = "filedata"
          /\ NoText \in {sessionid, filename}
          /\ Respond("failure")
          /\ UNCHANGED <<temp, failed>>
       \/ /\ parttype = "filedata"
          /\ NoText \notin {sessionid, filename}
          /\ \/ temp' = <<>> /\ GoOn /\ UNCHANGED failed
             \/ Respond("failure") /\ failed' = {"checked"} /\ UNCHANGED temp
    /\ UNCHANGED <<st, file, granted>>

\* A field is set to the slice: one that comes in two slices keeps the second.
SetField ==
    /\ Called("part_data")
    /\ parttype # "filedata"
    /\ sessionid' = IF parttype = "sessionid" THEN data ELSE sessionid
    /\ filename' = IF parttype = "filename" THEN data ELSE filename
    /\ GoOn
    /\ UNCHANGED <<is_content_disposition, parttype, filedata, temp, file, granted, failed>>

\* Mutant of WriteTemp: looks at the last slice only.
WriteTempLast ==
    /\ Called("part_data")
    /\ parttype = "filedata"
    /\ \/ /\ temp' = temp \o data
          /\ filedata' = (data # <<>>)
          /\ GoOn
          /\ UNCHANGED failed
       \/ /\ Respond("failure")
          /\ failed' = {"checked"}
          /\ UNCHANGED <<temp, filedata>>
    /\ UNCHANGED <<is_content_disposition, parttype, sessionid, filename, file, granted>>

WriteTemp ==
    /\ Called("part_data")
    /\ parttype = "filedata"
    /\ \/ /\ temp' = temp \o data
          /\ filedata' = (filedata \/ data # <<>>)
          /\ GoOn
          /\ UNCHANGED failed
       \/ /\ Respond("failure")
          /\ failed' = {"checked"}
          /\ UNCHANGED <<temp, filedata>>
    /\ UNCHANGED <<is_content_disposition, parttype, sessionid, filename, file, granted>>

\* Mutant of EndSession: forgets to ask for the access.
EndSessionUnasked ==
    /\ Called("part_data_end")
    /\ parttype = "sessionid"
    /\ parttype' = "unknown" /\ GoOn
    /\ UNCHANGED <<is_content_disposition, sessionid, filename, filedata, temp, file, granted, failed>>

\* Only the whole session id may be granted access.
EndSession ==
    /\ Called("part_data_end")
    /\ parttype = "sessionid"
    /\ \/ sessionid = SessionId /\ granted' = TRUE /\ parttype' = "unknown" /\ GoOn
       \/ Respond("failure") /\ UNCHANGED <<granted, parttype>>
    /\ UNCHANGED <<is_content_disposition, sessionid, filename, filedata, temp, file, failed>>

\* Mutant of Copied: a copy that fails leaves the target.
CopiedOrLeft(answer) ==
    \/ answer = "success" /\ file' = temp /\ UNCHANGED failed
    \/ answer = "failure" /\ ~filedata /\ UNCHANGED <<file, failed>>
    \/ answer = "failure" /\ filedata /\ failed' = {"checked"} /\ file' \in {file, <<>>}

\* What the target holds when the copy ends before the end of the temporary file.
PartCopied == \E n \in 0 .. Len(temp) : file' = SubSeq(temp, 1, n)

\* filecopy: the temporary file is copied over the target.  A failure after the
\* target was opened removes it; but a temporary file that cannot be read on counts
\* as read to its end, and nobody asks whether the removal worked.
Copied(answer) ==
    \/ answer = "success" /\ filedata /\ file' = temp /\ UNCHANGED failed
    \/ answer = "success" /\ filedata /\ PartCopied /\ failed' = {"read"}
    \/ answer = "failure" /\ ~filedata /\ UNCHANGED <<file, failed>>
    \/ answer = "failure" /\ filedata /\ file' \in {file, NoFile} /\ failed' = {"checked"}
    \/ answer = "failure" /\ filedata /\ PartCopied /\ failed' = {"checked", "unlink"}

EndFile ==
    /\ Called("part_data_end")
    /\ parttype = "filedata"
    /\ \E answer \in {"success", "failure"} : Respond(answer) /\ Copied(answer)
    /\ UNCHANGED <<st, temp, granted>>

EndOther ==
    /\ Called("part_data_end")
    /\ parttype \notin {"sessionid", "filedata"}
    /\ parttype' = "unknown" /\ GoOn
    /\ UNCHANGED <<is_content_disposition, sessionid, filename, filedata, temp, file, granted, failed>>

\* What the page parses: the answer of the program or, if there is none, what it
\* makes of a page that is no answer.
AnswerFields ==
    CASE response = "success" -> {"size", "checksum"}
      [] response = "failure" -> {"message", "failure"}
      [] response = "none"    -> {"message", "error"}

\* finish_cb, when the frame the form was sent to has loaded.
FinishCb ==
    /\ ~running \/ AllRead
    /\ calls = <<>>
    /\ told = "waiting"
    /\ told' = IF "error" \in AnswerFields THEN "failure" ELSE "success"
    /\ UNCHANGED <<input, running, parser, calls, st, files, ghosts>>

Next ==
    \/ Parse
    \/ HeaderFieldCb \/ HeaderValueCb
    \/ DataBegin \/ SetField \/ WriteTemp
    \/ EndSession \/ EndFile \/ EndOther
    \/ FinishCb

Spec == Init /\ [][Next]_vars

-----------------------------------------------------------------------------
(* Properties *)

UploadTypeOK ==
    /\ running \in BOOLEAN
    /\ parser.index \in 0 .. Len(Boundary) + 1
    /\ Len(Lookbehind(parser)) < Len(Delimiter)
    /\ parttype \in Parts \cup {"unknown"}
    /\ response \in {"none", "success", "failure"}
    /\ told \in {"waiting", "success", "failure"}
    /\ response # "none" => ~running /\ calls = <<>>

\* A file that is reported as stored is the one that was sent, byte for byte, in
\* whatever pieces it was read and however much of it looks like a delimiter; unless
\* the copy of it could not be read back, which filecopy takes for its end.
StoredIsSent == response = "success" /\ "read" \notin failed => file = body

\* The file is replaced as a whole, left alone or removed, and it is replaced only
\* when that is reported.  A part of what was sent is left behind in two cases only:
\* the copy of it could not be read back, or what was begun could not be removed.
AllOrNothing ==
    \/ file \in {OldFile, NoFile}
    \/ file = body /\ response = "success"
    \/ failed \cap {"read", "unlink"} # {} /\ IsPrefix(file, body)

\* Nothing is written, not even a temporary file, before the session was granted
\* access to uploads.
GrantedFirst == temp # NoFile \/ file # OldFile => granted

\* The page goes on as after a successful upload only after one; otherwise it shows
\* "The file upload failed with the server response below:" (ui.js:189).
FailureIsTold == told = "success" => response = "success"

\* A complete upload succeeds under the name given, if no read ends within a header
\* or a field and nothing fails: in whatever pieces the file itself comes.
UncutIsStored ==
    /\ AllRead \/ ~running
    /\ calls = <<>>
    /\ ~cut /\ failed = {} /\ granted
    /\ body # <<>> /\ "filename" \in ToSet(form)
    => response = "success" /\ filename = FileName /\ file = body
=============================================================================
