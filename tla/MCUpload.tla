------------------------------ MODULE MCUpload ------------------------------
(***************************************************************************)
(* Upload of every file of up to three bytes of a delimiter, and of those  *)
(* of four that begin like one, in forms with and without the session and  *)
(* the name.                                                               *)
(***************************************************************************)
EXTENDS Upload

TheBoundary == <<Hyphen, "x">>
TheLetters  == {"Content", "Disposition", "Type"}

TheBytes ==
    {CR, LF, Hyphen, Colon, Space, "x", "form-data", "octets", "s1", "s2", "n1", "n2", "m"}
        \cup TheLetters \cup Parts

TheBodies ==
    LET bytes == {CR, LF, Hyphen, "x"}
    IN  SeqOf(bytes, 3) \cup ({<<CR, LF, c, d>> : c, d \in bytes} \ {Delimiter})

TheForms ==
    { <<"sessionid", "filename", "filedata">>,
      <<"filename", "filedata">>,
      <<"sessionid", "filedata">> }
=============================================================================
