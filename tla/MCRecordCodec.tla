--------------------------- MODULE MCRecordCodec ---------------------------
(* Files of a heading and two lines, whole or cut off at the end: lines of three *)
(* and four fields, too short ones, empty fields, and NULs in an id and a field. *)
EXTENDS RecordCodec

a == 97
b == 98
TextLines == {<<a, TAB, b, TAB, a>>,
              <<b, TAB, a, NUL, b, TAB>>,
              <<a, NUL, b, TAB, TAB, a>>,
              <<a, TAB, b>>,
              <<b, TAB, b, TAB, a, TAB, b>>,
              <<a, NUL, TAB, TAB, a, b, TAB, a>>}
Heading == <<b, TAB, b, TAB, a>>
MCFiles ==
    {Heading \o <<NEWLINE>> \o l \o <<NEWLINE>> \o m \o end :
        l \in TextLines, m \in TextLines, end \in {<<>>, <<NEWLINE>>}}
    \cup {<<>>, Heading}
MCArgs == {<<>>, <<a>>}
=============================================================================
