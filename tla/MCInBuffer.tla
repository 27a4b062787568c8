----------------------------- MODULE MCInBuffer -----------------------------
(* Small instances of InBuffer for TLC.                                    *)
EXTENDS InBuffer

\* An id that processMsg does not know.
Unknown == 99

\* The message with this id and version in which every other field is `fill`:
\* every optional part is missing (0) or present, every list has `fill` elements.
Message(id, version, fill, v) ==
  LET long == [i \in 1 .. 400 |-> IF i = 1 THEN id ELSE IF i = 2 THEN version ELSE fill]
  IN  SubSeq(long, 1, End(long, v))

\* The message versions below and from which processMsg reads more fields.
VersionsOf(id) == IF id \in VariableIds THEN {1, 6, 7, 9, 21, 23, 26, 28, 30, 32} ELSE {1}

AnyOf(v) ==
  UNION {{Message(id, version, fill, v) : version \in VersionsOf(id), fill \in 0 .. 2}
         : id \in KnownIds \cup {Unknown}}

\* Messages of fixed length, with a list, with optional fields, of an unknown id.
FewOf(v) ==
  {Message(id, version, fill, v) : id \in {9, 10, 17, Unknown}, version \in {6, 7},
                                   fill \in {0, 1}}

\* Constants, which TLC evaluates once.
From38 == FewOf(38)
From39 == AnyOf(39)
From51 == AnyOf(51)
From70 == AnyOf(70)

\* Any one message behind the acknowledgement, or any two of the few.
MCMessages(v) ==
  CASE v = 38 -> From38 [] v = 39 -> From39 [] v = 51 -> From51 [] v = 70 -> From70
    [] OTHER -> {}

MCMaxSent(v) == IF v = 38 THEN 2 ELSE 1
==============================================================================
