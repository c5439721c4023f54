------------------------------ MODULE MCDecoder ------------------------------
(***************************************************************************)
(* Checks read_sample_logs against the decoder of spec section 4.3 on      *)
(* every log of at most MaxWords words over LogWords, with and without a   *)
(* short trailing chunk.  The log is built by the profiler one word at a   *)
(* time, so every prefix of a log is checked as well.                      *)
(***************************************************************************)
EXTENDS Decoder

\* Three values, so a log can repeat an address with different counts and
\* use an address value as a count.  Seven words reach two complete
\* records and every length of a trailing partial record after them.
LogWords == {0, 1, 2}
MaxWords == 7

VARIABLES words, short

Init == words = << >> /\ short = FALSE

\* The profiler appends one 8-byte word to the log.
AppendWord ==
    /\ ~short
    /\ Len(words) < MaxWords
    /\ \E w \in LogWords : words' = Append(words, w)
    /\ UNCHANGED short

\* The log ends in 1..7 bytes of a word that was not written whole.
Truncate ==
    /\ ~short
    /\ short' = TRUE
    /\ UNCHANGED words

Next == AppendWord \/ Truncate

Spec == Init /\ [][Next]_<<words, short>>

TypeOK ==
    /\ words \in Seq(LogWords)
    /\ Len(words) <= MaxWords
    /\ short \in BOOLEAN

(* Round trip (spec section 8): a log of whole records [address, reserved, *)
(* count] is decoded by read_sample_logs into exactly those records, in    *)
(* order, each address mapped to the count of its last record.            *)
DecoderRoundTrip ==
    (~short /\ Len(words) % 3 = 0)
        => ReadSampleLogs(words, short) = SpecDecode(words, short)

(* Truncation tolerance (spec section 8): whatever follows the last whole  *)
(* record (whole words of an unfinished record, a short tail) does not    *)
(* change what read_sample_logs decodes.                                   *)
TruncationTolerance ==
    ReadSampleLogs(words, short) = SpecDecode(words, short)
=============================================================================
