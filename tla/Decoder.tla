------------------------------- MODULE Decoder -------------------------------
(***************************************************************************)
(* read_sample_logs of src/gvisor/runsc/main.go: the decoder of the        *)
(* profiler's binary trace log.                                            *)
(*                                                                         *)
(* The code reads the log with fp.Read into an 8-byte buffer.  On a        *)
(* regular file every Read returns a whole word until fewer than 8 bytes   *)
(* are left; those come back in one last short Read.  A log is therefore   *)
(* a sequence of whole 64-bit words and a flag for a trailing 1..7 bytes.  *)
(* binary.Read of a short buffer fails (io.ErrUnexpectedEOF, error         *)
(* ignored) without writing k, so the short chunk is decoded with the      *)
(* value k kept from the word before it.                                   *)
(*                                                                         *)
(* An address is the word itself: fmt.Sprintf("0x%x", k) is injective on   *)
(* int64, so it keeps the equalities the map and the order depend on.      *)
(* The code's initial addr "0x000000" is no Sprintf result (Sprintf of 0   *)
(* is "0x0") and is kept distinct as Placeholder.                          *)
(***************************************************************************)
EXTENDS Integers, Sequences

\* addr := "0x000000" before the first word is decoded.
Placeholder == "0x000000"

\* A chunk returned by one fp.Read: a whole word, or a short tail.
Word(w) == [full |-> TRUE, val |-> w]
ShortTail == [full |-> FALSE, val |-> 0]

\* The chunks the read loop sees for a log of whole words and a short tail.
Chunks(words, short) ==
    [i \in 1..Len(words) |-> Word(words[i])] \o (IF short THEN <<ShortTail>> ELSE <<>>)

\* The loop's variables before the first Read: k, index, loc, addr, the
\* address order and the address -> count map (a function on its keys).
DecodeInit ==
    [k |-> 0, index |-> 0, loc |-> 0, addr |-> Placeholder,
     order |-> << >>, access |-> [a \in {} |-> 0]]

\* Mutant: a later record of an address does not overwrite its count.
SetAccessKeepFirst(m, a, v) ==
    [x \in DOMAIN m \cup {a} |-> IF x \in DOMAIN m THEN m[x] ELSE v]

\* addr_access[addr] = access: add or overwrite one key of the map.
SetAccess(m, a, v) == [x \in DOMAIN m \cup {a} |-> IF x = a THEN v ELSE m[x]]

(***************************************************************************)
(* One iteration of the read loop of read_sample_logs for chunk ch: decode *)
(* k (unchanged on a short chunk), take it as an address at every index    *)
(* divisible by 3 and as that address's count two words later.            *)
(***************************************************************************)
DecodeStep(s, ch) ==
    LET k     == IF ch.full THEN ch.val ELSE s.k
        isAdr == s.index % 3 = 0
        addr  == IF isAdr THEN k ELSE s.addr
        loc   == IF isAdr THEN s.index + 2 ELSE s.loc
        isAcc == s.index = loc
    IN  [k      |-> k,
         index  |-> s.index + 1,
         loc    |-> loc,
         addr   |-> addr,
         order  |-> IF isAdr THEN Append(s.order, addr) ELSE s.order,
         access |-> IF isAcc THEN SetAccess(s.access, addr, k) ELSE s.access]

(***************************************************************************)
(* read_sample_logs(): the loop run over every chunk of the log, written   *)
(* as a recursive function on the number of chunks read.  A missing log    *)
(* (os.Open fails) is left to the caller: it yields an empty result.       *)
(***************************************************************************)
ReadSampleLogs(words, short) ==
    LET cs  == Chunks(words, short)
        dec[i \in 0..Len(cs)] == IF i = 0 THEN DecodeInit
                                 ELSE DecodeStep(dec[i - 1], cs[i])
    IN  [order |-> dec[Len(cs)].order, access |-> dec[Len(cs)].access]

(***************************************************************************)
(* The decoder of spec section 4.3, the reference: the records are the     *)
(* complete triples [address, reserved, count]; the order lists every      *)
(* record's address, and each address maps to the count of its last       *)
(* record.  Trailing partial records are dropped.                          *)
(***************************************************************************)
SpecDecode(words, short) ==
    LET n    == Len(words) \div 3
        adr(r) == words[3 * r - 2]
        cnt(r) == words[3 * r]
        last(a) == CHOOSE r \in 1..n : adr(r) = a /\ \A q \in r + 1..n : adr(q) # a
    IN  [order  |-> [r \in 1..n |-> adr(r)],
         access |-> [a \in {adr(r) : r \in 1..n} |-> cnt(last(a))]]
=============================================================================
