------------------------------- MODULE Codec --------------------------------
(***************************************************************************)
(* The length-prefixed command format (src/protocol/codec.c), parsed by    *)
(* the network handler whenever more bytes have arrived, and by the AOF    *)
(* replay, and written to the AOF.  Positions are the code's, from 0.      *)
(*                                                                         *)
(* Numbers are written to the base Len(Digit), which stands for ten, so    *)
(* that short inputs have numbers of several digits.                       *)
(***************************************************************************)
EXTENDS Integers, Sequences, TLC

CONSTANTS
    Digit,         \* the digits, in the order of their value
    Other,         \* further bytes
    FieldCapacity, \* KVS_MAX_TOKENS
    Limit,         \* max_command_bytes
    SizeMax,       \* SIZE_MAX
    MaxInput       \* bound: bytes that arrive

CodecAssumption ==
    /\ Len(Digit) >= 2
    /\ {FieldCapacity, Limit, SizeMax, MaxInput} \subseteq Nat \ {0}

VARIABLE input     \* what has arrived

Base == Len(Digit)
IsDigit(b) == \E v \in DOMAIN Digit : Digit[v] = b
DigitValue(b) == (CHOOSE v \in DOMAIN Digit : Digit[v] = b) - 1

Byte == {Digit[v] : v \in DOMAIN Digit} \cup {"*", "$", "CR", "LF"} \cup Other

At(s, pos) == s[pos + 1]

-----------------------------------------------------------------------------
(* Parsing.  A status is "more", "error" or "done".                         *)

Status(what) == [status |-> what]

\* Mutant: the multiplication may wrap around.
BugOverflows(value, digit) == FALSE

\* The check in front of value * 10 + digit.
Overflows(value, digit) == value > (SizeMax - digit) \div Base

RECURSIVE Digits(_, _, _)
Digits(s, pos, value) ==
    IF pos < Len(s) /\ IsDigit(At(s, pos))
    THEN LET d == DigitValue(At(s, pos)) IN
         IF Overflows(value, d) THEN Status("error")
         ELSE Digits(s, pos + 1, (value * Base + d) % (SizeMax + 1))
    ELSE [status |-> "done", pos |-> pos, value |-> value]

\* Mutant: what has not arrived is wrong.
BugLineEnd(s, pos) ==
    CASE pos >= Len(s)         -> "error"
      [] At(s, pos) # "CR"     -> "error"
      [] pos + 1 >= Len(s)     -> "more"
      [] At(s, pos + 1) # "LF" -> "error"
      [] OTHER                 -> "done"

\* Is CR LF at pos?
LineEnd(s, pos) ==
    CASE pos >= Len(s)         -> "more"
      [] At(s, pos) # "CR"     -> "error"
      [] pos + 1 >= Len(s)     -> "more"
      [] At(s, pos + 1) # "LF" -> "error"
      [] OTHER                 -> "done"

\* parse_number.
ParseNumber(s, offset) ==
    IF offset >= Len(s) THEN Status("more")
    ELSE IF ~IsDigit(At(s, offset)) THEN Status("error")
    ELSE LET n == Digits(s, offset, 0) IN
         IF n.status = "error" THEN n
         ELSE IF LineEnd(s, n.pos) # "done" THEN Status(LineEnd(s, n.pos))
         ELSE [status |-> "done", pos |-> n.pos + 2, value |-> n.value]

\* The field and its end must lie within the limit.
TooLong(pos, length) ==
    pos > Limit \/ Limit - pos < 2 \/ length > Limit - pos - 2

\* The whole field has arrived.
Arrived(s, pos, length) == length <= Len(s) - pos /\ Len(s) - pos - length >= 2

\* parse_field.
ParseField(s, offset) ==
    IF offset >= Len(s) THEN Status("more")
    ELSE IF At(s, offset) # "$" THEN Status("error")
    ELSE LET n == ParseNumber(s, offset + 1) IN
         IF n.status # "done" THEN n
         ELSE IF TooLong(n.pos, n.value) THEN Status("error")
         ELSE IF ~Arrived(s, n.pos, n.value) THEN Status("more")
         ELSE IF LineEnd(s, n.pos + n.value) = "error" THEN Status("error")
         ELSE [status |-> "done", pos |-> n.pos + n.value + 2,
               field |-> SubSeq(s, n.pos + 1, n.pos + n.value)]

RECURSIVE ParseFields(_, _, _, _)
ParseFields(s, offset, count, fields) ==
    IF Len(fields) = count
    THEN [status |-> "done", pos |-> offset, fields |-> fields]
    ELSE LET f == ParseField(s, offset) IN
         IF f.status # "done" THEN Status(f.status)
         ELSE ParseFields(s, f.pos, count, Append(fields, f.field))

\* kvs_parse_command_limited: pos is parsed_bytes.
ParseCommand(s) ==
    IF s = <<>> THEN Status("more")
    ELSE IF At(s, 0) # "*" THEN Status("error")
    ELSE LET n == ParseNumber(s, 1) IN
         IF n.status # "done" THEN Status(n.status)
         ELSE IF n.pos > Limit \/ n.value = 0 \/ n.value > FieldCapacity
         THEN Status("error")
         ELSE ParseFields(s, n.pos, n.value, <<>>)

-----------------------------------------------------------------------------
(* Encoding.                                                                *)

RECURSIVE DecimalDigits(_)
DecimalDigits(value) == IF value < Base THEN 1 ELSE 1 + DecimalDigits(value \div Base)

\* encoded_field_size; the size of a value response, too.
EncodedFieldSize(f) == 1 + DecimalDigits(Len(f)) + 4 + Len(f)

\* kvs_encoded_command_size, without the overflow checks, which inputs of this
\* size do not reach.
EncodedCommandSize(fields) ==
    LET total[i \in 0 .. Len(fields)] ==
            IF i = 0 THEN 1 + DecimalDigits(Len(fields)) + 2
            ELSE total[i - 1] + EncodedFieldSize(fields[i])
    IN  total[Len(fields)]

\* Mutant: the digits are written in the order in which they are computed.
RECURSIVE BugWriteDecimal(_)
BugWriteDecimal(value) ==
    <<Digit[(value % Base) + 1]>>
        \o (IF value < Base THEN <<>> ELSE BugWriteDecimal(value \div Base))

\* write_decimal.
RECURSIVE WriteDecimal(_)
WriteDecimal(value) ==
    (IF value < Base THEN <<>> ELSE WriteDecimal(value \div Base))
        \o <<Digit[(value % Base) + 1]>>

\* One $length CR LF content CR LF.
EncodeField(f) == <<"$">> \o WriteDecimal(Len(f)) \o <<"CR", "LF">> \o f \o <<"CR", "LF">>

\* kvs_encode_command.
EncodeCommand(fields) ==
    LET body[i \in 0 .. Len(fields)] ==
            IF i = 0 THEN <<"*">> \o WriteDecimal(Len(fields)) \o <<"CR", "LF">>
            ELSE body[i - 1] \o EncodeField(fields[i])
    IN  body[Len(fields)]

-----------------------------------------------------------------------------
(* Bytes arrive; one more after the parser has made up its mind.            *)

Decided(s) == ParseCommand(s).status # "more"

Init == input = <<>>

Arrives ==
    /\ Len(input) < MaxInput
    /\ input # <<>> => ~Decided(SubSeq(input, 1, Len(input) - 1))
    /\ \E b \in Byte : input' = Append(input, b)

Next == Arrives

Spec == Init /\ [][Next]_input

-----------------------------------------------------------------------------
(* Properties.                                                              *)

\* What arrives is bytes.
TypeOK == input \in Seq(Byte)

(* The format, defined without a parser. *)

\* s is a number n, written with any number of leading zeros.
Denotes(s, n) ==
    LET value[i \in 0 .. Len(s)] ==
            IF i = 0 THEN 0 ELSE value[i - 1] * Base + DigitValue(s[i])
    IN  s # <<>> /\ (\A i \in DOMAIN s : IsDigit(s[i])) /\ value[Len(s)] = n

EndsLine(s) == Len(s) >= 2 /\ SubSeq(s, Len(s) - 1, Len(s)) = <<"CR", "LF">>

IsField(s) ==
    /\ Len(s) >= 6 /\ s[1] = "$" /\ EndsLine(s)
    /\ \E h \in 4 .. Len(s) - 2 :
           EndsLine(SubSeq(s, 1, h)) /\ Denotes(SubSeq(s, 2, h - 2), Len(s) - 2 - h)

IsFields(s, count) ==
    \E end \in [1 .. count - 1 -> 1 .. Len(s)] :
        LET cut == (0 :> 0) @@ end @@ (count :> Len(s)) IN
        \A i \in 1 .. count :
            cut[i - 1] < cut[i] /\ IsField(SubSeq(s, cut[i - 1] + 1, cut[i]))

IsCommand(s) ==
    /\ Len(s) <= Limit /\ s[1] = "*" /\ EndsLine(s)
    /\ \E h \in 4 .. Len(s), count \in 1 .. FieldCapacity :
           /\ EndsLine(SubSeq(s, 1, h)) /\ Denotes(SubSeq(s, 2, h - 2), count)
           /\ IsFields(SubSeq(s, h + 1, Len(s)), count)

\* The parser accepts exactly the commands of the format that are no longer than
\* the limit, to the byte, and finds their end: field contents may hold CR, LF,
\* $ and * and no length overflows into a shorter one.
AcceptsCommands ==
    LET r == ParseCommand(input) IN
    /\ r.status = "done" =>
           r.pos <= Len(input) /\ IsCommand(SubSeq(input, 1, r.pos))
    /\ input # <<>> /\ IsCommand(input) => r.status = "done" /\ r.pos = Len(input)

\* What is parsed can be written to the AOF and parsed back: the same fields, as
\* many bytes as the size that was computed for them (and as the buffer was
\* allocated for), and not one byte earlier.
RoundTrip ==
    LET r == ParseCommand(input)
        code == EncodeCommand(r.fields)
    IN  r.status = "done" =>
            /\ Len(code) = EncodedCommandSize(r.fields) /\ Len(code) <= r.pos
            /\ ParseCommand(code) = [r EXCEPT !.pos = Len(code)]
            /\ \A n \in 1 .. Len(code) - 1 :
                   ParseCommand(SubSeq(code, 1, n)).status = "more"

\* A verdict on the first bytes is final: however TCP cuts the stream, a command
\* is found at the same place with the same fields, and so is an error.
VerdictFinal ==
    LET before == SubSeq(input, 1, Len(input) - 1) IN
    input # <<>> /\ Decided(before) => ParseCommand(input) = ParseCommand(before)
=============================================================================
