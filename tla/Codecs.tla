------------------------------- MODULE Codecs -------------------------------
(***************************************************************************)
(* The byte layouts of commands and log records (src/command_codec.cpp,    *)
(* src/log_entry_codec.cpp).                                               *)
(*                                                                         *)
(* A cell is one field: a 32-bit or 64-bit number, a request id, the magic *)
(* number, a checksum, one character. Sizes count cells, and a field of    *)
(* which only some octets are there is as good as missing: the readers     *)
(* test for room before each field. Strings are sequences of characters.   *)
(* A result is a set: what was made, or nothing for an error.              *)
(***************************************************************************)
EXTENDS KvCommand, Naturals, Sequences

\* Like the loop of crc32, from cell to cell.
Digest(cells) ==
  LET sum[k \in 0..Len(cells)] ==
        IF k = 0 THEN 1 ELSE (31 * sum[k - 1] + cells[k] + 1) % 32749
  IN sum[Len(cells)]

\* The r-th row of up to sixteen cells.
Row(bytes, r) ==
  SubSeq(bytes, 16 * (r - 1) + 1, IF 16 * r < Len(bytes) THEN 16 * r ELSE Len(bytes))

\* Stands for CRC32. Like it, it tells apart inputs that differ in one place only. It
\* goes row by row, which keeps the recursion short.
crc32(bytes) == Digest([r \in 1..((Len(bytes) + 15) \div 16) |-> Digest(Row(bytes, r))])

\* append_checksum.
Sealed(bytes) == Append(bytes, crc32(bytes))

\* The bytes without their checksum.
Body(bytes) == SubSeq(bytes, 1, Len(bytes) - 1)

\* Mutant: checksums are written but not compared.
unchecked(bytes) == TRUE

valid_checksum(bytes) == bytes[Len(bytes)] = crc32(Body(bytes))

-----------------------------------------------------------------------------
(* Commands. Cells 1 to 4 are the format version, the type and the sizes of  *)
(* the key and the value; version 2 has a request id in the fifth.           *)

legacyFormatVersion == 1
requestIdFormatVersion == 2
headerSize == 4

Tag(type) == CASE type = "Put" -> 1 [] type = "Delete" -> 2 [] type = "NoOp" -> 3

\* What both directions refuse.
ValidContents(c) ==
  /\ c.type = "Delete" => c.value = <<>>
  /\ c.type = "NoOp" => c.key = <<>> /\ c.value = <<>> /\ c.request_id = NoId

encode_command(c) ==
  IF ~ValidContents(c) THEN {}
  ELSE {(IF c.request_id = NoId
           THEN <<legacyFormatVersion, Tag(c.type), Len(c.key), Len(c.value)>>
           ELSE <<requestIdFormatVersion, Tag(c.type), Len(c.key), Len(c.value),
                  c.request_id>>)
        \o c.key \o c.value}

\* The header of an encoded command, with the request id if there is one.
HeaderLen(bytes) == headerSize + (IF bytes[1] = requestIdFormatVersion THEN 1 ELSE 0)

\* The sizes in the header add up to what is there.
WellFormed(bytes) ==
  /\ Len(bytes) >= headerSize
  /\ bytes[1] \in {legacyFormatVersion, requestIdFormatVersion}
  /\ bytes[2] \in 1..3
  /\ Len(bytes) = HeaderLen(bytes) + bytes[3] + bytes[4]

\* The command with these bytes, if its contents are valid.
Read(bytes) ==
  LET key_end == HeaderLen(bytes) + bytes[3] IN
  [type |-> <<"Put", "Delete", "NoOp">>[bytes[2]],
   key |-> SubSeq(bytes, HeaderLen(bytes) + 1, key_end),
   value |-> SubSeq(bytes, key_end + 1, Len(bytes)),
   request_id |-> IF bytes[1] = requestIdFormatVersion THEN bytes[5] ELSE NoId]

decode_command(bytes) ==
  IF WellFormed(bytes) /\ ValidContents(Read(bytes)) THEN {Read(bytes)} ELSE {}

-----------------------------------------------------------------------------
(* Log records. Cells 1 to 3 are the prefix: magic number, version and body   *)
(* size. The body is the index, the term and the command.                     *)

magic == 68
formatVersion == 1
prefixSize == 3
entryMetadataSize == 2
checksumSize == 1

encode_log_entry(e) ==
  IF e.index = 0 \/ e.term = 0 THEN {}
  ELSE {Sealed(<<magic, formatVersion, entryMetadataSize + Len(command), e.index, e.term>>
               \o command) : command \in encode_command(e.command)}

\* InputTooShort and TruncatedRecord: the record is not all there.
Incomplete(bytes) ==
  \/ Len(bytes) < prefixSize
  \/ /\ bytes[1] = magic
     /\ bytes[2] = formatVersion
     /\ bytes[3] >= entryMetadataSize + headerSize
     /\ Len(bytes) < prefixSize + bytes[3] + checksumSize

\* The first record of the bytes, as far as the size in its prefix goes.
FirstRecord(bytes) == SubSeq(bytes, 1, prefixSize + bytes[3] + checksumSize)

\* Mutant: a record is taken as far as the input goes.
ConsumesAll(bytes) == Len(bytes)

Consumes(bytes) == Len(FirstRecord(bytes))

\* The prefix and the checksum of the record hold, and neither number is 0.
Sound(bytes) ==
  /\ ~Incomplete(bytes)
  /\ bytes[1] = magic
  /\ bytes[2] = formatVersion
  /\ bytes[3] >= entryMetadataSize + headerSize
  /\ valid_checksum(FirstRecord(bytes))
  /\ bytes[4] # 0 /\ bytes[5] # 0

\* The first entry in the bytes and how much of them it takes.
decode_log_entry(bytes) ==
  IF ~Sound(bytes) THEN {}
  ELSE {[entry |-> [index |-> bytes[4], term |-> bytes[5], command |-> c],
         bytes_consumed |-> Consumes(bytes)] :
          c \in decode_command(SubSeq(bytes, 6, prefixSize + bytes[3]))}
=============================================================================
