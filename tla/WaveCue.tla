------------------------------ MODULE WaveCue ------------------------------
(***************************************************************************)
(* wavecuepoint/wavecuepoint.c: read a wave file and a text file with one  *)
(* sample position a line, write the wave file again with a cue chunk for  *)
(* these positions.                                                        *)
(*                                                                         *)
(* A wave file is a header of 12 bytes and a sequence of chunks, each with *)
(* 8 bytes of id and size in front and padded to an even length.  What is  *)
(* inside a chunk does not matter: a byte of the output is known by the    *)
(* offset of the input it was copied from, or is New.  The program's own   *)
(* offsets (cue_pos and the chunk locations) are computed as the code      *)
(* does, and the layout of the file as the format says.                    *)
(***************************************************************************)
EXTENDS Integers, SequencesExt, FiniteSetsExt

CONSTANTS
  CueInputs,       \* pairs of a wave file and a markers file
  maxOtherChunks,  \* 256
  MaxLocations,    \* entries of cueLocations, 1000
  MaxDigits,       \* digits kept of a line, 10
  UINT32_MAX,
  ByteValues,      \* values of one byte of a size field, 256
  CopyBlock,       \* bytes a copy moves at a time, 1024
  HostEndianness

ASSUME LimitsAssumption ==
  /\ {maxOtherChunks, MaxLocations, MaxDigits} \subseteq Nat
  /\ {ByteValues, CopyBlock} \subseteq Nat \ {0}
ASSUME HostAssumption == HostEndianness \in {"LittleEndian", "BigEndian"}

VARIABLES
  cue_wave, cue_text,            \* the input files
  cue_pc, cue_pos,               \* place in the program and in an input file
  formatChunk, dataChunk,        \* locations, <<>> if not seen
  otherChunks,
  cueLocationString, cueLocations,
  cue_section, cue_done,         \* section being written, its bytes written
  cue_out                        \* the output file

cue_inputs == <<cue_wave, cue_text>>
cue_found == <<formatChunk, dataChunk, otherChunks>>
cue_marks == <<cueLocationString, cueLocations>>
cue_written == <<cue_section, cue_done, cue_out>>
cue_vars == <<cue_inputs, cue_pc, cue_pos, cue_found, cue_marks, cue_written>>

\* -- The format of the files ------------------------------------------------
Padded(n) == n + (n % 2)
\* f[1] + ... + f[n].
SumTo(f, n) ==
  LET sum[k \in 0 .. Len(f)] == IF k = 0 THEN 0 ELSE sum[k - 1] + f[k] IN sum[n]
ChunkStart(wave, k) ==
  12 + SumTo([j \in DOMAIN wave |-> 8 + Padded(wave[j].size)], k - 1)
LEBytes(n) ==
  LET q1 == n \div ByteValues  q2 == q1 \div ByteValues  q3 == q2 \div ByteValues
  IN <<n % ByteValues, q1 % ByteValues, q2 % ByteValues, q3 % ByteValues>>
LEValue(b) ==
  b[1] + ByteValues * (b[2] + ByteValues * (b[3] + ByteValues * b[4]))

\* -- Numbers in memory ------------------------------------------------------
\* The host's own order of the bytes of a number, and its reverse.
HostOrder(b) == IF HostEndianness = "LittleEndian" THEN b ELSE Reverse(b)
littleEndianBytesToUInt32(b) == LEValue(HostOrder(HostOrder(b)))
uint32ToLittleEndianBytes(n) == HostOrder(HostOrder(LEBytes(n)))
\* What may come out for n: on a big-endian host the two bytes end up in the
\* half of a word that is not returned, and the other half was never set.
littleEndianBytesToUInt16(n) ==
  IF HostEndianness = "LittleEndian" THEN {n % (ByteValues * ByteValues)}
  ELSE 0 .. ByteValues * ByteValues - 1

\* The input is whole: no chunk reaches past its end, format and data come once,
\* a cue chunk is as long as its points, and with MaxLocations points more the
\* file still has a size that its header can state.
ChunkIds == {"fmt ", "data", "cue ", "other"}
WaveFile(wave) ==
  /\ wave \in Seq([id : ChunkIds, size : Nat, code : Nat])
  /\ \A j, k \in DOMAIN wave :
       wave[j].id = wave[k].id /\ wave[j].id \in {"fmt ", "data"} => j = k
  /\ \A k \in DOMAIN wave :
       /\ wave[k].id = "fmt " => wave[k].size >= 16
       /\ wave[k].id = "cue " =>
            \E n \in 0 .. ByteValues * ByteValues - 1 : wave[k].size = 4 + 24 * n
  /\ ChunkStart(wave, Len(wave) + 1) + 12 + 24 * MaxLocations
       < ByteValues * (ByteValues * (ByteValues * ByteValues))
ASSUME InputsAssumption ==
  \A input \in CueInputs : WaveFile(input[1]) /\ input[2] \in Seq(Nat)
-----------------------------------------------------------------------------
CueInit ==
  /\ cue_wave = <<>> /\ cue_text = <<>>
  /\ cue_pc = "start" /\ cue_pos = 0
  /\ formatChunk = <<>> /\ dataChunk = <<>> /\ otherChunks = <<>>
  /\ cueLocationString = <<>> /\ cueLocations = <<>>
  /\ cue_section = 1 /\ cue_done = 0 /\ cue_out = <<>>

cue_fails == cue_pc' = "failed" /\ UNCHANGED cue_pos

\* Both files are there, and the header of the wave file is read.
cue_opens ==
  /\ cue_pc = "start"
  /\ \E input \in CueInputs : cue_wave' = input[1] /\ cue_text' = input[2]
  /\ IF cue_wave' = <<>> THEN cue_fails        \* "empty WAVE file"
     ELSE cue_pc' = "chunks" /\ cue_pos' = 12
  /\ UNCHANGED <<cue_found, cue_marks, cue_written>>

\* The chunk that begins where the program reads.
cue_here == {k \in DOMAIN cue_wave : ChunkStart(cue_wave, k) = cue_pos}
Location(at, size) == [startOffset |-> at, size |-> size]

\* How far the program moves on: behind the data and its padding byte.
cue_skips(read, size) == cue_pos' = cue_pos + read + Padded(size)

\* One round of the loop over the chunks.
cue_reads_chunk ==
  /\ cue_pc = "chunks"
  /\ \E k \in cue_here :
       LET id == cue_wave[k].id
           size == littleEndianBytesToUInt32(LEBytes(cue_wave[k].size))
       IN
         \/ /\ id = "fmt "
            /\ \E n \in littleEndianBytesToUInt16(cue_wave[k].code) : n # 1
            /\ cue_fails /\ UNCHANGED cue_found
         \/ /\ id = "fmt "
            /\ 1 \in littleEndianBytesToUInt16(cue_wave[k].code)
            /\ formatChunk' = Location(cue_pos + 24, size - 16)
            /\ cue_skips(24, size - 16)
            /\ UNCHANGED <<dataChunk, otherChunks, cue_pc>>
         \/ /\ id = "data"
            /\ dataChunk' = Location(cue_pos, 8 + size)
            /\ cue_skips(8, size)
            /\ UNCHANGED <<formatChunk, otherChunks, cue_pc>>
         \/ /\ id = "cue "   \* its points are read, and never used again
            /\ \E n \in littleEndianBytesToUInt16((size - 4) \div 24) :
                 cue_pos' = cue_pos + 12 + 24 * n
            /\ UNCHANGED <<cue_found, cue_pc>>
         \/ /\ id = "other" /\ Len(otherChunks) >= maxOtherChunks
            /\ cue_fails /\ UNCHANGED cue_found
         \/ /\ id = "other" /\ Len(otherChunks) < maxOtherChunks
            /\ otherChunks' = Append(otherChunks, Location(cue_pos, 8 + size))
            /\ cue_skips(8, size)
            /\ UNCHANGED <<formatChunk, dataChunk, cue_pc>>
  /\ UNCHANGED <<cue_inputs, cue_marks, cue_written>>

\* End of the file: was there enough to proceed?
cue_ends_chunks ==
  /\ cue_pc = "chunks"
  /\ cue_pos >= ChunkStart(cue_wave, Len(cue_wave) + 1)
  /\ IF formatChunk = <<>> \/ dataChunk = <<>> THEN cue_fails
     ELSE cue_pc' = "markers" /\ cue_pos' = 1
  /\ UNCHANGED <<cue_inputs, cue_found, cue_marks, cue_written>>
-----------------------------------------------------------------------------
(***************************************************************************)
(* The markers file, character by character.                               *)
(***************************************************************************)
\* A digit stands for itself, any other character for its code.
LF == 10
CR == 13
IsDigit(c) == c \in 0 .. 9
strtol(digits) == FoldLeft(LAMBDA n, d : 10 * n + d, 0, digits)

cue_reads_character ==
  /\ cue_pc = "markers" /\ cue_pos <= Len(cue_text)
  /\ LET c == cue_text[cue_pos] IN
       /\ c \notin {CR, LF}
       /\ cueLocationString' =
            IF IsDigit(c) /\ Len(cueLocationString) < MaxDigits
              THEN Append(cueLocationString, c) ELSE cueLocationString
  /\ cue_pos' = cue_pos + 1
  /\ UNCHANGED <<cue_inputs, cue_pc, cue_found, cueLocations, cue_written>>

\* Mutant: "\r" is taken to be followed by "\n".
cue_line_ending_two == IF cue_text[cue_pos] = CR THEN 2 ELSE 1

\* "\r\n" is one line ending.
cue_line_ending ==
  IF cue_text[cue_pos] = CR /\ cue_pos < Len(cue_text)
       /\ cue_text[cue_pos + 1] = LF
  THEN 2 ELSE 1

\* End of a line or of the file.  A location too many is stored behind the
\* array, after which the model says nothing.
cue_ends_line ==
  /\ cue_pc = "markers"
  /\ cue_pos <= Len(cue_text) => cue_text[cue_pos] \in {CR, LF}
  /\ LET ended == cue_pos > Len(cue_text)
         n == strtol(cueLocationString)
         keep == cueLocationString # <<>> /\ n < UINT32_MAX
     IN
       /\ cueLocations' = IF keep THEN Append(cueLocations, n) ELSE cueLocations
       /\ cue_pc' = IF Len(cueLocations') > MaxLocations THEN "overrun"
                    ELSE IF ~ended THEN "markers"
                    ELSE IF cueLocations' = <<>> THEN "failed" ELSE "write"
       /\ cue_pos' = IF ended THEN cue_pos ELSE cue_pos + cue_line_ending
  /\ cueLocationString' = <<>>
  /\ UNCHANGED <<cue_inputs, cue_found, cue_written>>
-----------------------------------------------------------------------------

\* The output file is a run of sections, new ones and copies of input bytes:
\* header, format chunk, its extra bytes, head of the cue chunk, cue points,
\* other chunks, data chunk.
New == -1
Sections == 5 + Len(cueLocations) + Len(otherChunks)
Section(i) ==
  LET first_other == 5 + Len(cueLocations) IN
    CASE i = 1 -> Location(New, 12)
      [] i = 2 -> Location(formatChunk.startOffset - 24, 24)
      [] i = 3 -> formatChunk
      [] i = 4 -> Location(New, 12)
      [] i \in 5 .. first_other - 1 -> Location(New, 24)
      [] i \in first_other .. Sections - 1 -> otherChunks[i - first_other + 1]
      [] OTHER -> dataChunk
SectionByte(l, b) ==
  IF l.startOffset = New \/ b > l.size THEN New ELSE l.startOffset + b - 1

\* Mutant: the padding byte of the data chunk is not counted.
fileDataSize_unpadded ==
  4 + 24 + Padded(formatChunk.size) + dataChunk.size
    + SumTo([k \in DOMAIN otherChunks |-> Padded(otherChunks[k].size)], Len(otherChunks))
    + 12 + 24 * Len(cueLocations)

\* The size the header of the output file declares.
fileDataSize ==
  4 + 24 + Padded(formatChunk.size) + Padded(dataChunk.size)
    + SumTo([k \in DOMAIN otherChunks |-> Padded(otherChunks[k].size)], Len(otherChunks))
    + 12 + 24 * Len(cueLocations)

\* One fwrite(): of a new section, of a block of a copied one, or of the byte
\* that pads it.  A section without bytes is passed over.
fwrite_size(l) ==
  IF cue_done = l.size THEN l.size % 2
  ELSE IF l.startOffset # New /\ l.size - cue_done > CopyBlock THEN CopyBlock
  ELSE l.size - cue_done

cue_writes ==
  /\ cue_pc = "write" /\ cue_section <= Sections
  /\ LET l == Section(cue_section)
         n == fwrite_size(l)
     IN
       /\ cue_out' = cue_out \o [b \in 1 .. n |-> SectionByte(l, cue_done + b)]
       /\ IF cue_done + n = Padded(l.size)
            THEN cue_section' = cue_section + 1 /\ cue_done' = 0
            ELSE cue_done' = cue_done + n /\ UNCHANGED cue_section
  /\ UNCHANGED <<cue_inputs, cue_pc, cue_pos, cue_found, cue_marks>>

\* A write fails, or the output file cannot be opened: what was written stays.
cue_write_fails ==
  /\ cue_pc = "write" /\ cue_section <= Sections
  /\ Section(cue_section).size > 0
  /\ cue_fails
  /\ UNCHANGED <<cue_inputs, cue_found, cue_marks, cue_written>>

cue_finishes ==
  /\ cue_pc = "write" /\ cue_section > Sections
  /\ cue_pc' = "finished"
  /\ UNCHANGED <<cue_inputs, cue_pos, cue_found, cue_marks, cue_written>>

CueNext == \/ cue_opens \/ cue_reads_chunk \/ cue_ends_chunks
           \/ cue_reads_character \/ cue_ends_line
           \/ cue_writes \/ cue_write_fails \/ cue_finishes
CueSpec == CueInit /\ [][CueNext]_cue_vars
-----------------------------------------------------------------------------
\* The size field of the output's header, as a reader of the file sees it.
Declared == LEValue(uint32ToLittleEndianBytes(fileDataSize))

\* A finished output is a well-formed wave file: its header declares the bytes
\* that follow, and every chunk of the input but the old cue chunk is in it
\* exactly once, whole, at an even offset, whatever chunks the input had in
\* whatever order; an unfinished one shows, since it has less than it declares.
\* On the way the program never looks for a chunk where none begins.
CueFileWhole ==
  /\ cue_pc = "chunks" =>
       cue_here # {} \/ cue_pos >= ChunkStart(cue_wave, Len(cue_wave) + 1)
  /\ cue_pc = "finished" =>
       /\ Declared + 8 = Len(cue_out)
       /\ \A k \in DOMAIN cue_wave : cue_wave[k].id # "cue " =>
            LET start == ChunkStart(cue_wave, k)
                size == 8 + cue_wave[k].size
                at == {n \in DOMAIN cue_out : cue_out[n] = start}
            IN \E n \in at :
                 /\ at = {n} /\ n % 2 = 1
                 /\ n + size - 1 <= Len(cue_out)
                 /\ \A b \in 0 .. size - 1 : cue_out[n + b] = start + b
  /\ cue_pc = "failed" /\ cue_out # <<>> => Len(cue_out) < Declared + 8

\* The lines of a markers file, by where they begin.
LineStarts(text) == {1} \cup {k + 1 : k \in {j \in DOMAIN text : text[j] \in {CR, LF}}}
LineEnd(text, s) ==
  Min({k \in s .. Len(text) : text[k] \in {CR, LF}} \cup {Len(text) + 1})
\* The digits from place s up to place e.
DigitsBetween(text, s, e) ==
  LET digits[k \in 0 .. Len(text)] ==
        IF k < s THEN <<>>
        ELSE IF IsDigit(text[k]) THEN Append(digits[k - 1], text[k])
        ELSE digits[k - 1]
  IN digits[e]
\* Those that count of the line that begins at s.
LineDigits(text, s) ==
  LET all == DigitsBetween(text, s, LineEnd(text, s) - 1)
  IN SubSeq(all, 1, Min({Len(all), MaxDigits}))
\* A line whose number is smaller than bound.
LineHasValue(bound, text, s) ==
  /\ s \in LineStarts(text)
  /\ LineDigits(text, s) # <<>> /\ strtol(LineDigits(text, s)) < bound
\* The values of the lines that begin at p or before.
ValuesUpTo(bound, text, p) ==
  LET values[k \in 0 .. Len(text) + 1] ==
        IF k = 0 THEN <<>>
        ELSE IF LineHasValue(bound, text, k)
          THEN Append(values[k - 1], strtol(LineDigits(text, k)))
        ELSE values[k - 1]
  IN values[p]
ValuesBelow(bound) == ValuesUpTo(bound, cue_text, Len(cue_text) + 1)

\* The cue points are the lines' numbers below the largest 32-bit number, in
\* their order, whichever line endings are used or mixed, wherever other
\* characters stand and whether the last line is ended or not; only a file with
\* more of them than the array has entries runs over it.
CueLocationsAreLines ==
  /\ cue_pc \in {"write", "finished"} => cueLocations = ValuesBelow(UINT32_MAX)
  /\ cue_pc = "overrun" => Len(ValuesBelow(UINT32_MAX)) > MaxLocations

\* "Max value for a sample location is 4,294,967,295" (wavecuepoint.c:433, and
\* 385): a line with that number is a cue point like the others.
LargestIsLocation ==
  cue_pc \in {"write", "finished"} => cueLocations = ValuesBelow(UINT32_MAX + 1)
=============================================================================
