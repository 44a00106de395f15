------------------------------- MODULE TailF -------------------------------
(***************************************************************************)
(* tailf/tailf.c: print the last line of a file whenever its length has    *)
(* changed since the last look.  Looking, each turn of the walk back to    *)
(* the newline, and printing are steps; another process appends to the     *)
(* file, or truncates it and starts again, between any two of them.        *)
(*                                                                         *)
(* The walk reads through stdio, which holds a stretch of the file in its  *)
(* buffer.  What fseek() does with that stretch is left to the library: a  *)
(* position inside it may keep it as it is (glibc) or not (musl), another  *)
(* one may fetch the block the position is in (glibc) or nothing.          *)
(* printLine() reads the file itself.                                      *)
(***************************************************************************)
EXTENDS Integers, Sequences

CONSTANTS MaxFile,    \* bound: length of the file
          Block       \* length of stdio's buffer

ASSUME BlockAssumption == Block \in Nat \ {0}

VARIABLES
  tail_file,          \* the bytes of the file: "a", "b" or a newline
  tail_buffer,        \* stdio's: the bytes, and the place at of the first one
  prev_end,           \* the length at the last look
  tail_pc, fposition,
  tail_shown,         \* what printLine() printed last
  tail_masked,        \* history: the file was rewritten up to just prev_end
  tail_misread        \* history: the walk met a byte the file no longer had

tail_vars == <<tail_file, tail_buffer, prev_end, tail_pc, fposition, tail_shown,
               tail_masked, tail_misread>>

Newline == "nl"
tail_bytes == {"a", "b", Newline}
EOF == "eof"

TailInit ==
  /\ tail_file = <<>> /\ prev_end = 0
  /\ tail_buffer = [at |-> 0, bytes |-> <<>>]
  /\ tail_pc = "idle" /\ fposition = 0
  /\ tail_shown = <<>> /\ tail_masked = FALSE /\ tail_misread = FALSE

\* Another process.
tail_changes(file) ==
  /\ tail_file' = file
  /\ tail_masked' = (Len(file) = prev_end)
  /\ UNCHANGED <<tail_buffer, prev_end, tail_pc, fposition, tail_shown, tail_misread>>
tail_appends ==
  \E b \in tail_bytes : Len(tail_file) < MaxFile /\ tail_changes(Append(tail_file, b))
tail_truncates == tail_file # <<>> /\ tail_changes(<<>>)

(***************************************************************************)
(* stdio, from a buffer b: what fseek() may leave of it, and what fgetc()  *)
(* at a position makes of it and returns.                                  *)
(***************************************************************************)
ByteAt(b, pos) == IF pos - b.at \in 0 .. Len(b.bytes) - 1
                  THEN b.bytes[pos - b.at + 1] ELSE EOF
tail_fetched(from) ==
  [at |-> from,
   bytes |-> SubSeq(tail_file, from + 1, IF Len(tail_file) < from + Block
                                           THEN Len(tail_file) ELSE from + Block)]

fseek(b, pos) ==
  {[at |-> 0, bytes |-> <<>>],
   IF ByteAt(b, pos) # EOF THEN b ELSE tail_fetched(pos - (pos % Block))}

fgetc(b, pos) == IF ByteAt(b, pos) # EOF THEN b ELSE tail_fetched(pos)

\* walkFile() up to the comparison with prev_end.
walkFile ==
  /\ tail_pc = "idle"
  /\ tail_buffer' \in fseek(tail_buffer, Len(tail_file))
  /\ IF Len(tail_file) = prev_end
       THEN UNCHANGED <<prev_end, fposition, tail_pc, tail_masked, tail_misread>>
       ELSE /\ prev_end' = Len(tail_file)
            /\ fposition' = Len(tail_file)
            /\ tail_pc' = "walk"
            /\ tail_masked' = FALSE /\ tail_misread' = FALSE
  /\ UNCHANGED <<tail_file, tail_shown>>

\* Mutant: a newline at the end of the file stops the walk.
tail_stops_end(c, index, end) == c = Newline /\ end - index > 0

\* The newline to stop at: not the byte just before the end.
tail_stops(c, index, end) == c = Newline /\ end - index > 1

\* One turn of walkFile()'s loop, and the test of countlines behind it.
tail_walks ==
  /\ tail_pc = "walk"
  /\ LET b == fgetc(tail_buffer, fposition)
         cbyte == ByteAt(b, fposition)
     IN
       /\ IF tail_stops(cbyte, fposition, prev_end)
            THEN tail_pc' = "print" /\ tail_buffer' = b /\ UNCHANGED fposition
            ELSE /\ fposition' = fposition - 1
                 /\ IF fposition = 0 THEN tail_pc' = "idle" /\ tail_buffer' = b
                    ELSE tail_pc' = "walk" /\ tail_buffer' \in fseek(b, fposition - 1)
       /\ tail_misread' = (tail_misread
            \/ cbyte # ByteAt([at |-> 0, bytes |-> tail_file], fposition))
  /\ UNCHANGED <<tail_file, prev_end, tail_shown, tail_masked>>

\* printLine(): from behind the newline to the end the file has by now.
printLine ==
  /\ tail_pc = "print"
  /\ tail_shown' = SubSeq(tail_file, fposition + 2, Len(tail_file))
  /\ tail_pc' = "idle"
  /\ UNCHANGED <<tail_file, tail_buffer, prev_end, fposition, tail_masked,
                 tail_misread>>

TailNext == tail_appends \/ tail_truncates \/ walkFile \/ tail_walks \/ printLine
TailSpec == TailInit /\ [][TailNext]_tail_vars
-----------------------------------------------------------------------------
\* line is the last line of the file: all that follows a newline, and no other
\* newline in it but the one that may end the file.
IsLastLine(line) ==
  \E k \in 1 .. Len(tail_file) - 1 :
    /\ tail_file[k] = Newline
    /\ line = SubSeq(tail_file, k + 1, Len(tail_file))
    /\ Newline \notin {tail_file[j] : j \in k + 1 .. Len(tail_file) - 1}

\* The program has seen the length the file now has, and the file, of two lines
\* or more, has not been rewritten to just that length since.
tail_seen ==
  /\ tail_pc = "idle" /\ prev_end = Len(tail_file) /\ ~tail_masked
  /\ \E k \in 1 .. Len(tail_file) - 1 : tail_file[k] = Newline

\* What the program printed last is then the file's last line, however writers
\* and polls interleaved, unless the walk met a byte in stdio's buffer that the
\* file no longer had in that place.
TailShowsLast == tail_seen => IsLastLine(tail_shown) \/ tail_misread

\* tailf.c:5: "continuously prints last line in file".  What the program printed
\* last is the last line of the file it has seen.
TailPrintsLast == tail_seen => IsLastLine(tail_shown)
=============================================================================
