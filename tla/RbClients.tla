----------------------------- MODULE RbClients -----------------------------
(***************************************************************************)
(* The command line clients of rb/: a writing and a reading process at the *)
(* two ends of one shared ringbuffer, here the queue RbQueue promises.     *)
(*   writing: rb_cat -, img_cat, rb_shared_writer and rb_test2's writer    *)
(*   reading: rb_cat, rb_shared_reader and rb_test2's reader               *)
(* All of them retry short transfers: rb_write() takes what fits, which    *)
(* may be nothing, and rb_read() gives what is there.  Bytes are numbers;  *)
(* a sentence or a header is the bytes 1 .. its length.  The processes may *)
(* be started in any order and the reading one may be killed.              *)
(***************************************************************************)
EXTENDS Naturals, SequencesExt

CONSTANTS Capacity,       \* size of the ringbuffer
          bufsize,        \* buffer of rb_cat and img_cat
          content_length, \* rb_shared_writer's sentence
          headersize,     \* img_cat's header
          buf_size,       \* buffer of rb_shared_reader
          MaxBytes        \* bound: bytes stdin, the file or all sentences hold

ASSUME ClientAssumption ==
  /\ {Capacity, bufsize, content_length, buf_size} \subseteq Nat \ {0}
  /\ MaxBytes \in Nat
  /\ headersize \in 0 .. MaxBytes

VARIABLES
  cli_writer, cli_reader,   \* the programs
  cli_queue,                \* the ringbuffer
  no_more_input_data,
  cli_taken,                \* bytes taken from the input so far
  cli_buf, didwrite,        \* the writer's buffer and how much of it is written
  cli_window, read_total,   \* the reader's buffer and how much of it is filled
  cli_printed

cli_writing == <<cli_writer, cli_taken, cli_buf, didwrite>>
cli_reading == <<cli_reader, cli_window, read_total, cli_printed>>
cli_vars == <<cli_writing, cli_reading, cli_queue, no_more_input_data>>

\* What each writing program sends, MaxBytes of it at most.
cli_input == [k \in 1 .. MaxBytes |->
  CASE cli_writer \in {"rb_shared_writer", "rb_test2"} -> ((k - 1) % content_length) + 1
    [] cli_writer = "img_cat" /\ k > headersize -> k - headersize
    [] OTHER -> k]

CliInit ==
  /\ cli_writer = "none" /\ cli_reader = "none"
  /\ cli_queue = <<>> /\ no_more_input_data = FALSE
  /\ cli_taken = 0 /\ cli_buf = <<>> /\ didwrite = 0
  /\ cli_window = [k \in 1 .. buf_size |-> 0] /\ read_total = 0
  /\ cli_printed = <<>>

cli_starts_writer ==
  /\ cli_writer = "none"
  /\ cli_writer' \in {"rb_cat", "img_cat", "rb_shared_writer", "rb_test2"}
  /\ UNCHANGED <<cli_taken, cli_buf, didwrite, cli_reading, cli_queue,
                 no_more_input_data>>

cli_starts_reader ==
  /\ cli_reader = "none"
  /\ cli_reader' \in {"rb_cat", "rb_shared_reader", "rb_test2"}
  /\ UNCHANGED <<cli_window, read_total, cli_printed, cli_writing, cli_queue,
                 no_more_input_data>>

\* Once all of the buffer is written, its next n bytes.
cli_refills(n) ==
  /\ didwrite = Len(cli_buf)
  /\ cli_buf' = SubSeq(cli_input, cli_taken + 1, cli_taken + n)
  /\ cli_taken' = cli_taken + n
  /\ didwrite' = 0
  /\ UNCHANGED <<cli_writer, cli_reading, cli_queue, no_more_input_data>>

\* rb_cat: read() from stdin returns what has been typed or piped so far.
rb_cat_reads_stdin ==
  /\ cli_writer = "rb_cat"
  /\ \E n \in 1 .. bufsize : n <= MaxBytes - cli_taken /\ cli_refills(n)

\* img_cat: the header first, then the file, a buffer at a time.
img_cat_reads_file ==
  /\ cli_writer = "img_cat"
  /\ LET left == MaxBytes - cli_taken IN
       IF cli_taken = 0 THEN cli_refills(headersize)
       ELSE left > 0 /\ cli_refills(IF left < bufsize THEN left ELSE bufsize)

\* write_total starts again.
cli_repeats == cli_taken + content_length <= MaxBytes /\ cli_refills(content_length)
rb_shared_writer_repeats == cli_writer = "rb_shared_writer" /\ cli_repeats
rb_test2_repeats == cli_writer = "rb_test2" /\ cli_repeats

\* Mutant: every retry begins at the front of the buffer.
cli_written_front ==
  LET free == Capacity - Len(cli_queue)
      rest == Len(cli_buf) - didwrite
  IN SubSeq(cli_buf, 1, IF rest < free THEN rest ELSE free)

\* rb_write() of what is left of the buffer, as much as the queue takes.
cli_written ==
  LET rest == Len(cli_buf) - didwrite
      free == Capacity - Len(cli_queue)
      n == IF rest < free THEN rest ELSE free
  IN SubSeq(cli_buf, didwrite + 1, didwrite + n)

cli_writes ==
  /\ didwrite < Len(cli_buf)
  /\ cli_queue' = cli_queue \o cli_written
  /\ didwrite' = didwrite + Len(cli_written)
  /\ UNCHANGED <<cli_writer, cli_taken, cli_buf, cli_reading, no_more_input_data>>

\* Mutant: waits for all n bytes.
cli_gets_all(n) == IF n <= Len(cli_queue) THEN SubSeq(cli_queue, 1, n) ELSE <<>>

\* rb_read() of at most n bytes.
cli_gets(n) ==
  SubSeq(cli_queue, 1, IF n < Len(cli_queue) THEN n ELSE Len(cli_queue))
cli_takes_off(bytes) == cli_queue' = SubSeq(cli_queue, Len(bytes) + 1, Len(cli_queue))

rb_cat_reads ==
  /\ cli_reader = "rb_cat"
  /\ IF no_more_input_data
       THEN cli_reader' = "ended" /\ UNCHANGED <<cli_printed, cli_queue>>
       ELSE /\ cli_takes_off(cli_gets(bufsize))
            /\ cli_printed' = cli_printed \o cli_gets(bufsize)
            /\ UNCHANGED cli_reader
  /\ UNCHANGED <<cli_window, read_total, cli_writing, no_more_input_data>>

\* Read into the rest of the window and print the part that was read; a full
\* window is started again from the front.
cli_fills_window ==
  /\ LET offset == IF read_total >= buf_size THEN 0 ELSE read_total
         bytes == cli_gets(buf_size - offset)
     IN
       /\ cli_takes_off(bytes)
       /\ cli_window' = [k \in 1 .. buf_size |->
            IF k \in offset + 1 .. offset + Len(bytes) THEN bytes[k - offset]
            ELSE cli_window[k]]
       /\ read_total' = offset + Len(bytes)
       /\ cli_printed' = cli_printed \o SubSeq(cli_window', offset + 1, read_total')
  /\ UNCHANGED <<cli_reader, cli_writing, no_more_input_data>>
rb_shared_reader_reads == cli_reader = "rb_shared_reader" /\ cli_fills_window
rb_test2_reads == cli_reader = "rb_test2" /\ cli_fills_window

\* Someone sets rb_t.no_more_input_data; someone kills the reader.
cli_outside ==
  /\ cli_reader \notin {"none", "ended"}
  /\ \/ ~no_more_input_data /\ no_more_input_data' = TRUE /\ UNCHANGED cli_reader
     \/ cli_reader' = "ended" /\ UNCHANGED no_more_input_data
  /\ UNCHANGED <<cli_window, read_total, cli_printed, cli_writing, cli_queue>>

cli_writer_steps == \/ rb_cat_reads_stdin \/ img_cat_reads_file
                    \/ rb_shared_writer_repeats \/ rb_test2_repeats
                    \/ cli_writes
cli_reader_steps == rb_cat_reads \/ rb_shared_reader_reads \/ rb_test2_reads

CliNext == \/ cli_starts_writer \/ cli_starts_reader \/ cli_outside
           \/ cli_writer_steps \/ cli_reader_steps
CliSpec == CliInit /\ [][CliNext]_cli_vars
\* Both programs, once started, poll for ever; stdin goes on delivering.
CliFairness == WF_cli_vars(cli_writer_steps) /\ WF_cli_vars(cli_reader_steps)
-----------------------------------------------------------------------------
\* What has been printed, what is in the ringbuffer and what the writer still
\* has to write are, in this order, exactly what it took from its input: no
\* short transfer repeats, drops or reorders a byte.
CliNothingLost ==
  cli_printed \o cli_queue \o SubSeq(cli_buf, didwrite + 1, Len(cli_buf))
    = SubSeq(cli_input, 1, cli_taken)

\* Every byte taken from the input gets printed as long as the reading program
\* runs, also through a buffer smaller than what either side moves at once: once
\* it is started, there comes again and again a moment at which nothing is left.
CliAllPrinted ==
  []<>(cli_reader \in {"none", "ended"} \/ Len(cli_printed) = cli_taken)
=============================================================================
