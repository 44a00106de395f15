---------------------------- MODULE MC_Programs ----------------------------
(* The parts of csnip that share no state and of which nothing is asked but *)
(* safety: each behaviour runs one of them, on a small instance, while the  *)
(* variables of the others rest.                                            *)
EXTENDS ThreadsSend, TailF, JackRing, MC_WaveCue, HashRounds, HashPad, VectorCost,
        RbExclusive

VARIABLE program

vector_vars == <<vars, calls, moved>>
Vars == <<program, snd_vars, tail_vars, jack_vars, cue_vars, hash_vars, pad_vars,
          vector_vars, exc_vars>>

NoItem == CHOOSE item \in ExcItem : TRUE
ProgramsInit ==
  /\ program \in {"threads_send_udp", "tailf", "ringbuffer.c", "wavecuepoint",
                  "rounds", "padding", "vector", "exclusive"}
  /\ SndInit /\ TailInit /\ JackInit /\ CueInit /\ HashInit /\ PadInit
  /\ Init_metered /\ (program # "vector" => capacity = MaxSize /\ ~denied)
  /\ ExcInit
  /\ exc_dead = IF program = "exclusive" THEN {} ELSE exc_all
  /\ program # "exclusive" => \A k \in DOMAIN exc_buf : exc_buf[k] = NoItem

ProgramsNext ==
  /\ UNCHANGED program
  /\ IF program = "threads_send_udp" THEN SndNext ELSE UNCHANGED snd_vars
  /\ IF program = "tailf" THEN TailNext ELSE UNCHANGED tail_vars
  /\ IF program = "ringbuffer.c" THEN JackNext ELSE UNCHANGED jack_vars
  /\ IF program = "wavecuepoint" THEN CueNext ELSE UNCHANGED cue_vars
  /\ IF program = "rounds" THEN HashNext ELSE UNCHANGED hash_vars
  /\ IF program = "padding" THEN PadNext ELSE UNCHANGED pad_vars
  /\ IF program = "vector" THEN Next_metered ELSE UNCHANGED vector_vars
  /\ IF program = "exclusive" THEN ExcNext ELSE UNCHANGED exc_vars

ProgramsSpec == ProgramsInit /\ [][ProgramsNext]_Vars
-----------------------------------------------------------------------------
(* Words of eight bits, with the sum modulo 256.                           *)
WordOf(n) == [k \in 1 .. Bits |-> (n \div 2 ^ (Bits - k)) % 2 = 1]
NumberOf(w) == LET n[k \in 0 .. Bits] ==
                     IF k = 0 THEN 0 ELSE 2 * n[k - 1] + (IF w[k] THEN 1 ELSE 0)
               IN n[Bits]
SumOfWords(x, y) == WordOf((NumberOf(x) + NumberOf(y)) % 2 ^ Bits)
RoundConstant(alg, i) == WordOf((i * 37 + 11) % 2 ^ Bits)
SomeInputs ==
  {<<[r \in 1 .. 8 |-> WordOf((r * r * s + 3 * s) % 2 ^ Bits)],
     [r \in 1 .. 16 |-> WordOf((r * r * r * s + 7 * r + s) % 2 ^ Bits)]>> : s \in 1 .. 2}

\* Every length up to two blocks and around the limits of the length field.
SomeLengths == 0 .. 140 \cup 180 .. 200 \cup 230 .. 260
                 \cup {8191, 8192, 8193, 1048576, 16777215}

\* rb_new(3) of ringbuffer.c.
JackSize == jack_ringbuffer_create(3)
=============================================================================
