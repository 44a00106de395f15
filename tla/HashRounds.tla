----------------------------- MODULE HashRounds -----------------------------
(***************************************************************************)
(* The compression functions of hash/: SHA-1 in its naive and its fast     *)
(* form, SHA-256, SHA-512 and MD5.  They are unrolled: a round does not    *)
(* move the working variables along but is called with them in rotated     *)
(* order, and changes only two or three of them.  The fast SHA-1 keeps the *)
(* last 16 words of the schedule, each computed in its round.  Next to the *)
(* code's variables runs the function as its standard states it            *)
(* (std_reg, std_w), with moving variables and the whole schedule.         *)
(*                                                                         *)
(* A word is a row of bits, most significant first.  What the sum of two   *)
(* words is does not matter and is a parameter, and so is the table of     *)
(* additive constants; sums are taken in the order the code writes.        *)
(***************************************************************************)
EXTENDS Integers, Sequences

CONSTANTS Bits,          \* width of a word
          Plus(_, _),    \* sum of two words
          HashK(_, _),   \* HashK(alg, i): the constant of round i
          HashInputs     \* pairs of a state and a block of 16 words

ASSUME BitsAssumption == Bits \in Nat \ {0}

VARIABLES
  hash_alg, hash_pc, hash_i,
  hash_state,            \* the state the block is mixed into
  schedule,              \* the code's schedule
  hash_reg,              \* the code's a, b, c, ... as 0, 1, 2, ...
  std_w, std_reg

hash_vars == <<hash_alg, hash_pc, hash_i, hash_state, schedule, hash_reg,
               std_w, std_reg>>

Xor(x, y) == [k \in 1 .. Bits |-> x[k] # y[k]]
And(x, y) == [k \in 1 .. Bits |-> x[k] /\ y[k]]
Or(x, y)  == [k \in 1 .. Bits |-> x[k] \/ y[k]]
Not(x)    == [k \in 1 .. Bits |-> ~x[k]]
Rotl(x, n) == [k \in 1 .. Bits |-> x[((k - 1 + n) % Bits) + 1]]
Rotr(x, n) == [k \in 1 .. Bits |-> x[((k - 1 - n) % Bits) + 1]]
Shr(x, n)  == [k \in 1 .. Bits |-> IF k > n THEN x[k - n] ELSE FALSE]

Xor3(x, y, z) == Xor(Xor(x, y), z)
Sum3(x, y, z) == Plus(Plus(x, y), z)
Sum5(v, w, x, y, z) == Plus(Plus(Sum3(v, w, x), y), z)

Algorithms == {"sha1-naive", "sha1-fast", "sha256", "sha512", "md5"}
Sha1 == {"sha1-naive", "sha1-fast"}
Rounds(alg) == IF alg \in {"sha256", "md5"} THEN 64 ELSE 80
Registers(alg) == IF alg \in Sha1 THEN 5 ELSE IF alg = "md5" THEN 4 ELSE 8

\* A sum of words is a word, and words are what the program is given.
HashWord == [1 .. Bits -> BOOLEAN]
ASSUME HashWordsAssumption ==
  /\ \A x, y \in HashWord : Plus(x, y) \in HashWord
  /\ \A alg \in Algorithms, i \in 0 .. 79 : HashK(alg, i) \in HashWord
  /\ \A input \in HashInputs :
       /\ \A r \in 1 .. 8 : input[1][r] \in HashWord
       /\ \A j \in 1 .. 16 : input[2][j] \in HashWord

\* The register that plays role r (0 for a, 1 for b, ...) in round i.
role(alg, i, r) == (r - i) % Registers(alg)
-----------------------------------------------------------------------------
(***************************************************************************)
(* The rounds as the code writes them.                                     *)
(***************************************************************************)
\* Mutant: the third function begins one round early.
sha1_f_early(i, b, c, d) ==
  CASE i < 20 -> Or(And(b, c), And(Not(b), d))
    [] i \in 39 .. 59 -> Xor3(And(b, c), And(b, d), And(c, d))
    [] OTHER -> Xor3(b, c, d)

\* ROUND0 .. ROUND3 of both SHA-1 files.
sha1_f(i, b, c, d) ==
  CASE i < 20 -> Or(And(b, c), And(Not(b), d))
    [] i \in 40 .. 59 -> Xor3(And(b, c), And(b, d), And(c, d))
    [] OTHER -> Xor3(b, c, d)

sha1_round(reg, i, k, w) ==
  LET R(r) == (r - i) % 5 IN
    [reg EXCEPT ![R(4)] = Sum5(reg[R(4)], Rotl(reg[R(0)], 5),
                               sha1_f(i, reg[R(1)], reg[R(2)], reg[R(3)]), k, w),
                ![R(1)] = Rotl(reg[R(1)], 30)]

\* Rotations of ROUND and SCHEDULE, in the order they are written there.
sha2_rot(alg) == IF alg = "sha256"
  THEN [e |-> <<6, 11, 25>>,  a |-> <<2, 13, 22>>,
        w15 |-> <<7, 18, 3>>, w2 |-> <<17, 19, 10>>]
  ELSE [e |-> <<14, 18, 41>>, a |-> <<28, 34, 39>>,
        w15 |-> <<1, 8, 7>>,  w2 |-> <<19, 61, 6>>]
sha2_mix(x, n) == Xor3(Rotr(x, n[1]), Rotr(x, n[2]), Rotr(x, n[3]))
sha2_part(x, n) == Xor3(Rotr(x, n[1]), Rotr(x, n[2]), Shr(x, n[3]))

sha2_round(alg, reg, i, k, w) ==
  LET R(r) == (r - i) % 8
      rot == sha2_rot(alg)
      h == Sum5(reg[R(7)], sha2_mix(reg[R(4)], rot.e),
                Xor(reg[R(6)], And(reg[R(4)], Xor(reg[R(5)], reg[R(6)]))), k, w)
  IN [reg EXCEPT ![R(3)] = Plus(reg[R(3)], h),
                 ![R(7)] = Sum3(h, sha2_mix(reg[R(0)], rot.a),
                    Or(And(reg[R(0)], Or(reg[R(1)], reg[R(2)])), And(reg[R(1)], reg[R(2)])))]

\* ROUND0 .. ROUND3 of md5.c, the word each takes and its rotation.
md5_f(i, b, c, d) ==
  CASE i < 16 -> Xor(d, And(b, Xor(c, d)))
    [] i \in 16 .. 31 -> Xor(c, And(d, Xor(b, c)))
    [] i \in 32 .. 47 -> Xor3(b, c, d)
    [] OTHER -> Xor(c, Or(b, Not(d)))
md5_k(i) == CASE i < 16 -> i
              [] i \in 16 .. 31 -> (5 * i + 1) % 16
              [] i \in 32 .. 47 -> (3 * i + 5) % 16
              [] OTHER -> (7 * i) % 16
md5_s(i) == << <<7, 12, 17, 22>>, <<5, 9, 14, 20>>, <<4, 11, 16, 23>>,
               <<6, 10, 15, 21>> >>[(i \div 16) + 1][(i % 4) + 1]

md5_round(reg, i, k, w) ==
  LET R(r) == (r - i) % 4
      a == Plus(Sum3(reg[R(0)], md5_f(i, reg[R(1)], reg[R(2)], reg[R(3)]), k), w)
  IN [reg EXCEPT ![R(0)] = Plus(reg[R(1)], Rotl(a, md5_s(i)))]

\* SCHEDULE(i), from the words 3, 8, 14 and 16 back.
sha1_extend(w3, w8, w14, w16) == Rotl(Xor(Xor3(w3, w8, w14), w16), 1)
sha1_word(s, i) == sha1_extend(s[i - 3], s[i - 8], s[i - 14], s[i - 16])
sha2_extend(alg, s, i) ==
  Plus(Sum3(s[i - 16], s[i - 7], sha2_part(s[i - 15], sha2_rot(alg).w15)),
       sha2_part(s[i - 2], sha2_rot(alg).w2))

mask_0xF(j) == j % 16
sha1_fast_schedule(s, i) ==
  LET back(n) == s[mask_0xF(i - n)] IN
    IF i < 16 THEN s
    ELSE [s EXCEPT ![mask_0xF(i)] = sha1_extend(back(3), back(8), back(14), back(16))]
-----------------------------------------------------------------------------
(***************************************************************************)
(* The functions as FIPS 180-4 and RFC 1321 state them.                    *)
(***************************************************************************)
Ch(x, y, z) == Xor(And(x, y), And(Not(x), z))
Maj(x, y, z) == Xor3(And(x, y), And(x, z), And(y, z))

StdSha1F(i, x, y, z) == CASE i < 20 -> Ch(x, y, z)
                          [] i \in 40 .. 59 -> Maj(x, y, z)
                          [] OTHER -> Xor3(x, y, z)
StdMd5F(i, x, y, z) == CASE i < 16 -> Or(And(x, y), And(Not(x), z))
                         [] i \in 16 .. 31 -> Or(And(x, z), And(y, Not(z)))
                         [] i \in 32 .. 47 -> Xor3(x, y, z)
                         [] OTHER -> Xor(y, Or(x, Not(z)))

\* The working variables after round i; s[0] is a, s[1] is b, ...
Moved(s, first, n) == [r \in 0 .. n - 1 |-> IF r = 0 THEN first ELSE s[r - 1]]

StdRound(alg, s, i, k, w) ==
  CASE alg \in Sha1 ->
         [Moved(s, Sum5(s[4], Rotl(s[0], 5), StdSha1F(i, s[1], s[2], s[3]), k, w[i]), 5)
            EXCEPT ![2] = Rotl(s[1], 30)]
    [] alg \in {"sha256", "sha512"} ->
         LET T1 == Sum5(s[7], sha2_mix(s[4], sha2_rot(alg).e), Ch(s[4], s[5], s[6]), k, w[i])
         IN [Moved(s, Sum3(T1, sha2_mix(s[0], sha2_rot(alg).a), Maj(s[0], s[1], s[2])), 8)
               EXCEPT ![4] = Plus(s[3], T1)]
    [] alg = "md5" ->
         LET a == Plus(Sum3(s[0], StdMd5F(i, s[1], s[2], s[3]), k), w[md5_k(i)])
         IN [r \in 0 .. 3 |-> CASE r = 0 -> s[3]
                                [] r = 1 -> Plus(s[1], Rotl(a, md5_s(i)))
                                [] OTHER -> s[r - 1]]

StdWord(alg, w, i) ==
  IF alg \in Sha1 THEN sha1_word(w, i) ELSE sha2_extend(alg, w, i)
StdSchedule(alg, w, i) ==
  IF i < 16 \/ alg = "md5" THEN w
  ELSE [j \in 0 .. i |-> IF j = i THEN StdWord(alg, w, i) ELSE w[j]]
-----------------------------------------------------------------------------
HashInit ==
  /\ hash_alg = "none" /\ hash_pc = "start" /\ hash_i = 0
  /\ hash_state = <<>> /\ schedule = <<>> /\ hash_reg = <<>>
  /\ std_w = <<>> /\ std_reg = <<>>

\* LOADSCHEDULE, and the working variables.
hash_starts ==
  /\ hash_pc = "start"
  /\ hash_alg' \in Algorithms
  /\ \E input \in HashInputs :
       /\ hash_state' = [r \in 0 .. Registers(hash_alg') - 1 |-> input[1][r + 1]]
       /\ schedule' = [j \in 0 .. 15 |-> input[2][j + 1]]
  /\ hash_reg' = hash_state' /\ std_reg' = hash_state'
  /\ std_w' = schedule'
  /\ IF hash_alg' \in {"sha1-fast", "md5"} THEN hash_pc' = "rounds" /\ hash_i' = 0
     ELSE hash_pc' = "schedule" /\ hash_i' = 16

\* SCHEDULE(16) .. of the three functions that make all of it first.
hash_extends ==
  /\ hash_pc = "schedule"
  /\ LET word == IF hash_alg = "sha1-naive" THEN sha1_word(schedule, hash_i)
                 ELSE sha2_extend(hash_alg, schedule, hash_i)
     IN schedule' = [j \in 0 .. hash_i |-> IF j = hash_i THEN word ELSE schedule[j]]
  /\ IF hash_i + 1 = Rounds(hash_alg) THEN hash_pc' = "rounds" /\ hash_i' = 0
     ELSE hash_i' = hash_i + 1 /\ UNCHANGED hash_pc
  /\ UNCHANGED <<hash_alg, hash_state, hash_reg, std_w, std_reg>>

\* Round hash_i of function alg leaves reg and sched; beside it, the same round
\* of the standard.
hash_round(alg, reg, sched) ==
  /\ hash_pc = "rounds" /\ hash_alg = alg /\ hash_i < Rounds(alg)
  /\ hash_reg' = reg /\ schedule' = sched
  /\ std_w' = StdSchedule(alg, std_w, hash_i)
  /\ std_reg' = StdRound(alg, std_reg, hash_i, HashK(alg, hash_i), std_w')
  /\ hash_i' = hash_i + 1
  /\ UNCHANGED <<hash_alg, hash_pc, hash_state>>

hash_k == HashK(hash_alg, hash_i)

sha1_naive_compress ==
  hash_round("sha1-naive", sha1_round(hash_reg, hash_i, hash_k, schedule[hash_i]),
             schedule)
sha1_fast_compress ==
  LET s == sha1_fast_schedule(schedule, hash_i) IN
    hash_round("sha1-fast",
               sha1_round(hash_reg, hash_i, hash_k, s[mask_0xF(hash_i)]), s)
sha256_compress ==
  hash_round("sha256", sha2_round("sha256", hash_reg, hash_i, hash_k, schedule[hash_i]),
             schedule)
sha512_compress ==
  hash_round("sha512", sha2_round("sha512", hash_reg, hash_i, hash_k, schedule[hash_i]),
             schedule)
md5_compress ==
  hash_round("md5", md5_round(hash_reg, hash_i, hash_k, schedule[md5_k(hash_i)]),
             schedule)

\* The working variables are added to the state.
hash_adds ==
  /\ hash_pc = "rounds" /\ hash_i = Rounds(hash_alg)
  /\ hash_state' = [r \in DOMAIN hash_state |-> Plus(hash_state[r], hash_reg[r])]
  /\ std_reg' = [r \in DOMAIN hash_state |-> Plus(hash_state[r], std_reg[r])]
  /\ hash_pc' = "done"
  /\ UNCHANGED <<hash_alg, hash_i, schedule, hash_reg, std_w>>

HashNext == \/ hash_starts \/ hash_extends \/ hash_adds
            \/ sha1_naive_compress \/ sha1_fast_compress
            \/ sha256_compress \/ sha512_compress \/ md5_compress
HashSpec == HashInit /\ [][HashNext]_hash_vars
-----------------------------------------------------------------------------
\* Before every round the register that plays a role holds what the standard's
\* variable of that name holds, the schedule words still needed are the
\* standard's, and the new state is the standard's: the rotated order of the
\* arguments in up to 80 lines, the rewritten Boolean functions and the ring of
\* 16 schedule words change nothing.
HashIsStandard ==
  /\ hash_pc = "rounds" =>
       /\ \A r \in DOMAIN std_reg : hash_reg[role(hash_alg, hash_i, r)] = std_reg[r]
       /\ hash_alg = "sha1-fast" =>
            \A j \in DOMAIN std_w : j >= hash_i - 16 => schedule[mask_0xF(j)] = std_w[j]
  /\ hash_pc = "done" => hash_state = std_reg
=============================================================================
