----------------------------- MODULE ToolProofs -----------------------------
(***************************************************************************)
(* What holds of the tools that run alone.                                 *)
(*                                                                         *)
(* The hash functions, for every width of a word, every sum of words,      *)
(* every table of constants and every length of a message: the compression *)
(* functions compute what the standards state (HashRounds), and the        *)
(* messages are padded as they say (HashPad).                              *)
(*                                                                         *)
(* wavecuepoint, for every wave file and every markers file, every limit   *)
(* of the program and every size of the blocks it copies: the cue points   *)
(* are the numbers of the lines, and a finished output is a whole wave     *)
(* file (WaveCue).                                                         *)
(***************************************************************************)
EXTENDS HashRounds, HashPad, WaveCue, SequenceTheorems, WellFoundedInduction, TLAPS

-----------------------------------------------------------------------------
(* The hash functions: words.                                               *)

(* Every combination of words is a word.                                    *)
LEMMA BitwiseWords ==
  ASSUME NEW x, NEW y
  PROVE  /\ Xor(x, y) \in HashWord /\ And(x, y) \in HashWord
         /\ Or(x, y) \in HashWord /\ Not(x) \in HashWord
BY DEF Xor, And, Or, Not, HashWord

LEMMA ShiftedWords ==
  ASSUME NEW x \in HashWord, NEW n \in Nat
  PROVE  Rotl(x, n) \in HashWord /\ Rotr(x, n) \in HashWord /\ Shr(x, n) \in HashWord
<1>1. \A k \in Int : (k % Bits) + 1 \in 1 .. Bits BY BitsAssumption
<1>2. \A k \in 1 .. Bits : /\ x[((k - 1 + n) % Bits) + 1] \in BOOLEAN
                           /\ x[((k - 1 - n) % Bits) + 1] \in BOOLEAN
  <2> SUFFICES ASSUME NEW k \in 1 .. Bits
               PROVE  /\ x[((k - 1 + n) % Bits) + 1] \in BOOLEAN
                      /\ x[((k - 1 - n) % Bits) + 1] \in BOOLEAN
    OBVIOUS
  <2>1. k - 1 + n \in Int /\ k - 1 - n \in Int BY BitsAssumption
  <2>2. /\ ((k - 1 + n) % Bits) + 1 \in 1 .. Bits
        /\ ((k - 1 - n) % Bits) + 1 \in 1 .. Bits
    BY <1>1, <2>1, Zenon
  <2> QED BY <2>2, Zenon DEF HashWord
<1>3. \A k \in 1 .. Bits : k > n => x[k - n] \in BOOLEAN
  BY BitsAssumption DEF HashWord
<1> QED BY <1>2, <1>3 DEF Rotl, Rotr, Shr, HashWord

LEMMA SumWords ==
  ASSUME NEW v \in HashWord, NEW w \in HashWord, NEW x \in HashWord,
         NEW y \in HashWord, NEW z \in HashWord
  PROVE  /\ Plus(v, w) \in HashWord
         /\ Sum3(v, w, x) \in HashWord
         /\ Sum5(v, w, x, y, z) \in HashWord
<1>1. \A a, b \in HashWord : Plus(a, b) \in HashWord BY HashWordsAssumption
<1> QED BY <1>1, Zenon DEF Sum3, Sum5

(* The code writes the choice and the majority of bits in other ways than   *)
(* the standards do.                                                        *)
LEMMA ChoiceOfSha1 ==
  ASSUME NEW x, NEW y, NEW z
  PROVE  Or(And(x, y), And(Not(x), z)) = Ch(x, y, z)
BY DEF Or, And, Not, Xor, Ch

LEMMA ChoiceOfSha2 ==
  ASSUME NEW x \in HashWord, NEW y \in HashWord, NEW z \in HashWord
  PROVE  Xor(z, And(x, Xor(y, z))) = Ch(x, y, z)
BY DEF And, Not, Xor, Ch, HashWord

LEMMA MajorityOfSha2 ==
  ASSUME NEW x \in HashWord, NEW y \in HashWord, NEW z \in HashWord
  PROVE  Or(And(x, Or(y, z)), And(y, z)) = Maj(x, y, z)
BY DEF And, Or, Xor, Xor3, Maj, HashWord

LEMMA FunctionsOfMd5 ==
  ASSUME NEW x \in HashWord, NEW y \in HashWord, NEW z \in HashWord, NEW i \in Nat
  PROVE  md5_f(i, x, y, z) = StdMd5F(i, x, y, z)
<1>1. Xor(z, And(x, Xor(y, z))) = Or(And(x, y), And(Not(x), z))
  BY DEF And, Or, Not, Xor, HashWord
<1>2. Xor(y, And(z, Xor(x, y))) = Or(And(x, z), And(y, Not(z)))
  BY DEF And, Or, Not, Xor, HashWord
<1> QED BY <1>1, <1>2 DEF md5_f, StdMd5F

LEMMA FunctionsOfSha1 ==
  ASSUME NEW x, NEW y, NEW z, NEW i \in Nat
  PROVE  sha1_f(i, x, y, z) = StdSha1F(i, x, y, z)
<1>1. Or(And(x, y), And(Not(x), z)) = Ch(x, y, z) BY ChoiceOfSha1
<1> QED BY <1>1 DEF sha1_f, StdSha1F, Maj

(* The mixing functions of SHA-2 make words.                                *)
LEMMA MixedWords ==
  ASSUME NEW alg, NEW x \in HashWord
  PROVE  LET rot == sha2_rot(alg)
         IN  /\ sha2_mix(x, rot.e) \in HashWord /\ sha2_mix(x, rot.a) \in HashWord
             /\ sha2_part(x, rot.w15) \in HashWord
             /\ sha2_part(x, rot.w2) \in HashWord
BY BitwiseWords DEF sha2_mix, sha2_part, Xor3

LEMMA ScheduleWords ==
  ASSUME NEW alg, NEW a \in HashWord, NEW b \in HashWord, NEW c \in HashWord,
         NEW d \in HashWord
  PROVE  /\ sha1_extend(a, b, c, d) \in HashWord
         /\ Plus(Sum3(a, b, sha2_part(c, sha2_rot(alg).w15)),
                 sha2_part(d, sha2_rot(alg).w2)) \in HashWord
<1>1. sha1_extend(a, b, c, d) \in HashWord
  BY BitwiseWords, ShiftedWords DEF sha1_extend
<1>2. /\ sha2_part(c, sha2_rot(alg).w15) \in HashWord
      /\ sha2_part(d, sha2_rot(alg).w2) \in HashWord
  BY MixedWords
<1>3. Sum3(a, b, sha2_part(c, sha2_rot(alg).w15)) \in HashWord
  BY <1>2, SumWords
<1> QED BY <1>1, <1>2, <1>3, SumWords
-----------------------------------------------------------------------------
(* The hash functions: a round in rotated registers.                        *)

\* In round i the n registers hold the standard's variables s by their roles.
SameRegisters(n, i, reg, s) == \A r \in 0 .. n - 1 : reg[(r - i) % n] = s[r]

HashRegs(n) == [0 .. n - 1 -> HashWord]

\* The roles of n registers are 0 .. m.
RolesUpTo(n, m) == <<n, m>> \in {<<4, 3>>, <<5, 4>>, <<8, 7>>}

\* In round i register p[r] plays role r, and after it role r + 1.
Turning(n, m, i, p) ==
  /\ \A q, r \in 0 .. m : p[q] = p[r] => q = r
  /\ \A r \in 0 .. m : (r - i) % n = p[r]
  /\ (0 - (i + 1)) % n = p[m]
  /\ \A r \in 1 .. m : (r - (i + 1)) % n = p[r - 1]

(* The roles move along by one a round, and no two share a register.        *)
LEMMA RolesTurn ==
  ASSUME NEW n, NEW m, RolesUpTo(n, m), NEW i \in Nat
  PROVE  \E p \in [0 .. m -> 0 .. m] : Turning(n, m, i, p)
<1>0. n \in {4, 5, 8} /\ m = n - 1 BY DEF RolesUpTo
<1> DEFINE p == [r \in 0 .. m |-> (r - i) % n]
<1>1. \A r \in 0 .. m : (r - i) % n \in 0 .. m
  <2>1. CASE n = 4 BY <1>0, <2>1
  <2>2. CASE n = 5 BY <1>0, <2>2
  <2>3. CASE n = 8 BY <1>0, <2>3
  <2> QED BY <1>0, <2>1, <2>2, <2>3
<1>2. p \in [0 .. m -> 0 .. m] BY <1>1
<1>3. \A r \in 0 .. m : p[r] = (r - i) % n OBVIOUS
<1>4. \A q, r \in 0 .. m : (q - i) % n = (r - i) % n => q = r
  <2>1. CASE n = 4 BY <1>0, <2>1
  <2>2. CASE n = 5 BY <1>0, <2>2
  <2>3. CASE n = 8 BY <1>0, <2>3
  <2> QED BY <1>0, <2>1, <2>2, <2>3
<1>5. (0 - (i + 1)) % n = (m - i) % n
  <2>1. CASE n = 4 BY <1>0, <2>1
  <2>2. CASE n = 5 BY <1>0, <2>2
  <2>3. CASE n = 8 BY <1>0, <2>3
  <2> QED BY <1>0, <2>1, <2>2, <2>3
<1>6. \A r \in 1 .. m : r - 1 \in 0 .. m /\ r - (i + 1) = r - 1 - i BY <1>0
<1>7. m \in 0 .. m BY <1>0
<1> HIDE DEF p
<1>8. \A r \in 1 .. m : (r - (i + 1)) % n = p[r - 1]
  BY <1>3, <1>6, Zenon
<1>9. \A q, r \in 0 .. m : p[q] = p[r] => q = r
  BY <1>3, <1>4, Zenon
<1>10. (0 - (i + 1)) % n = p[m]
  BY <1>3, <1>5, <1>7, Zenon
<1> QED BY <1>2, <1>3, <1>8, <1>9, <1>10, Zenon DEF Turning

(* A round of SHA-1.                                                        *)
LEMMA Sha1Round ==
  ASSUME NEW alg \in Sha1, NEW i \in Nat, NEW k \in HashWord, NEW w \in HashWord,
         NEW reg \in HashRegs(5), NEW s \in HashRegs(5), SameRegisters(5, i, reg, s),
         NEW sched, sched[i] = w
  PROVE  LET reg2 == sha1_round(reg, i, k, w)
             s2 == StdRound(alg, s, i, k, sched)
         IN  /\ reg2 \in HashRegs(5) /\ s2 \in HashRegs(5)
             /\ SameRegisters(5, i + 1, reg2, s2)
<1>0. PICK p \in [0 .. 4 -> 0 .. 4] : Turning(5, 4, i, p)
  <2>1. RolesUpTo(5, 4) /\ i \in Nat BY DEF RolesUpTo
  <2> QED BY <2>1, RolesTurn, Zenon
<1>1. /\ \A q, r \in 0 .. 4 : p[q] = p[r] => q = r
      /\ \A r \in 0 .. 4 : (r - i) % 5 = p[r]
      /\ (0 - (i + 1)) % 5 = p[4]
      /\ \A r \in 1 .. 4 : (r - (i + 1)) % 5 = p[r - 1]
  BY <1>0, Zenon DEF Turning
<1> DEFINE A == Sum5(s[4], Rotl(s[0], 5), sha1_f(i, s[1], s[2], s[3]), k, w)
           B == Rotl(s[1], 30)
           reg2 == sha1_round(reg, i, k, w)
           s2 == StdRound(alg, s, i, k, sched)
<1>2. /\ reg[p[0]] = s[0] /\ reg[p[1]] = s[1] /\ reg[p[2]] = s[2]
      /\ reg[p[3]] = s[3] /\ reg[p[4]] = s[4]
  BY <1>1 DEF SameRegisters
<1>3. reg2 = [reg EXCEPT ![p[4]] = A, ![p[1]] = B]
  <2>1. /\ (0 - i) % 5 = p[0] /\ (1 - i) % 5 = p[1] /\ (2 - i) % 5 = p[2]
        /\ (3 - i) % 5 = p[3] /\ (4 - i) % 5 = p[4]
    BY <1>1
  <2> QED BY <1>2, <2>1, Zenon DEF sha1_round
<1>4. s2 = [Moved(s, A, 5) EXCEPT ![2] = B]
  <2>1. sha1_f(i, s[1], s[2], s[3]) = StdSha1F(i, s[1], s[2], s[3])
    BY FunctionsOfSha1
  <2>2. alg \in Sha1 /\ alg \notin {"sha256", "sha512"} /\ alg # "md5"
    BY DEF Sha1
  <2> QED BY <2>1, <2>2, Zenon DEF StdRound
<1>5. A \in HashWord /\ B \in HashWord
  <2>1. s[0] \in HashWord /\ s[1] \in HashWord /\ s[4] \in HashWord
    BY DEF HashRegs
  <2>2. Rotl(s[0], 5) \in HashWord /\ Rotl(s[1], 30) \in HashWord
    BY <2>1, ShiftedWords
  <2>3. sha1_f(i, s[1], s[2], s[3]) \in HashWord
    BY BitwiseWords DEF sha1_f, Xor3
  <2> QED BY <2>1, <2>2, <2>3, SumWords
<1> HIDE DEF A, B, reg2, s2
<1>6. /\ s2 \in HashRegs(5)
      /\ s2[0] = A /\ s2[1] = s[0] /\ s2[2] = B /\ s2[3] = s[2] /\ s2[4] = s[3]
  BY <1>4, <1>5 DEF Moved, HashRegs
<1>7. /\ reg2 \in HashRegs(5)
      /\ reg2[p[4]] = A /\ reg2[p[0]] = s[0] /\ reg2[p[1]] = B
      /\ reg2[p[2]] = s[2] /\ reg2[p[3]] = s[3]
  BY <1>1, <1>2, <1>3, <1>5 DEF HashRegs
<1>8. SameRegisters(5, i + 1, reg2, s2)
  <2>1. /\ (0 - (i + 1)) % 5 = p[4] /\ (1 - (i + 1)) % 5 = p[0]
        /\ (2 - (i + 1)) % 5 = p[1] /\ (3 - (i + 1)) % 5 = p[2]
        /\ (4 - (i + 1)) % 5 = p[3]
    BY <1>1
  <2> SUFFICES ASSUME NEW r \in 0 .. 4 PROVE reg2[(r - (i + 1)) % 5] = s2[r]
    BY DEF SameRegisters
  <2>2. r = 0 \/ r = 1 \/ r = 2 \/ r = 3 \/ r = 4 OBVIOUS
  <2> QED BY <1>6, <1>7, <2>1, <2>2, Zenon
<1> QED BY <1>6, <1>7, <1>8 DEF reg2, s2

(* A round of SHA-256 or SHA-512.                                           *)
LEMMA Sha2Round ==
  ASSUME NEW alg \in {"sha256", "sha512"}, NEW i \in Nat,
         NEW k \in HashWord, NEW w \in HashWord,
         NEW reg \in HashRegs(8), NEW s \in HashRegs(8), SameRegisters(8, i, reg, s),
         NEW sched, sched[i] = w
  PROVE  LET reg2 == sha2_round(alg, reg, i, k, w)
             s2 == StdRound(alg, s, i, k, sched)
         IN  /\ reg2 \in HashRegs(8) /\ s2 \in HashRegs(8)
             /\ SameRegisters(8, i + 1, reg2, s2)
<1>0. PICK p \in [0 .. 7 -> 0 .. 7] : Turning(8, 7, i, p)
  <2>1. RolesUpTo(8, 7) /\ i \in Nat BY DEF RolesUpTo
  <2> QED BY <2>1, RolesTurn, Zenon
<1>1. /\ \A q, r \in 0 .. 7 : p[q] = p[r] => q = r
      /\ \A r \in 0 .. 7 : (r - i) % 8 = p[r]
      /\ (0 - (i + 1)) % 8 = p[7]
      /\ \A r \in 1 .. 7 : (r - (i + 1)) % 8 = p[r - 1]
  BY <1>0, Zenon DEF Turning
<1> DEFINE rot == sha2_rot(alg)
           T1 == Sum5(s[7], sha2_mix(s[4], rot.e), Ch(s[4], s[5], s[6]), k, w)
           A == Sum3(T1, sha2_mix(s[0], rot.a), Maj(s[0], s[1], s[2]))
           E == Plus(s[3], T1)
           reg2 == sha2_round(alg, reg, i, k, w)
           s2 == StdRound(alg, s, i, k, sched)
<1>2. /\ reg[p[0]] = s[0] /\ reg[p[1]] = s[1] /\ reg[p[2]] = s[2]
      /\ reg[p[3]] = s[3] /\ reg[p[4]] = s[4] /\ reg[p[5]] = s[5]
      /\ reg[p[6]] = s[6] /\ reg[p[7]] = s[7]
  BY <1>1 DEF SameRegisters
<1>3. /\ s[0] \in HashWord /\ s[1] \in HashWord /\ s[2] \in HashWord
      /\ s[3] \in HashWord /\ s[4] \in HashWord /\ s[5] \in HashWord
      /\ s[6] \in HashWord /\ s[7] \in HashWord
  BY DEF HashRegs
<1>4. /\ Xor(s[6], And(s[4], Xor(s[5], s[6]))) = Ch(s[4], s[5], s[6])
      /\ Or(And(s[0], Or(s[1], s[2])), And(s[1], s[2])) = Maj(s[0], s[1], s[2])
  BY <1>3, ChoiceOfSha2, MajorityOfSha2
<1>5. reg2 = [reg EXCEPT ![p[3]] = E, ![p[7]] = A]
  <2>1. /\ (0 - i) % 8 = p[0] /\ (1 - i) % 8 = p[1] /\ (2 - i) % 8 = p[2]
        /\ (3 - i) % 8 = p[3] /\ (4 - i) % 8 = p[4] /\ (5 - i) % 8 = p[5]
        /\ (6 - i) % 8 = p[6] /\ (7 - i) % 8 = p[7]
    BY <1>1
  <2> QED BY <1>2, <1>4, <2>1, Zenon DEF sha2_round
<1>6. s2 = [Moved(s, A, 8) EXCEPT ![4] = E]
  <2>1. alg \notin Sha1 BY DEF Sha1
  <2> QED BY <2>1, SMTT(30) DEF StdRound
<1>7. T1 \in HashWord /\ A \in HashWord /\ E \in HashWord
  <2>1. sha2_mix(s[4], rot.e) \in HashWord /\ sha2_mix(s[0], rot.a) \in HashWord
    BY <1>3, MixedWords
  <2>2. Ch(s[4], s[5], s[6]) \in HashWord /\ Maj(s[0], s[1], s[2]) \in HashWord
    BY BitwiseWords DEF Ch, Maj, Xor3
  <2>3. T1 \in HashWord
    BY <1>3, <2>1, <2>2, SumWords
  <2> QED BY <1>3, <2>1, <2>2, <2>3, SumWords
<1> HIDE DEF A, E, reg2, s2
<1>8. /\ s2 \in HashRegs(8)
      /\ s2[0] = A /\ s2[1] = s[0] /\ s2[2] = s[1] /\ s2[3] = s[2]
      /\ s2[4] = E /\ s2[5] = s[4] /\ s2[6] = s[5] /\ s2[7] = s[6]
  BY <1>6, <1>7 DEF Moved, HashRegs
<1>9. /\ reg2 \in HashRegs(8)
      /\ reg2[p[7]] = A /\ reg2[p[0]] = s[0] /\ reg2[p[1]] = s[1]
      /\ reg2[p[2]] = s[2] /\ reg2[p[3]] = E /\ reg2[p[4]] = s[4]
      /\ reg2[p[5]] = s[5] /\ reg2[p[6]] = s[6]
  BY <1>1, <1>2, <1>5, <1>7 DEF HashRegs
<1>10. SameRegisters(8, i + 1, reg2, s2)
  <2>1. /\ (0 - (i + 1)) % 8 = p[7] /\ (1 - (i + 1)) % 8 = p[0]
        /\ (2 - (i + 1)) % 8 = p[1] /\ (3 - (i + 1)) % 8 = p[2]
        /\ (4 - (i + 1)) % 8 = p[3] /\ (5 - (i + 1)) % 8 = p[4]
        /\ (6 - (i + 1)) % 8 = p[5] /\ (7 - (i + 1)) % 8 = p[6]
    BY <1>1
  <2> SUFFICES ASSUME NEW r \in 0 .. 7 PROVE reg2[(r - (i + 1)) % 8] = s2[r]
    BY DEF SameRegisters
  <2>2. r = 0 \/ r = 1 \/ r = 2 \/ r = 3 \/ r = 4 \/ r = 5 \/ r = 6 \/ r = 7
    OBVIOUS
  <2> QED BY <1>8, <1>9, <2>1, <2>2, ZenonT(30)
<1> QED BY <1>8, <1>9, <1>10 DEF reg2, s2

(* A round of MD5.                                                          *)
LEMMA Md5Round ==
  ASSUME NEW i \in 0 .. 63, NEW k \in HashWord, NEW w \in HashWord,
         NEW reg \in HashRegs(4), NEW s \in HashRegs(4), SameRegisters(4, i, reg, s),
         NEW sched, sched[md5_k(i)] = w
  PROVE  LET reg2 == md5_round(reg, i, k, w)
             s2 == StdRound("md5", s, i, k, sched)
         IN  /\ reg2 \in HashRegs(4) /\ s2 \in HashRegs(4)
             /\ SameRegisters(4, i + 1, reg2, s2)
<1>0. PICK p \in [0 .. 3 -> 0 .. 3] : Turning(4, 3, i, p)
  <2>1. RolesUpTo(4, 3) /\ i \in Nat BY DEF RolesUpTo
  <2> QED BY <2>1, RolesTurn, Zenon
<1>1. /\ \A q, r \in 0 .. 3 : p[q] = p[r] => q = r
      /\ \A r \in 0 .. 3 : (r - i) % 4 = p[r]
      /\ (0 - (i + 1)) % 4 = p[3]
      /\ \A r \in 1 .. 3 : (r - (i + 1)) % 4 = p[r - 1]
  BY <1>0, Zenon DEF Turning
<1> DEFINE a == Plus(Sum3(s[0], md5_f(i, s[1], s[2], s[3]), k), w)
           B == Plus(s[1], Rotl(a, md5_s(i)))
           reg2 == md5_round(reg, i, k, w)
           s2 == StdRound("md5", s, i, k, sched)
<1>2. /\ reg[p[0]] = s[0] /\ reg[p[1]] = s[1] /\ reg[p[2]] = s[2]
      /\ reg[p[3]] = s[3]
  BY <1>1 DEF SameRegisters
<1>3. /\ s[0] \in HashWord /\ s[1] \in HashWord /\ s[2] \in HashWord
      /\ s[3] \in HashWord
  BY DEF HashRegs
<1>4. reg2 = [reg EXCEPT ![p[0]] = B]
  <2>1. /\ (0 - i) % 4 = p[0] /\ (1 - i) % 4 = p[1] /\ (2 - i) % 4 = p[2]
        /\ (3 - i) % 4 = p[3]
    BY <1>1
  <2> QED BY <1>2, <2>1, Zenon DEF md5_round
<1>5. s2 = [r \in 0 .. 3 |-> CASE r = 0 -> s[3]
                               [] r = 1 -> B
                               [] OTHER -> s[r - 1]]
  <2>1. "md5" \notin Sha1 /\ "md5" \notin {"sha256", "sha512"} BY DEF Sha1
  <2>2. md5_f(i, s[1], s[2], s[3]) = StdMd5F(i, s[1], s[2], s[3])
    BY <1>3, FunctionsOfMd5
  <2> QED BY <2>1, <2>2, SMTT(30) DEF StdRound
<1>6. B \in HashWord
  <2>1. md5_f(i, s[1], s[2], s[3]) \in HashWord
    BY BitwiseWords DEF md5_f, Xor3
  <2>2. a \in HashWord
    BY <1>3, <2>1, SumWords
  <2>3. md5_s(i) \in Nat
    BY DEF md5_s
  <2>4. Rotl(a, md5_s(i)) \in HashWord
    BY <2>2, <2>3, ShiftedWords
  <2> QED BY <1>3, <2>4, SumWords
<1> HIDE DEF B, reg2, s2
<1>7. /\ s2 \in HashRegs(4)
      /\ s2[0] = s[3] /\ s2[1] = B /\ s2[2] = s[1] /\ s2[3] = s[2]
  BY <1>3, <1>5, <1>6 DEF HashRegs
<1>8. /\ reg2 \in HashRegs(4)
      /\ reg2[p[0]] = B /\ reg2[p[1]] = s[1] /\ reg2[p[2]] = s[2]
      /\ reg2[p[3]] = s[3]
  BY <1>1, <1>2, <1>4, <1>6 DEF HashRegs
<1>9. SameRegisters(4, i + 1, reg2, s2)
  <2>1. /\ (0 - (i + 1)) % 4 = p[3] /\ (1 - (i + 1)) % 4 = p[0]
        /\ (2 - (i + 1)) % 4 = p[1] /\ (3 - (i + 1)) % 4 = p[2]
    BY <1>1
  <2> SUFFICES ASSUME NEW r \in 0 .. 3 PROVE reg2[(r - (i + 1)) % 4] = s2[r]
    BY DEF SameRegisters
  <2>2. r = 0 \/ r = 1 \/ r = 2 \/ r = 3 OBVIOUS
  <2> QED BY <1>7, <1>8, <2>1, <2>2, Zenon
<1> QED BY <1>7, <1>8, <1>9 DEF reg2, s2
-----------------------------------------------------------------------------
(* The hash functions: the schedule.                                        *)

\* The last word of the standard's schedule before round i.
LastWord(i) == IF i <= 16 THEN 15 ELSE i - 1

\* The first n words of the schedule of alg.
Made(alg, s, n) ==
  /\ s \in [0 .. n - 1 -> HashWord]
  /\ \A j \in 16 .. n - 1 : s[j] = StdWord(alg, s, j)

\* The standard's schedule v before round i is the beginning of s.
Begins(i, v, s) ==
  /\ v \in [0 .. LastWord(i) -> HashWord]
  /\ \A j \in 0 .. LastWord(i) : v[j] = s[j]

\* The ring s holds the last 16 words of the standard's schedule v.
InRing(i, s, v) ==
  /\ s \in [0 .. 15 -> HashWord]
  /\ v \in [0 .. LastWord(i) -> HashWord]
  /\ \A j \in 0 .. LastWord(i) : j >= i - 16 => s[j % 16] = v[j]

(* A word of the schedule depends on the 16 words before it only.           *)
LEMMA WordOfSixteen ==
  ASSUME NEW alg, NEW i \in Nat, i >= 16, NEW s, NEW v,
         \A j \in i - 16 .. i - 1 : s[j] = v[j] /\ s[j] \in HashWord
  PROVE  StdWord(alg, s, i) = StdWord(alg, v, i) /\ StdWord(alg, s, i) \in HashWord
<1>1. /\ s[i - 3] = v[i - 3] /\ s[i - 8] = v[i - 8] /\ s[i - 14] = v[i - 14]
      /\ s[i - 16] = v[i - 16] /\ s[i - 7] = v[i - 7] /\ s[i - 15] = v[i - 15]
      /\ s[i - 2] = v[i - 2]
  OBVIOUS
<1>2. /\ s[i - 3] \in HashWord /\ s[i - 8] \in HashWord /\ s[i - 14] \in HashWord
      /\ s[i - 16] \in HashWord /\ s[i - 7] \in HashWord /\ s[i - 15] \in HashWord
      /\ s[i - 2] \in HashWord
  OBVIOUS
<1>3. sha1_word(s, i) = sha1_word(v, i) /\ sha2_extend(alg, s, i) = sha2_extend(alg, v, i)
  BY <1>1, Zenon DEF sha1_word, sha2_extend
<1>4. sha1_word(s, i) \in HashWord /\ sha2_extend(alg, s, i) \in HashWord
  BY <1>2, ScheduleWords, ZenonT(30) DEF sha1_word, sha2_extend
<1> QED BY <1>3, <1>4 DEF StdWord

(* Making one word more.                                                    *)
LEMMA MadeOn ==
  ASSUME NEW alg, NEW i \in Nat, i >= 16, NEW s, Made(alg, s, i),
         NEW t, t = [j \in 0 .. i |-> IF j = i THEN StdWord(alg, s, i) ELSE s[j]]
  PROVE  Made(alg, t, i + 1) /\ \A j \in 0 .. i - 1 : t[j] = s[j]
<1>1. \A j \in 0 .. i - 1 : t[j] = s[j] /\ s[j] \in HashWord
  BY DEF Made
<1>2. t[i] = StdWord(alg, s, i)
  OBVIOUS
<1>3. t[i] \in HashWord
  <2>1. \A j \in i - 16 .. i - 1 : s[j] = s[j] /\ s[j] \in HashWord
    BY <1>1
  <2> QED BY <1>2, <2>1, WordOfSixteen
<1>4. t \in [0 .. i -> HashWord]
  <2>1. \A j \in 0 .. i : t[j] \in HashWord
    <3>1. \A j \in 0 .. i : j = i \/ j \in 0 .. i - 1 OBVIOUS
    <3> QED BY <1>1, <1>3, <3>1, Zenon
  <2>2. t = [j \in 0 .. i |-> t[j]] OBVIOUS
  <2> QED BY <2>1, <2>2, Zenon
<1>5. ASSUME NEW j \in 16 .. i PROVE t[j] = StdWord(alg, t, j)
  <2>1. \A k \in j - 16 .. j - 1 : k \in 0 .. i - 1
    OBVIOUS
  <2>2. \A k \in j - 16 .. j - 1 : s[k] = t[k] /\ s[k] \in HashWord
    BY <1>1, <2>1, Zenon
  <2>3. StdWord(alg, s, j) = StdWord(alg, t, j)
    <3>1. j \in Nat /\ j >= 16 OBVIOUS
    <3> QED BY <2>2, <3>1, WordOfSixteen
  <2>4. t[j] = StdWord(alg, s, j)
    <3>1. CASE j = i BY <1>2, <3>1
    <3>2. CASE j # i
      <4>1. j \in 16 .. i - 1 /\ j \in 0 .. i - 1 BY <3>2
      <4> QED BY <1>1, <4>1 DEF Made
    <3> QED BY <3>1, <3>2
  <2> QED BY <2>3, <2>4
<1>6. (i + 1) - 1 = i OBVIOUS
<1> QED BY <1>1, <1>4, <1>5, <1>6, Zenon DEF Made

(* The standard's schedule before the next round.                           *)
LEMMA StdScheduleGrows ==
  ASSUME NEW alg, alg # "md5", NEW i \in Nat,
         NEW v \in [0 .. LastWord(i) -> HashWord]
  PROVE  LET v2 == StdSchedule(alg, v, i)
         IN  /\ v2 \in [0 .. LastWord(i + 1) -> HashWord]
             /\ \A j \in 0 .. LastWord(i) : v2[j] = v[j]
             /\ i >= 16 => v2[i] = StdWord(alg, v, i)
<1> DEFINE v2 == StdSchedule(alg, v, i)
<1>1. CASE i < 16
  <2>1. v2 = v BY <1>1 DEF StdSchedule
  <2>2. LastWord(i + 1) = LastWord(i) BY <1>1 DEF LastWord
  <2>3. ~(i >= 16) BY <1>1
  <2> QED BY <2>1, <2>2, <2>3, Zenon
<1>2. CASE i >= 16
  <2> DEFINE word == StdWord(alg, v, i)
  <2>1. LastWord(i) = i - 1 /\ LastWord(i + 1) = i BY <1>2 DEF LastWord
  <2>2. v2 = [j \in 0 .. i |-> IF j = i THEN word ELSE v[j]]
    BY <1>2 DEF StdSchedule
  <2>3. word \in HashWord
    <3>1. \A j \in i - 16 .. i - 1 : v[j] = v[j] /\ v[j] \in HashWord
      BY <1>2, <2>1
    <3> QED BY <1>2, <3>1, WordOfSixteen
  <2> HIDE DEF v2, word
  <2>4. \A j \in 0 .. i - 1 : v2[j] = v[j] /\ v[j] \in HashWord
    BY <2>1, <2>2
  <2>5. v2 \in [0 .. i -> HashWord] /\ v2[i] = word
    BY <2>1, <2>2, <2>3
  <2> QED BY <2>1, <2>4, <2>5, Zenon DEF v2, word
<1> QED BY <1>1, <1>2

(* Words of a schedule made at the start are the standard's.                *)
LEMMA BeginsOn ==
  ASSUME NEW alg, alg # "md5", NEW n \in Nat, NEW i \in 0 .. n - 1, n >= 16,
         NEW s, Made(alg, s, n), NEW v, Begins(i, v, s)
  PROVE  LET v2 == StdSchedule(alg, v, i)
         IN  /\ Begins(i + 1, v2, s)
             /\ v2[i] = s[i] /\ s[i] \in HashWord
<1> DEFINE v2 == StdSchedule(alg, v, i)
<1>1. /\ v2 \in [0 .. LastWord(i + 1) -> HashWord]
      /\ \A j \in 0 .. LastWord(i) : v2[j] = v[j]
      /\ i >= 16 => v2[i] = StdWord(alg, v, i)
  <2>1. i \in Nat /\ v \in [0 .. LastWord(i) -> HashWord] BY DEF Begins
  <2> QED BY <2>1, StdScheduleGrows, Zenon
<1> HIDE DEF v2
<1>2. \A j \in 0 .. LastWord(i) : v2[j] = s[j]
  BY <1>1 DEF Begins
<1>3. v2[i] = s[i]
  <2>1. CASE i < 16
    <3>1. i \in 0 .. LastWord(i) BY <2>1 DEF LastWord
    <3> QED BY <1>2, <3>1
  <2>2. CASE i >= 16
    <3>1. LastWord(i) = i - 1 BY <2>2 DEF LastWord
    <3>2. \A j \in i - 16 .. i - 1 : v[j] = s[j] /\ v[j] \in HashWord
      BY <2>2, <3>1 DEF Begins
    <3>3. StdWord(alg, v, i) = StdWord(alg, s, i)
      BY <2>2, <3>2, WordOfSixteen
    <3> QED BY <1>1, <2>2, <3>3 DEF Made
  <2> QED BY <2>1, <2>2
<1>4. \A j \in 0 .. LastWord(i + 1) : j \in 0 .. LastWord(i) \/ j = i
  BY DEF LastWord
<1>5. \A j \in 0 .. LastWord(i + 1) : v2[j] = s[j]
  BY <1>2, <1>3, <1>4, Zenon
<1>6. s[i] \in HashWord
  BY DEF Made
<1> QED BY <1>1, <1>3, <1>5, <1>6, Zenon DEF Begins, v2

(* The ring of the fast SHA-1.                                              *)
LEMMA RingOn ==
  ASSUME NEW i \in Nat, NEW s, NEW v, InRing(i, s, v)
  PROVE  LET s2 == sha1_fast_schedule(s, i)
             v2 == StdSchedule("sha1-fast", v, i)
         IN  /\ InRing(i + 1, s2, v2)
             /\ s2[mask_0xF(i)] = v2[i] /\ v2[i] \in HashWord
<1> DEFINE s2 == sha1_fast_schedule(s, i)
           v2 == StdSchedule("sha1-fast", v, i)
<1>1. /\ v2 \in [0 .. LastWord(i + 1) -> HashWord]
      /\ \A j \in 0 .. LastWord(i) : v2[j] = v[j]
      /\ i >= 16 => v2[i] = StdWord("sha1-fast", v, i)
  BY StdScheduleGrows DEF InRing
<1>2. v2[i] \in HashWord
  <2>1. i \in 0 .. LastWord(i + 1) BY DEF LastWord
  <2> QED BY <1>1, <2>1
<1>3. CASE i < 16
  <2>1. s2 = s /\ LastWord(i) = 15 /\ LastWord(i + 1) = 15
    BY <1>3 DEF sha1_fast_schedule, LastWord
  <2>2. v2 = v
    BY <1>3 DEF StdSchedule
  <2> HIDE DEF s2, v2
  <2>3. i % 16 = i /\ i \in 0 .. 15 /\ i >= i - 16
    BY <1>3
  <2>4. s[i % 16] = v[i]
    BY <2>1, <2>3, Zenon DEF InRing
  <2>5. \A j \in Int : j >= (i + 1) - 16 => j >= i - 16
    OBVIOUS
  <2>6. InRing(i + 1, s, v)
    BY <2>1, <2>5 DEF InRing
  <2> QED BY <1>2, <2>1, <2>2, <2>4, <2>6, Zenon DEF mask_0xF, s2, v2
<1>4. CASE i >= 16
  <2> DEFINE word == sha1_extend(s[(i - 3) % 16], s[(i - 8) % 16],
                                 s[(i - 14) % 16], s[(i - 16) % 16])
  <2>1. s2 = [s EXCEPT ![i % 16] = word]
    <3>1. ~(i < 16) BY <1>4
    <3> QED BY <3>1, Zenon DEF sha1_fast_schedule, mask_0xF
  <2>2. LastWord(i) = i - 1 /\ LastWord(i + 1) = i
    BY <1>4 DEF LastWord
  <2>3. \A j \in i - 16 .. i - 1 : s[j % 16] = v[j]
    BY <1>4, <2>2 DEF InRing
  <2>4. word = v2[i]
    <3>1. /\ s[(i - 3) % 16] = v[i - 3] /\ s[(i - 8) % 16] = v[i - 8]
          /\ s[(i - 14) % 16] = v[i - 14] /\ s[(i - 16) % 16] = v[i - 16]
      <4>1. /\ i - 3 \in i - 16 .. i - 1 /\ i - 8 \in i - 16 .. i - 1
            /\ i - 14 \in i - 16 .. i - 1 /\ i - 16 \in i - 16 .. i - 1
        OBVIOUS
      <4> QED BY <2>3, <4>1, Zenon
    <3>2. word = sha1_word(v, i)
      BY <3>1, Zenon DEF sha1_word
    <3>3. StdWord("sha1-fast", v, i) = sha1_word(v, i)
      BY DEF StdWord, Sha1
    <3> QED BY <1>1, <1>4, <3>2, <3>3, Zenon
  <2> HIDE DEF s2, v2, word
  <2>5. i % 16 \in 0 .. 15 OBVIOUS
  <2>6. s2 \in [0 .. 15 -> HashWord] /\ s2[i % 16] = v2[i]
    BY <1>2, <2>1, <2>4, <2>5 DEF InRing
  <2>7. ASSUME NEW j \in 0 .. i, j >= (i + 1) - 16 PROVE s2[j % 16] = v2[j]
    <3>1. CASE j = i BY <2>6, <3>1
    <3>2. CASE j # i
      <4>1. j \in i - 16 .. i - 1 /\ j \in 0 .. i - 1 BY <2>7, <3>2
      <4>2. j % 16 # i % 16 /\ j % 16 \in 0 .. 15 BY <2>7, <3>2
      <4>3. s2[j % 16] = s[j % 16]
        BY <2>1, <4>2 DEF InRing
      <4> QED BY <1>1, <2>2, <2>3, <4>1, <4>3
    <3> QED BY <3>1, <3>2
  <2>8. InRing(i + 1, s2, v2)
    BY <1>1, <2>2, <2>6, <2>7, Zenon DEF InRing
  <2> QED BY <1>2, <2>6, <2>8, Zenon DEF mask_0xF, s2, v2
<1> QED BY <1>3, <1>4
-----------------------------------------------------------------------------
(* The hash functions: the inductive invariant.                             *)

\* The functions that make the whole schedule first.
Whole == {"sha1-naive", "sha256", "sha512"}

ScheduleReady ==
  \/ hash_alg \in Whole /\ Made(hash_alg, schedule, Rounds(hash_alg))
       /\ Begins(hash_i, std_w, schedule)
  \/ hash_alg = "sha1-fast" /\ InRing(hash_i, schedule, std_w)
  \/ hash_alg = "md5" /\ schedule \in [0 .. 15 -> HashWord] /\ std_w = schedule

Extending ==
  /\ hash_alg \in Whole
  /\ hash_i \in 16 .. Rounds(hash_alg) - 1
  /\ Made(hash_alg, schedule, hash_i)
  /\ Begins(0, std_w, schedule)
  /\ \E n \in {4, 5, 8} : n = Registers(hash_alg)
  /\ hash_state \in HashRegs(Registers(hash_alg))
  /\ hash_reg = hash_state /\ std_reg = hash_state

InRounds ==
  /\ hash_alg \in Algorithms
  /\ hash_i \in 0 .. Rounds(hash_alg)
  /\ hash_state \in HashRegs(Registers(hash_alg))
  /\ hash_reg \in HashRegs(Registers(hash_alg))
  /\ std_reg \in HashRegs(Registers(hash_alg))
  /\ SameRegisters(Registers(hash_alg), hash_i, hash_reg, std_reg)
  /\ ScheduleReady

HashInv ==
  /\ hash_pc \in {"start", "schedule", "rounds", "done"}
  /\ hash_pc = "schedule" => Extending
  /\ hash_pc = "rounds" => InRounds
  /\ hash_pc = "done" => hash_state = std_reg

(* How many rounds and registers each function has.                         *)
LEMMA HashSizes ==
  /\ \A alg \in Algorithms :
       /\ Rounds(alg) \in {64, 80} /\ Registers(alg) \in {4, 5, 8}
       /\ Rounds(alg) % Registers(alg) = 0
  /\ \A alg \in Sha1 : Registers(alg) = 5 /\ Rounds(alg) = 80
  /\ \A alg \in {"sha256", "sha512"} : Registers(alg) = 8
  /\ Registers("md5") = 4 /\ Rounds("md5") = 64
  /\ Whole \subseteq Algorithms
  /\ Sha1 = {"sha1-naive", "sha1-fast"}
BY DEF Algorithms, Sha1, Rounds, Registers, Whole

(* The constants of the rounds are words.                                   *)
LEMMA ConstantWords ==
  ASSUME NEW alg \in Algorithms, NEW i \in 0 .. Rounds(alg) - 1
  PROVE  HashK(alg, i) \in HashWord
<1>1. i \in 0 .. 79 BY HashSizes
<1> QED BY <1>1, HashWordsAssumption, Zenon

LEMMA HashStarts == ASSUME hash_starts PROVE HashInv'
<1> DEFINE alg == hash_alg'  n == Registers(hash_alg')
<1>1. alg \in Algorithms /\ n \in {4, 5, 8}
  BY HashSizes DEF hash_starts
<1>2. PICK input \in HashInputs :
        /\ hash_state' = [r \in 0 .. n - 1 |-> input[1][r + 1]]
        /\ schedule' = [j \in 0 .. 15 |-> input[2][j + 1]]
  BY DEF hash_starts
<1>3. /\ \A r \in 1 .. 8 : input[1][r] \in HashWord
      /\ \A j \in 1 .. 16 : input[2][j] \in HashWord
  BY HashWordsAssumption
<1>4. schedule' \in [0 .. 15 -> HashWord]
  BY <1>2, <1>3
<1>5. hash_state' \in HashRegs(n)
  <2>1. \A r \in 0 .. n - 1 : r + 1 \in 1 .. 8 BY <1>1
  <2>2. \A r \in 0 .. n - 1 : input[1][r + 1] \in HashWord BY <1>3, <2>1, Zenon
  <2> QED BY <1>2, <2>2 DEF HashRegs
<1>6. /\ hash_reg' = hash_state' /\ std_reg' = hash_state' /\ std_w' = schedule'
  BY DEF hash_starts
<1>7. LastWord(0) = 15 BY DEF LastWord
<1>8. CASE hash_alg' \in {"sha1-fast", "md5"}
  <2>1. hash_pc' = "rounds" /\ hash_i' = 0 BY <1>8 DEF hash_starts
  <2>2. SameRegisters(n, 0, hash_state', hash_state')
    <3>1. \A r \in 0 .. n - 1 : (r - 0) % n = r
      <4>1. CASE n = 4 BY <4>1
      <4>2. CASE n = 5 BY <4>2
      <4>3. CASE n = 8 BY <4>3
      <4> QED BY <1>1, <4>1, <4>2, <4>3
    <3> QED BY <3>1 DEF SameRegisters
  <2>3. 0 \in 0 .. Rounds(alg)
    BY <1>1, HashSizes
  <2>4. InRing(0, schedule', schedule')
    <3>1. \A j \in 0 .. 15 : j % 16 = j OBVIOUS
    <3> QED BY <1>4, <1>7, <3>1, Zenon DEF InRing
  <2>5. ScheduleReady'
    BY <1>4, <1>6, <1>8, <2>1, <2>4 DEF ScheduleReady
  <2>6. InRounds'
    BY <1>1, <1>5, <1>6, <2>1, <2>2, <2>3, <2>5 DEF InRounds
  <2> QED BY <2>1, <2>6 DEF HashInv
<1>9. CASE hash_alg' \notin {"sha1-fast", "md5"}
  <2>1. hash_pc' = "schedule" /\ hash_i' = 16 BY <1>9 DEF hash_starts
  <2>2. alg \in Whole BY <1>1, <1>9 DEF Algorithms, Whole
  <2>3. 16 \in 16 .. Rounds(alg) - 1 BY <1>1, HashSizes
  <2>4. Made(alg, schedule', 16)
    BY <1>4 DEF Made
  <2>5. Begins(0, schedule', schedule')
    BY <1>4, <1>7 DEF Begins
  <2>6. Extending'
    BY <1>1, <1>5, <1>6, <2>1, <2>2, <2>3, <2>4, <2>5 DEF Extending
  <2> QED BY <2>1, <2>6 DEF HashInv
<1> QED BY <1>8, <1>9

LEMMA HashExtends == ASSUME HashInv, hash_extends PROVE HashInv'
<1>1. Extending BY DEF HashInv, hash_extends
<1>2. hash_alg \in Whole /\ hash_alg # "md5" /\ hash_alg \in Algorithms
  BY <1>1, HashSizes DEF Extending, Whole
<1>3. hash_i \in Nat /\ hash_i >= 16 /\ hash_i \in 16 .. Rounds(hash_alg) - 1
  BY <1>1, <1>2, HashSizes DEF Extending
<1>4. schedule' = [j \in 0 .. hash_i |-> IF j = hash_i
                     THEN StdWord(hash_alg, schedule, hash_i) ELSE schedule[j]]
  <2>1. StdWord(hash_alg, schedule, hash_i)
          = IF hash_alg = "sha1-naive" THEN sha1_word(schedule, hash_i)
            ELSE sha2_extend(hash_alg, schedule, hash_i)
    BY <1>2 DEF StdWord, Sha1, Whole
  <2> QED BY <2>1, Zenon DEF hash_extends
<1>5. /\ Made(hash_alg, schedule', hash_i + 1)
      /\ \A j \in 0 .. hash_i - 1 : schedule'[j] = schedule[j]
  <2>1. Made(hash_alg, schedule, hash_i) BY <1>1, Zenon DEF Extending
  <2>2. \A t : t = [j \in 0 .. hash_i |-> IF j = hash_i
                  THEN StdWord(hash_alg, schedule, hash_i) ELSE schedule[j]]
          => /\ Made(hash_alg, t, hash_i + 1)
             /\ \A j \in 0 .. hash_i - 1 : t[j] = schedule[j]
    BY <1>3, <2>1, MadeOn
  <2> QED BY <1>4, <2>2, Zenon
<1>6. Begins(0, std_w, schedule')
  <2>1. LastWord(0) = 15 BY DEF LastWord
  <2>2. \A j \in 0 .. 15 : j \in 0 .. hash_i - 1 BY <1>3
  <2>3. /\ std_w \in [0 .. 15 -> HashWord]
        /\ \A j \in 0 .. 15 : std_w[j] = schedule[j]
    BY <1>1, <2>1 DEF Extending, Begins
  <2> QED BY <1>5, <2>1, <2>2, <2>3, Zenon DEF Begins
<1>7. /\ hash_alg' = hash_alg /\ hash_state' = hash_state
      /\ hash_reg' = hash_reg /\ std_w' = std_w /\ std_reg' = std_reg
  BY DEF hash_extends
<1>8. CASE hash_i + 1 = Rounds(hash_alg)
  <2>1. hash_pc' = "rounds" /\ hash_i' = 0 BY <1>8 DEF hash_extends
  <2>2. SameRegisters(Registers(hash_alg), 0, hash_reg, std_reg)
    <3> DEFINE n == Registers(hash_alg)
    <3>1. n \in {4, 5, 8} BY <1>2, HashSizes
    <3>2. \A r \in 0 .. n - 1 : (r - 0) % n = r
      <4>1. CASE n = 4 BY <4>1
      <4>2. CASE n = 5 BY <4>2
      <4>3. CASE n = 8 BY <4>3
      <4> QED BY <3>1, <4>1, <4>2, <4>3
    <3>3. hash_reg = std_reg BY <1>1 DEF Extending
    <3> QED BY <3>2, <3>3 DEF SameRegisters
  <2>3. 0 \in 0 .. Rounds(hash_alg) BY <1>2, HashSizes
  <2>4. ScheduleReady'
    BY <1>2, <1>5, <1>6, <1>7, <1>8, <2>1 DEF ScheduleReady
  <2>5. InRounds'
    BY <1>1, <1>2, <1>7, <2>1, <2>2, <2>3, <2>4 DEF InRounds, Extending
  <2> QED BY <2>1, <2>5 DEF HashInv
<1>9. CASE hash_i + 1 # Rounds(hash_alg)
  <2>1. hash_pc' = "schedule" /\ hash_i' = hash_i + 1
    BY <1>9 DEF hash_extends
  <2>2. hash_i + 1 \in 16 .. Rounds(hash_alg) - 1
    BY <1>2, <1>3, <1>9, HashSizes
  <2>3. Extending'
    BY <1>1, <1>5, <1>6, <1>7, <2>1, <2>2 DEF Extending
  <2> QED BY <2>1, <2>3 DEF HashInv
<1> QED BY <1>8, <1>9

(* What every round leaves alone and counts.                                *)
LEMMA RoundCounts ==
  ASSUME NEW alg \in Algorithms, NEW reg, NEW sched,
         HashInv, hash_round(alg, reg, sched)
  PROVE  /\ InRounds /\ hash_alg = alg /\ hash_i \in 0 .. Rounds(alg) - 1
         /\ hash_i \in Nat /\ hash_i + 1 \in 0 .. Rounds(alg)
         /\ HashK(alg, hash_i) \in HashWord
         /\ std_reg' = StdRound(alg, std_reg, hash_i, HashK(alg, hash_i), std_w')
         /\ std_w' = StdSchedule(alg, std_w, hash_i)
         /\ hash_reg' = reg /\ schedule' = sched
         /\ hash_alg' = alg /\ hash_i' = hash_i + 1 /\ hash_pc' = "rounds"
         /\ hash_state' = hash_state
<1>1. /\ hash_pc = "rounds" /\ hash_alg = alg /\ hash_i < Rounds(alg)
      /\ InRounds
  BY DEF hash_round, HashInv
<1>2. hash_i \in 0 .. Rounds(alg) - 1 /\ hash_i \in Nat /\ hash_i + 1 \in 0 .. Rounds(alg)
  BY <1>1, HashSizes DEF InRounds
<1>3. HashK(alg, hash_i) \in HashWord
  BY <1>2, ConstantWords
<1> QED BY <1>1, <1>2, <1>3, Zenon DEF hash_round

(* A round that keeps registers and schedule right keeps the invariant.     *)
LEMMA RoundsOn ==
  ASSUME NEW alg \in Algorithms, NEW reg, NEW sched,
         HashInv, hash_round(alg, reg, sched),
         reg \in HashRegs(Registers(alg)), std_reg' \in HashRegs(Registers(alg)),
         SameRegisters(Registers(alg), hash_i + 1, reg, std_reg'),
         ScheduleReady'
  PROVE  HashInv'
<1>1. /\ InRounds /\ hash_alg = alg /\ hash_i + 1 \in 0 .. Rounds(alg)
      /\ hash_reg' = reg /\ hash_alg' = alg /\ hash_i' = hash_i + 1
      /\ hash_pc' = "rounds" /\ hash_state' = hash_state
  BY RoundCounts, Zenon
<1>2. hash_state \in HashRegs(Registers(alg))
  BY <1>1, Zenon DEF InRounds
<1>3. InRounds'
  BY <1>1, <1>2 DEF InRounds
<1> QED BY <1>1, <1>3 DEF HashInv

(* The functions that have their schedule find the standard's word there.   *)
LEMMA WholeWord ==
  ASSUME NEW alg \in Whole, NEW reg, HashInv, hash_round(alg, reg, schedule)
  PROVE  /\ ScheduleReady'
         /\ std_w'[hash_i] = schedule[hash_i] /\ schedule[hash_i] \in HashWord
<1>1. alg \in Algorithms /\ alg # "md5" /\ alg # "sha1-fast"
  BY HashSizes DEF Whole
<1>2. /\ InRounds /\ hash_alg = alg /\ hash_i \in 0 .. Rounds(alg) - 1
      /\ std_w' = StdSchedule(alg, std_w, hash_i) /\ schedule' = schedule
      /\ hash_alg' = alg /\ hash_i' = hash_i + 1
  BY <1>1, RoundCounts, Zenon
<1>3. Made(alg, schedule, Rounds(alg)) /\ Begins(hash_i, std_w, schedule)
  BY <1>1, <1>2, Zenon DEF InRounds, ScheduleReady
<1>4. Rounds(alg) \in Nat /\ Rounds(alg) >= 16
  BY <1>1, HashSizes
<1>5. /\ Begins(hash_i + 1, std_w', schedule)
      /\ std_w'[hash_i] = schedule[hash_i] /\ schedule[hash_i] \in HashWord
  <2>1. LET v2 == StdSchedule(alg, std_w, hash_i)
        IN  /\ Begins(hash_i + 1, v2, schedule)
            /\ v2[hash_i] = schedule[hash_i] /\ schedule[hash_i] \in HashWord
    BY <1>1, <1>2, <1>3, <1>4, BeginsOn
  <2> QED BY <1>2, <2>1, Zenon
<1>6. ScheduleReady'
  BY <1>2, <1>3, <1>5, Zenon DEF ScheduleReady
<1> QED BY <1>5, <1>6

LEMMA Sha1Naive == ASSUME HashInv, sha1_naive_compress PROVE HashInv'
<1> DEFINE alg == "sha1-naive"
           w == schedule[hash_i]
           reg == sha1_round(hash_reg, hash_i, hash_k, w)
<1>1. /\ alg \in Algorithms /\ alg \in Sha1 /\ alg \in Whole /\ Registers(alg) = 5
  BY HashSizes DEF Whole, Sha1
<1>2. hash_round(alg, reg, schedule)
  BY DEF sha1_naive_compress
<1> HIDE DEF reg
<1>3. /\ InRounds /\ hash_alg = alg /\ hash_i \in Nat
      /\ HashK(alg, hash_i) \in HashWord
      /\ std_reg' = StdRound(alg, std_reg, hash_i, HashK(alg, hash_i), std_w')
  BY <1>1, <1>2, RoundCounts, Zenon
<1>4. ScheduleReady' /\ std_w'[hash_i] = w /\ w \in HashWord
  BY <1>1, <1>2, WholeWord, Zenon
<1>5. /\ hash_reg \in HashRegs(5) /\ std_reg \in HashRegs(5)
      /\ SameRegisters(5, hash_i, hash_reg, std_reg)
  BY <1>1, <1>3, Zenon DEF InRounds
<1> HIDE DEF w, alg
<1>6. LET reg2 == sha1_round(hash_reg, hash_i, HashK(alg, hash_i), w)
          s2 == StdRound(alg, std_reg, hash_i, HashK(alg, hash_i), std_w')
      IN  /\ reg2 \in HashRegs(5) /\ s2 \in HashRegs(5)
          /\ SameRegisters(5, hash_i + 1, reg2, s2)
  BY <1>1, <1>3, <1>4, <1>5, Sha1Round, Zenon
<1>7. reg = sha1_round(hash_reg, hash_i, HashK(alg, hash_i), w)
  BY <1>3, Zenon DEF reg, hash_k
<1>8. /\ reg \in HashRegs(5) /\ std_reg' \in HashRegs(5)
      /\ SameRegisters(5, hash_i + 1, reg, std_reg')
  BY <1>3, <1>6, <1>7, Zenon
<1> QED BY <1>1, <1>2, <1>4, <1>8, RoundsOn, Zenon

LEMMA Sha1Fast == ASSUME HashInv, sha1_fast_compress PROVE HashInv'
<1> DEFINE alg == "sha1-fast"
           s == sha1_fast_schedule(schedule, hash_i)
           w == s[mask_0xF(hash_i)]
           reg == sha1_round(hash_reg, hash_i, hash_k, w)
<1>1. /\ alg \in Algorithms /\ alg \in Sha1 /\ alg \notin Whole /\ Registers(alg) = 5
  BY HashSizes DEF Whole, Sha1, Algorithms
<1>2. hash_round(alg, reg, s)
  BY DEF sha1_fast_compress
<1> HIDE DEF reg
<1>3. /\ InRounds /\ hash_alg = alg /\ hash_i \in Nat
      /\ HashK(alg, hash_i) \in HashWord
      /\ std_reg' = StdRound(alg, std_reg, hash_i, HashK(alg, hash_i), std_w')
      /\ std_w' = StdSchedule(alg, std_w, hash_i)
      /\ schedule' = s /\ hash_alg' = alg /\ hash_i' = hash_i + 1
  BY <1>1, <1>2, RoundCounts, Zenon
<1>4. InRing(hash_i, schedule, std_w)
  BY <1>1, <1>3, Zenon DEF InRounds, ScheduleReady
<1>5. /\ InRing(hash_i + 1, s, std_w')
      /\ w = std_w'[hash_i] /\ std_w'[hash_i] \in HashWord
  BY <1>3, <1>4, RingOn, Zenon
<1>6. ScheduleReady'
  BY <1>3, <1>5, Zenon DEF ScheduleReady
<1>7. /\ hash_reg \in HashRegs(5) /\ std_reg \in HashRegs(5)
      /\ SameRegisters(5, hash_i, hash_reg, std_reg)
  BY <1>1, <1>3, Zenon DEF InRounds
<1> HIDE DEF s, w, alg
<1>8. LET reg2 == sha1_round(hash_reg, hash_i, HashK(alg, hash_i), w)
          s2 == StdRound(alg, std_reg, hash_i, HashK(alg, hash_i), std_w')
      IN  /\ reg2 \in HashRegs(5) /\ s2 \in HashRegs(5)
          /\ SameRegisters(5, hash_i + 1, reg2, s2)
  BY <1>1, <1>3, <1>5, <1>7, Sha1Round, Zenon
<1>9. reg = sha1_round(hash_reg, hash_i, HashK(alg, hash_i), w)
  BY <1>3, Zenon DEF reg, hash_k
<1>10. /\ reg \in HashRegs(5) /\ std_reg' \in HashRegs(5)
       /\ SameRegisters(5, hash_i + 1, reg, std_reg')
  BY <1>3, <1>8, <1>9, Zenon
<1> QED BY <1>1, <1>2, <1>6, <1>10, RoundsOn, Zenon

LEMMA Sha2 ==
  ASSUME HashInv, NEW alg \in {"sha256", "sha512"},
         hash_round(alg, sha2_round(alg, hash_reg, hash_i, hash_k, schedule[hash_i]),
                    schedule)
  PROVE  HashInv'
<1> DEFINE w == schedule[hash_i]
           reg == sha2_round(alg, hash_reg, hash_i, hash_k, w)
<1>1. alg \in Algorithms /\ alg \in Whole /\ Registers(alg) = 8
  BY HashSizes DEF Whole
<1>2. hash_round(alg, reg, schedule)
  OBVIOUS
<1> HIDE DEF reg
<1>3. /\ InRounds /\ hash_alg = alg /\ hash_i \in Nat
      /\ HashK(alg, hash_i) \in HashWord
      /\ std_reg' = StdRound(alg, std_reg, hash_i, HashK(alg, hash_i), std_w')
  BY <1>1, <1>2, RoundCounts, Zenon
<1>4. ScheduleReady' /\ std_w'[hash_i] = w /\ w \in HashWord
  BY <1>1, <1>2, WholeWord, Zenon
<1>5. /\ hash_reg \in HashRegs(8) /\ std_reg \in HashRegs(8)
      /\ SameRegisters(8, hash_i, hash_reg, std_reg)
  BY <1>1, <1>3, Zenon DEF InRounds
<1> HIDE DEF w
<1>6. LET reg2 == sha2_round(alg, hash_reg, hash_i, HashK(alg, hash_i), w)
          s2 == StdRound(alg, std_reg, hash_i, HashK(alg, hash_i), std_w')
      IN  /\ reg2 \in HashRegs(8) /\ s2 \in HashRegs(8)
          /\ SameRegisters(8, hash_i + 1, reg2, s2)
  BY <1>3, <1>4, <1>5, Sha2Round, Zenon
<1>7. reg = sha2_round(alg, hash_reg, hash_i, HashK(alg, hash_i), w)
  BY <1>3, Zenon DEF reg, hash_k
<1>8. /\ reg \in HashRegs(8) /\ std_reg' \in HashRegs(8)
      /\ SameRegisters(8, hash_i + 1, reg, std_reg')
  BY <1>3, <1>6, <1>7, Zenon
<1> QED BY <1>1, <1>2, <1>4, <1>8, RoundsOn, Zenon

LEMMA Md5 == ASSUME HashInv, md5_compress PROVE HashInv'
<1> DEFINE alg == "md5"
           w == schedule[md5_k(hash_i)]
           reg == md5_round(hash_reg, hash_i, hash_k, w)
<1>1. alg \in Algorithms /\ alg \notin Whole /\ Registers(alg) = 4 /\ Rounds(alg) = 64
  BY HashSizes DEF Whole, Algorithms
<1>2. hash_round(alg, reg, schedule)
  BY DEF md5_compress
<1> HIDE DEF reg
<1>3. /\ InRounds /\ hash_alg = alg /\ hash_i \in 0 .. Rounds(alg) - 1
      /\ HashK(alg, hash_i) \in HashWord
      /\ std_reg' = StdRound(alg, std_reg, hash_i, HashK(alg, hash_i), std_w')
      /\ std_w' = StdSchedule(alg, std_w, hash_i)
      /\ schedule' = schedule /\ hash_alg' = alg
  BY <1>1, <1>2, RoundCounts, Zenon
<1>4. hash_i \in 0 .. 63 BY <1>1, <1>3
<1>5. schedule \in [0 .. 15 -> HashWord] /\ std_w = schedule
  BY <1>1, <1>3, Zenon DEF InRounds, ScheduleReady
<1>6. std_w' = schedule
  BY <1>5, <1>3 DEF StdSchedule
<1>7. w \in HashWord
  <2>1. md5_k(hash_i) \in 0 .. 15
    BY <1>4 DEF md5_k
  <2> QED BY <1>5, <2>1
<1>8. ScheduleReady'
  BY <1>3, <1>5, <1>6, Zenon DEF ScheduleReady
<1>9. /\ hash_reg \in HashRegs(4) /\ std_reg \in HashRegs(4)
      /\ SameRegisters(4, hash_i, hash_reg, std_reg)
  BY <1>1, <1>3, Zenon DEF InRounds
<1>10. std_w'[md5_k(hash_i)] = w
  BY <1>6, Zenon
<1> HIDE DEF w
<1>11. LET reg2 == md5_round(hash_reg, hash_i, HashK(alg, hash_i), w)
           s2 == StdRound("md5", std_reg, hash_i, HashK(alg, hash_i), std_w')
       IN  /\ reg2 \in HashRegs(4) /\ s2 \in HashRegs(4)
           /\ SameRegisters(4, hash_i + 1, reg2, s2)
  BY <1>3, <1>4, <1>7, <1>9, <1>10, Md5Round, Zenon
<1>12. reg = md5_round(hash_reg, hash_i, HashK(alg, hash_i), w)
  BY <1>3, Zenon DEF reg, hash_k
<1>13. /\ reg \in HashRegs(4) /\ std_reg' \in HashRegs(4)
       /\ SameRegisters(4, hash_i + 1, reg, std_reg')
  BY <1>3, <1>11, <1>12, Zenon
<1> QED BY <1>1, <1>2, <1>8, <1>13, RoundsOn, Zenon

(* After the last round every register plays its first role again.          *)
LEMMA RolesReturn ==
  ASSUME InRounds, hash_i = Rounds(hash_alg)
  PROVE  \A r \in 0 .. Registers(hash_alg) - 1 : hash_reg[r] = std_reg[r]
<1> DEFINE n == Registers(hash_alg)
<1>1. /\ n \in {4, 5, 8} /\ hash_i \in {64, 80} /\ hash_i % n = 0
  BY HashSizes DEF InRounds
<1>2. \A r \in 0 .. n - 1 : (r - hash_i) % n = r
  <2>1. CASE n = 4 BY <1>1, <2>1
  <2>2. CASE n = 5 BY <1>1, <2>2
  <2>3. CASE n = 8 BY <1>1, <2>3
  <2> QED BY <1>1, <2>1, <2>2, <2>3
<1>3. \A r \in 0 .. n - 1 : hash_reg[(r - hash_i) % n] = std_reg[r]
  BY Zenon DEF InRounds, SameRegisters
<1> QED BY <1>2, <1>3, Zenon

LEMMA HashAdds == ASSUME HashInv, hash_adds PROVE HashInv'
<1>1. InRounds /\ hash_i = Rounds(hash_alg)
  BY DEF HashInv, hash_adds
<1>2. DOMAIN hash_state = 0 .. Registers(hash_alg) - 1
  BY <1>1 DEF InRounds, HashRegs
<1>3. \A r \in DOMAIN hash_state : hash_reg[r] = std_reg[r]
  BY <1>1, <1>2, RolesReturn, Zenon
<1>4. hash_state' = std_reg'
  <2>1. \A r \in DOMAIN hash_state :
          Plus(hash_state[r], hash_reg[r]) = Plus(hash_state[r], std_reg[r])
    BY <1>3, Zenon
  <2> QED BY <2>1, Zenon DEF hash_adds
<1> QED BY <1>4 DEF HashInv, hash_adds

LEMMA HashInvStep == HashInv /\ [HashNext]_hash_vars => HashInv'
<1> SUFFICES ASSUME HashInv, [HashNext]_hash_vars PROVE HashInv'
  OBVIOUS
<1>1. CASE hash_starts BY <1>1, HashStarts
<1>2. CASE hash_extends BY <1>2, HashExtends
<1>3. CASE hash_adds BY <1>3, HashAdds
<1>4. CASE sha1_naive_compress BY <1>4, Sha1Naive
<1>5. CASE sha1_fast_compress BY <1>5, Sha1Fast
<1>6. CASE sha256_compress
  <2>1. "sha256" \in {"sha256", "sha512"} OBVIOUS
  <2> QED BY <1>6, <2>1, Sha2, Zenon DEF sha256_compress
<1>7. CASE sha512_compress
  <2>1. "sha512" \in {"sha256", "sha512"} OBVIOUS
  <2> QED BY <1>7, <2>1, Sha2, Zenon DEF sha512_compress
<1>8. CASE md5_compress BY <1>8, Md5
<1>9. CASE UNCHANGED hash_vars
  BY <1>9 DEF hash_vars, HashInv, Extending, InRounds, ScheduleReady
<1> QED BY <1>1, <1>2, <1>3, <1>4, <1>5, <1>6, <1>7, <1>8, <1>9 DEF HashNext

LEMMA HashInvGives == HashInv => HashIsStandard
<1> SUFFICES ASSUME HashInv PROVE HashIsStandard
  OBVIOUS
<1>1. ASSUME hash_pc = "rounds", NEW r \in DOMAIN std_reg
      PROVE  hash_reg[role(hash_alg, hash_i, r)] = std_reg[r]
  <2>1. InRounds BY <1>1 DEF HashInv
  <2>2. r \in 0 .. Registers(hash_alg) - 1 BY <1>1, <2>1 DEF InRounds, HashRegs
  <2> QED BY <2>1, <2>2, Zenon DEF InRounds, SameRegisters, role
<1>2. ASSUME hash_pc = "rounds", hash_alg = "sha1-fast", NEW j \in DOMAIN std_w,
             j >= hash_i - 16
      PROVE  schedule[mask_0xF(j)] = std_w[j]
  <2>1. InRing(hash_i, schedule, std_w)
    BY <1>2 DEF HashInv, InRounds, ScheduleReady, Whole
  <2>2. j \in 0 .. LastWord(hash_i) BY <1>2, <2>1 DEF InRing
  <2> QED BY <1>2, <2>1, <2>2, Zenon DEF InRing, mask_0xF
<1> QED BY <1>1, <1>2, Zenon DEF HashInv, HashIsStandard

(* The unrolled functions, with rotated registers, rewritten Boolean        *)
(* functions and a ring of schedule words, compute what the standards'      *)
(* state, for every word width, every addition of words, every table of     *)
(* constants and every state and block.                                     *)
THEOREM HashesAreStandard == HashSpec => []HashIsStandard
<1>1. HashInit => HashInv
  BY DEF HashInit, HashInv
<1> QED BY <1>1, HashInvStep, HashInvGives, PTL DEF HashSpec
-----------------------------------------------------------------------------
(* The hash functions: padding.                                             *)

Hashers == {"md5", "sha1", "sha224", "sha256", "sha384", "sha512"}

(* The parts of a shifted number, put together again.                       *)
LEMMA ShiftedParts ==
  ASSUME NEW n \in Nat
  PROVE  /\ n \div 256 \in Nat /\ n = 256 * (n \div 256) + (n % 256)
         /\ n \div 32 \in Nat /\ n = 32 * (n \div 32) + (n % 32)
BY SMTT(30)

(* The bytes of the length field make the length in bits.                   *)
LEMMA LengthInBits ==
  ASSUME NEW len \in PadLengths, NEW b,
         \A i \in 0 .. 7 : b[i + 1] = length_byte(len, i)
  PROVE  FieldBits(b) = 8 * len
<1> DEFINE q1 == len \div 32    q2 == q1 \div 256  q3 == q2 \div 256
           q4 == q3 \div 256    q5 == q4 \div 256  q6 == q5 \div 256
           q7 == q6 \div 256
<1>1. len \in Nat /\ q7 \div 256 = 0
  BY PadLengthsAssumption
<1>2. /\ b[1] = (len % 32) * 8
      /\ b[2] = q1 % 256 /\ b[3] = q2 % 256 /\ b[4] = q3 % 256 /\ b[5] = q4 % 256
      /\ b[6] = q5 % 256 /\ b[7] = q6 % 256 /\ b[8] = q7 % 256
  <2>1. /\ b[0 + 1] = length_byte(len, 0) /\ b[1 + 1] = length_byte(len, 1)
        /\ b[2 + 1] = length_byte(len, 2) /\ b[3 + 1] = length_byte(len, 3)
        /\ b[4 + 1] = length_byte(len, 4) /\ b[5 + 1] = length_byte(len, 5)
        /\ b[6 + 1] = length_byte(len, 6) /\ b[7 + 1] = length_byte(len, 7)
    OBVIOUS
  <2>2. length_byte(len, 0) = (len % 32) * 8
    BY DEF length_byte
  <2>3. /\ length_byte(len, 1) = q1 % 256 /\ length_byte(len, 2) = q2 % 256
        /\ length_byte(len, 3) = q3 % 256 /\ length_byte(len, 4) = q4 % 256
        /\ length_byte(len, 5) = q5 % 256 /\ length_byte(len, 6) = q6 % 256
        /\ length_byte(len, 7) = q7 % 256
    BY DEF length_byte
  <2> HIDE DEF q1, q2, q3, q4, q5, q6, q7
  <2> QED BY <2>1, <2>2, <2>3
<1>3. q1 \in Nat /\ len = 32 * q1 + (len % 32) BY <1>1, ShiftedParts
<1> HIDE DEF q1
<1>4. q2 \in Nat /\ q1 = 256 * q2 + (q1 % 256) BY <1>3, ShiftedParts
<1> HIDE DEF q2
<1>5. q3 \in Nat /\ q2 = 256 * q3 + (q2 % 256) BY <1>4, ShiftedParts
<1> HIDE DEF q3
<1>6. q4 \in Nat /\ q3 = 256 * q4 + (q3 % 256) BY <1>5, ShiftedParts
<1> HIDE DEF q4
<1>7. q5 \in Nat /\ q4 = 256 * q5 + (q4 % 256) BY <1>6, ShiftedParts
<1> HIDE DEF q5
<1>8. q6 \in Nat /\ q5 = 256 * q6 + (q5 % 256) BY <1>7, ShiftedParts
<1> HIDE DEF q6
<1>9. q7 \in Nat /\ q6 = 256 * q7 + (q6 % 256) BY <1>8, ShiftedParts
<1> HIDE DEF q7
<1>10. /\ len % 32 \in 0 .. 31 /\ q1 % 256 \in 0 .. 255 /\ q2 % 256 \in 0 .. 255
       /\ q3 % 256 \in 0 .. 255 /\ q4 % 256 \in 0 .. 255 /\ q5 % 256 \in 0 .. 255
       /\ q6 % 256 \in 0 .. 255
  BY <1>1, <1>3, <1>4, <1>5, <1>6, <1>7, <1>8
<1>11. q7 % 256 = q7
  <2>1. q7 = 256 * (q7 \div 256) + (q7 % 256) BY <1>9, ShiftedParts
  <2>2. q7 \div 256 = 0 BY <1>1
  <2>3. q7 % 256 \in 0 .. 255 BY <1>9
  <2> QED BY <2>1, <2>2, <2>3
<1> DEFINE r == len % 32  c1 == q1 % 256  c2 == q2 % 256  c3 == q3 % 256
           c4 == q4 % 256  c5 == q5 % 256  c6 == q6 % 256
<1>12. /\ r \in Int /\ c1 \in Int /\ c2 \in Int /\ c3 \in Int
       /\ c4 \in Int /\ c5 \in Int /\ c6 \in Int
       /\ len = 32 * q1 + r /\ q1 = 256 * q2 + c1 /\ q2 = 256 * q3 + c2
       /\ q3 = 256 * q4 + c3 /\ q4 = 256 * q5 + c4 /\ q5 = 256 * q6 + c5
       /\ q6 = 256 * q7 + c6
       /\ b[1] = r * 8 /\ b[2] = c1 /\ b[3] = c2 /\ b[4] = c3 /\ b[5] = c4
       /\ b[6] = c5 /\ b[7] = c6 /\ b[8] = q7
  BY <1>2, <1>3, <1>4, <1>5, <1>6, <1>7, <1>8, <1>9, <1>10, <1>11
<1> HIDE DEF r, c1, c2, c3, c4, c5, c6
<1> QED BY <1>12, <1>9 DEF FieldBits

(* The sizes of blocks and of the length field.                             *)
LEMMA BlockSizes ==
  ASSUME NEW h \in Hashers
  PROVE  \/ BLOCK_LEN(h) = 64 /\ LENGTH_SIZE(h) = 8
         \/ BLOCK_LEN(h) = 128 /\ LENGTH_SIZE(h) = 16
<1>1. 64 \div 8 = 8 /\ 128 \div 8 = 16 OBVIOUS
<1> QED BY <1>1 DEF BLOCK_LEN, LENGTH_SIZE

\* The bytes in front of the length field, and the field itself.
TailBytes(h, tail, rem) ==
  \A b \in 1 .. Len(tail) - LENGTH_SIZE(h) :
    tail[b] = IF b <= rem THEN Message ELSE IF b = rem + 1 THEN 128 ELSE 0
TailField(h, len, tail) ==
  \A k \in 1 .. LENGTH_SIZE(h) :
    tail[Len(tail) - LENGTH_SIZE(h) + k] =
      length_byte(len, IF h = "md5" THEN k - 1 ELSE LENGTH_SIZE(h) - k)

(* A length field at the end of a block.                                    *)
LEMMA FieldAtEnd ==
  ASSUME NEW h \in Hashers, NEW len, NEW block, NEW n \in Nat, n = BLOCK_LEN(h)
  PROVE  LET last == with_length(h, len, block)
         IN  /\ DOMAIN last = 1 .. n
             /\ \A b \in 1 .. n - LENGTH_SIZE(h) : last[b] = block[b]
             /\ \A k \in 1 .. LENGTH_SIZE(h) :
                  last[n - LENGTH_SIZE(h) + k] =
                    length_byte(len, IF h = "md5" THEN k - 1 ELSE LENGTH_SIZE(h) - k)
<1> DEFINE last == with_length(h, len, block)
           size == LENGTH_SIZE(h)
<1>1. size \in Nat /\ size < n
  BY BlockSizes
<1>2. last = [b \in 1 .. n |->
                LET back == n - b IN
                  IF back >= size THEN block[b]
                  ELSE IF h = "md5" THEN length_byte(len, size - 1 - back)
                  ELSE length_byte(len, back)]
  BY Zenon DEF with_length
<1> HIDE DEF last, size
<1>3. \A b \in 1 .. n - size : last[b] = block[b]
  <2> SUFFICES ASSUME NEW b \in 1 .. n - size PROVE last[b] = block[b]
    OBVIOUS
  <2>1. b \in 1 .. n /\ n - b >= size BY <1>1
  <2> QED BY <1>2, <2>1, Zenon
<1>4. \A k \in 1 .. size :
        last[n - size + k] = length_byte(len, IF h = "md5" THEN k - 1 ELSE size - k)
  <2> SUFFICES ASSUME NEW k \in 1 .. size
               PROVE  last[n - size + k] =
                        length_byte(len, IF h = "md5" THEN k - 1 ELSE size - k)
    OBVIOUS
  <2> DEFINE b == n - size + k
  <2>1. /\ b \in 1 .. n /\ ~(n - b >= size)
        /\ size - 1 - (n - b) = k - 1 /\ n - b = size - k
    BY <1>1
  <2>2. last[b] = IF h = "md5" THEN length_byte(len, size - 1 - (n - b))
                  ELSE length_byte(len, n - b)
    <3> HIDE DEF b
    <3> QED BY <1>2, <2>1, Zenon
  <2> QED BY <2>1, <2>2, Zenon
<1> QED BY <1>2, <1>3, <1>4, Zenon DEF last, size

\* A row of n bytes.
Row(n, s) == s = [b \in 1 .. n |-> s[b]]

\* The row st is s with t behind it.
Joined(n, s, t, st) ==
  /\ Len(st) = 2 * n
  /\ \A b \in 1 .. n : st[b] = s[b]
  /\ \A b \in n + 1 .. 2 * n : st[b] = t[b - n]

(* Two blocks behind one another.                                           *)
LEMMA JoinedBlocks ==
  ASSUME NEW n \in Nat, NEW s, NEW t,
         Row(n, s), Row(n, t)
  PROVE  Joined(n, s, t, s \o t)
BY DEF Row, Joined

(* What the hashers hand over after the whole blocks.                       *)
LEMMA TailIsStandard ==
  ASSUME NEW h \in Hashers, NEW len \in Nat, NEW tail,
         LET rem == len % BLOCK_LEN(h)
             block == [b \in 1 .. BLOCK_LEN(h) |->
                         IF b <= rem THEN Message ELSE IF b = rem + 1 THEN 128 ELSE 0]
             zeros == [b \in 1 .. BLOCK_LEN(h) |-> 0]
         IN tail = IF length_fits(h, rem) THEN with_length(h, len, block)
                   ELSE block \o with_length(h, len, zeros)
  PROVE  LET rem == len % BLOCK_LEN(h)
         IN  /\ Len(tail) \in {BLOCK_LEN(h), 2 * BLOCK_LEN(h)}
             /\ Len(tail) - rem \in LENGTH_SIZE(h) + 1 .. LENGTH_SIZE(h) + BLOCK_LEN(h)
             /\ TailBytes(h, tail, rem) /\ TailField(h, len, tail)
<1> DEFINE n == BLOCK_LEN(h)
           size == LENGTH_SIZE(h)
           rem == len % n
           block == [b \in 1 .. n |->
                       IF b <= rem THEN Message ELSE IF b = rem + 1 THEN 128 ELSE 0]
           zeros == [b \in 1 .. n |-> 0]
           end(blk) == with_length(h, len, blk)
           byte(k) == length_byte(len, IF h = "md5" THEN k - 1 ELSE size - k)
<1>1. n \in Nat \ {0} /\ size \in 1 .. n - 1 /\ (n = 64 \/ n = 128)
  BY BlockSizes
<1>2. rem \in 0 .. n - 1
  BY <1>1
<1>3. tail = IF n - (rem + 1) >= size THEN end(block) ELSE block \o end(zeros)
  BY Zenon DEF length_fits
<1>4. \A blk : /\ DOMAIN end(blk) = 1 .. n
               /\ \A b \in 1 .. n - size : end(blk)[b] = blk[b]
               /\ \A k \in 1 .. size : end(blk)[n - size + k] = byte(k)
  <2>1. n \in Nat /\ n = BLOCK_LEN(h) BY <1>1
  <2>2. \A blk : LET last == with_length(h, len, blk)
                 IN  /\ DOMAIN last = 1 .. n
                     /\ \A b \in 1 .. n - LENGTH_SIZE(h) : last[b] = blk[b]
                     /\ \A k \in 1 .. LENGTH_SIZE(h) :
                          last[n - LENGTH_SIZE(h) + k] =
                            length_byte(len, IF h = "md5" THEN k - 1 ELSE LENGTH_SIZE(h) - k)
    <3> HIDE DEF n
    <3> QED BY <2>1, FieldAtEnd
  <2> QED BY <2>2, Zenon
<1>5. \A blk : end(blk) = [b \in 1 .. n |-> end(blk)[b]]
  BY DEF with_length
<1>6. CASE n - (rem + 1) >= size
  <2> DEFINE last == end(block)
  <2>1. tail = last BY <1>3, <1>6, Zenon
  <2>2. /\ last = [b \in 1 .. n |-> last[b]]
        /\ \A b \in 1 .. n - size : last[b] = block[b]
        /\ \A k \in 1 .. size : last[n - size + k] = byte(k)
    BY <1>4, <1>5, Zenon
  <2> HIDE DEF last, byte, end
  <2>3. Len(last) = n BY <1>1, <2>2
  <2>4. \A b \in 1 .. n - size : block[b] = IF b <= rem THEN Message
                                  ELSE IF b = rem + 1 THEN 128 ELSE 0
    BY <1>1
  <2> HIDE DEF block, n, size, rem
  <2>5. \A b \in 1 .. n - size : tail[b] = IF b <= rem THEN Message
                                  ELSE IF b = rem + 1 THEN 128 ELSE 0
    BY <2>1, <2>2, <2>4, Zenon
  <2>6. n - rem \in size + 1 .. size + n BY <1>1, <1>2, <1>6
  <2> QED BY <2>1, <2>2, <2>3, <2>5, <2>6, Zenon
          DEF TailBytes, TailField, n, size, rem, byte
<1>7. CASE ~(n - (rem + 1) >= size)
  <2> DEFINE last == end(zeros)
  <2>1. tail = block \o last BY <1>3, <1>7, Zenon
  <2>2. /\ last = [b \in 1 .. n |-> last[b]]
        /\ \A b \in 1 .. n - size : last[b] = zeros[b]
        /\ \A k \in 1 .. size : last[n - size + k] = byte(k)
    BY <1>4, <1>5, Zenon
  <2>3. \A b \in 1 .. n : block[b] = IF b <= rem THEN Message
                                  ELSE IF b = rem + 1 THEN 128 ELSE 0
    OBVIOUS
  <2>4. \A b \in 1 .. n : zeros[b] = 0 OBVIOUS
  <2>5. block = [b \in 1 .. n |-> block[b]] OBVIOUS
  <2> HIDE DEF last, byte, end, block, zeros, n, size, rem
  <2>6. /\ Len(tail) = 2 * n
        /\ \A b \in 1 .. n : tail[b] = block[b]
        /\ \A b \in n + 1 .. 2 * n : tail[b] = last[b - n]
    <3>1. n \in Nat /\ Row(n, block) /\ Row(n, last)
      BY <1>1, <2>2, <2>5 DEF Row
    <3>2. Joined(n, block, last, block \o last)
      BY <3>1, JoinedBlocks, Zenon
    <3> QED BY <2>1, <3>2, Zenon DEF Joined
  <2>7. \A b \in 1 .. 2 * n - size : tail[b] = IF b <= rem THEN Message
                                  ELSE IF b = rem + 1 THEN 128 ELSE 0
    <3> SUFFICES ASSUME NEW b \in 1 .. 2 * n - size
                 PROVE  tail[b] = IF b <= rem THEN Message
                                  ELSE IF b = rem + 1 THEN 128 ELSE 0
      OBVIOUS
    <3>1. CASE b \in 1 .. n BY <2>3, <2>6, <3>1, ZenonT(30)
    <3>2. CASE b \notin 1 .. n
      <4>1. b \in n + 1 .. 2 * n /\ b - n \in 1 .. n - size /\ b - n \in 1 .. n
            /\ ~(b <= rem) /\ b # rem + 1
        BY <1>1, <1>2, <3>2
      <4> QED BY <2>2, <2>4, <2>6, <4>1, Zenon
    <3> QED BY <3>1, <3>2
  <2>8. \A k \in 1 .. size : tail[2 * n - size + k] = byte(k)
    <3> SUFFICES ASSUME NEW k \in 1 .. size PROVE tail[2 * n - size + k] = byte(k)
      OBVIOUS
    <3>1. /\ 2 * n - size + k \in n + 1 .. 2 * n
          /\ (2 * n - size + k) - n = n - size + k
      BY <1>1
    <3> QED BY <2>2, <2>6, <3>1, Zenon
  <2>9. 2 * n - rem \in size + 1 .. size + n BY <1>1, <1>2, <1>7
  <2> QED BY <2>6, <2>7, <2>8, <2>9, Zenon
          DEF TailBytes, TailField, n, size, rem, byte
<1> QED BY <1>6, <1>7

\* What the proofs need of one hashed message.
PaddedRight ==
  LET rem == pad_len % BLOCK_LEN(pad_hasher) IN
    /\ pad_hasher \in Hashers /\ pad_len \in PadLengths /\ pad_off = pad_len - rem
    /\ Len(pad_tail) \in {BLOCK_LEN(pad_hasher), 2 * BLOCK_LEN(pad_hasher)}
    /\ Len(pad_tail) - rem \in LENGTH_SIZE(pad_hasher) + 1 ..
                                 LENGTH_SIZE(pad_hasher) + BLOCK_LEN(pad_hasher)
    /\ TailBytes(pad_hasher, pad_tail, rem)
    /\ TailField(pad_hasher, pad_len, pad_tail)

LEMMA PadsGivesPadded ==
  ASSUME NEW h \in Hashers, pads(h)
  PROVE  PaddedRight'
<1>1. pad_len' \in PadLengths /\ pad_len' \in Nat /\ pad_hasher' = h
  BY PadLengthsAssumption DEF pads
<1>2. pad_off' = pad_len' - (pad_len' % BLOCK_LEN(h))
  BY DEF pads
<1>3. LET rem == pad_len' % BLOCK_LEN(h)
          block == [b \in 1 .. BLOCK_LEN(h) |->
                      IF b <= rem THEN Message ELSE IF b = rem + 1 THEN 128 ELSE 0]
          zeros == [b \in 1 .. BLOCK_LEN(h) |-> 0]
      IN pad_tail' = IF length_fits(h, rem) THEN with_length(h, pad_len', block)
                     ELSE block \o with_length(h, pad_len', zeros)
  BY Zenon DEF pads
<1>4. LET rem == pad_len' % BLOCK_LEN(h)
      IN  /\ Len(pad_tail') \in {BLOCK_LEN(h), 2 * BLOCK_LEN(h)}
          /\ Len(pad_tail') - rem \in LENGTH_SIZE(h) + 1 .. LENGTH_SIZE(h) + BLOCK_LEN(h)
          /\ TailBytes(h, pad_tail', rem) /\ TailField(h, pad_len', pad_tail')
  BY <1>1, <1>3, TailIsStandard, Zenon
<1> QED BY <1>1, <1>2, <1>4 DEF PaddedRight

\* The length field at the end, lowest byte first, and what it holds.
LengthField(h, tail) ==
  LET field == SubSeq(tail, Len(tail) - LENGTH_SIZE(h) + 1, Len(tail))
  IN IF h = "md5" THEN field ELSE Reverse(field)
LowestFirst(h, len, bytes) ==
  \A k \in 1 .. LENGTH_SIZE(h) : bytes[k] = length_byte(len, k - 1)

\* The tail is of one block or two.
OneOrTwo(h, tail) == Len(tail) \in {BLOCK_LEN(h), 2 * BLOCK_LEN(h)}

(* The length field of such a message, lowest byte first.                   *)
LEMMA FieldLowestFirst ==
  ASSUME NEW h \in Hashers, NEW len \in PadLengths, NEW tail,
         OneOrTwo(h, tail), TailField(h, len, tail)
  PROVE  LowestFirst(h, len, LengthField(h, tail))
<1> DEFINE size == LENGTH_SIZE(h)
           all == Len(tail)
           field == SubSeq(tail, all - size + 1, all)
<1>1. size \in Nat /\ all \in Nat /\ size < all
  BY BlockSizes DEF OneOrTwo
<1>2. /\ Len(field) = size
      /\ \A k \in 1 .. size : field[k] = tail[all - size + k]
  <2>1. field = [k \in 1 .. size |-> tail[all - size + k]]
    <3> HIDE DEF size, all
    <3> QED BY <1>1
  <2> HIDE DEF field, size, all
  <2> QED BY <1>1, <2>1
<1>3. \A k \in 1 .. size :
        tail[all - size + k] = length_byte(len, IF h = "md5" THEN k - 1 ELSE size - k)
  BY Zenon DEF TailField
<1> HIDE DEF field, size, all
<1>4. CASE h = "md5"
  <2>1. \A k \in 1 .. size : field[k] = length_byte(len, k - 1)
    BY <1>2, <1>3, <1>4, Zenon
  <2> QED BY <1>4, <2>1, Zenon DEF LowestFirst, LengthField, field, size, all
<1>5. CASE h # "md5"
  <2>1. Reverse(field) = [k \in 1 .. size |-> field[(size - k) + 1]]
    BY <1>2, Zenon DEF Reverse
  <2>2. ASSUME NEW k \in 1 .. size
        PROVE  Reverse(field)[k] = length_byte(len, k - 1)
    <3> DEFINE j == (size - k) + 1
    <3>1. j \in 1 .. size /\ size - j = k - 1 BY <1>1
    <3>2. Reverse(field)[k] = field[j] BY <2>1, Zenon
    <3> HIDE DEF j
    <3>3. field[j] = length_byte(len, size - j) BY <1>2, <1>3, <1>5, <3>1, Zenon
    <3> QED BY <3>1, <3>2, <3>3
  <2> QED BY <1>5, <2>2, Zenon DEF LowestFirst, LengthField, field, size, all
<1> QED BY <1>4, <1>5

(* One or two blocks more.                                                  *)
LEMMA BlockMore ==
  ASSUME NEW n, n = 64 \/ n = 128, NEW a \in Int, a % n = 0
  PROVE  (a + n) % n = 0 /\ (a + 2 * n) % n = 0
<1>1. CASE n = 64 BY <1>1
<1>2. CASE n = 128 BY <1>2
<1> QED BY <1>1, <1>2

LEMMA PaddedIsStandard == PaddedRight => PadIsStandard
<1> SUFFICES ASSUME PaddedRight PROVE PadIsStandard
  OBVIOUS
<1> DEFINE h == pad_hasher
           n == BLOCK_LEN(h)
           size == LENGTH_SIZE(h)
           rem == pad_len % n
           total == pad_off + Len(pad_tail)
           rest == pad_len - pad_off
           field == SubSeq(pad_tail, Len(pad_tail) - size + 1, Len(pad_tail))
           lowest_first == IF h = "md5" THEN field ELSE Reverse(field)
<1>1. /\ h \in Hashers /\ pad_len \in PadLengths /\ pad_off = pad_len - rem
      /\ Len(pad_tail) \in {n, 2 * n}
      /\ Len(pad_tail) - rem \in size + 1 .. size + n
      /\ TailBytes(h, pad_tail, rem) /\ TailField(h, pad_len, pad_tail)
  BY DEF PaddedRight
<1>2. /\ pad_len \in Nat /\ ((n = 64 /\ size = 8) \/ (n = 128 /\ size = 16))
  <2>1. pad_len \in Nat BY <1>1, PadLengthsAssumption
  <2>2. (n = 64 /\ size = 8) \/ (n = 128 /\ size = 16) BY <1>1, BlockSizes, Zenon
  <2> QED BY <2>1, <2>2
<1>3. \A k \in 1 .. size : lowest_first[k] = length_byte(pad_len, k - 1)
  <2>1. LowestFirst(h, pad_len, LengthField(h, pad_tail))
    <3>1. OneOrTwo(h, pad_tail) BY <1>1, Zenon DEF OneOrTwo
    <3> QED BY <1>1, <3>1, FieldLowestFirst, Zenon
  <2> QED BY <2>1, Zenon DEF LowestFirst, LengthField
<1>4. FieldBits(lowest_first) = 8 * pad_len
  <2> HIDE DEF lowest_first, size
  <2>1. \A i \in 0 .. 7 : i + 1 \in 1 .. size /\ (i + 1) - 1 = i BY <1>2
  <2>2. \A i \in 0 .. 7 : lowest_first[i + 1] = length_byte(pad_len, i)
    BY <1>3, <2>1, Zenon
  <2> QED BY <1>1, <2>2, LengthInBits
<1>5. \A b \in 9 .. size : lowest_first[b] = 0
  <2> HIDE DEF lowest_first, size
  <2> SUFFICES ASSUME NEW b \in 9 .. size PROVE lowest_first[b] = 0
    OBVIOUS
  <2>1. b \in 1 .. size /\ b - 1 \in Int /\ b - 1 > 7 BY <1>2
  <2>2. length_byte(pad_len, b - 1) = 0
    BY <2>1 DEF length_byte
  <2> QED BY <1>3, <2>1, <2>2
<1> HIDE DEF n, size, h
<1>6. rem \in 0 .. n - 1 /\ (pad_len - rem) % n = 0
  BY <1>2
<1>7. rest = rem
  BY <1>1, <1>2, <1>6
<1>8. /\ pad_off % n = 0 /\ total % n = 0 /\ rest >= 0
      /\ total - pad_len \in size + 1 .. size + n
  <2> HIDE DEF rem
  <2>1. total = (pad_len - rem) + Len(pad_tail) BY <1>1
  <2>2. total % n = 0
    <3>1. pad_len - rem \in Int BY <1>2, <1>6
    <3>2. /\ ((pad_len - rem) + n) % n = 0
          /\ ((pad_len - rem) + 2 * n) % n = 0
      BY <1>2, <1>6, <3>1, BlockMore
    <3> QED BY <1>1, <2>1, <3>2
  <2>3. total - pad_len = Len(pad_tail) - rem BY <1>1, <1>2, <1>6
  <2> QED BY <1>1, <1>6, <1>7, <2>2, <2>3
<1>9. \A b \in 1 .. Len(pad_tail) - size :
        pad_tail[b] = IF b <= rest THEN Message ELSE IF b = rest + 1 THEN 128 ELSE 0
  <2> HIDE DEF rem, rest
  <2>1. \A b \in 1 .. Len(pad_tail) - size :
          pad_tail[b] = IF b <= rem THEN Message ELSE IF b = rem + 1 THEN 128 ELSE 0
    BY <1>1, ZenonT(30) DEF TailBytes, size
  <2> QED BY <1>7, <2>1
<1> QED BY <1>4, <1>5, <1>8, <1>9, Zenon DEF PadIsStandard, n, size, h

(* Every hasher pads a message of every length below 2^61 bytes as the      *)
(* standards say: nothing is cut off or moved, no empty block is added, and *)
(* the field holds the length in bits.                                      *)
THEOREM PaddingIsStandard == PadSpec => []PadIsStandard
<1> DEFINE Inv == pad_hasher = "none" \/ PaddedRight
<1>1. PadInit => Inv
  BY DEF PadInit
<1>2. Inv /\ [PadNext]_pad_vars => Inv'
  <2> SUFFICES ASSUME Inv, [PadNext]_pad_vars PROVE Inv'
    OBVIOUS
  <2>1. CASE PadNext
    <3>1. \E h \in Hashers : pads(h)
      BY <2>1 DEF PadNext, Hashers, md5_hash, sha1_hash, sha224_hash, sha256_hash,
                  sha384_hash, sha512_hash
    <3> QED BY <3>1, PadsGivesPadded
  <2>2. CASE UNCHANGED pad_vars
    BY <2>2 DEF pad_vars, PaddedRight
  <2> QED BY <2>1, <2>2
<1>3. Inv => PadIsStandard
  <2>1. pad_hasher = "none" => PadIsStandard BY DEF PadIsStandard
  <2> QED BY <2>1, PaddedIsStandard
<1> HIDE DEF Inv
<1> QED BY <1>1, <1>2, <1>3, PTL DEF PadSpec
-----------------------------------------------------------------------------
(* Recursive functions, one value after the other.                          *)

Below == {pair \in Nat \X Nat : pair[1] < pair[2]}

(* The order of the natural numbers is well-founded.                        *)
LEMMA BelowWellFounded == IsWellFoundedOn(Below, Nat)
BY NatLessThanWellFounded DEF OpToRel, Below

(* Every non-empty set of natural numbers has a smallest member.            *)
LEMMA SmallestOf ==
  ASSUME NEW T, T \subseteq Nat, T # {}
  PROVE  \E m \in T : \A n \in T : m <= n
<1>1. \E x \in T : \A y \in T : <<y, x>> \notin Below
  BY BelowWellFounded, WFMin, Zenon
<1>2. PICK x \in T : \A y \in T : <<y, x>> \notin Below BY <1>1
<1>3. ASSUME NEW y \in T PROVE x <= y
  <2>1. x \in Nat /\ y \in Nat /\ <<y, x>> \in Nat \X Nat OBVIOUS
  <2>2. y < x => <<y, x>> \in Below BY <2>1 DEF Below
  <2> QED BY <1>2, <2>1, <2>2
<1> QED BY <1>3

(* Min is that member.                                                      *)
LEMMA MinOf ==
  ASSUME NEW T, T \subseteq Nat, T # {}
  PROVE  Min(T) \in T /\ \A n \in T : Min(T) <= n
<1>1. PICK m \in T : \A n \in T : m <= n BY SmallestOf
<1> QED BY <1>1 DEF Min

(* What holds of 0, and of a successor when it holds of the number before,  *)
(* holds of every number up to a bound.                                     *)
LEMMA EveryNumber ==
  ASSUME NEW T, 0 \in T, \A n \in Nat : n \in T => n + 1 \in T
  PROVE  Nat \subseteq T
<1> DEFINE U == Nat \ T
<1> SUFFICES ASSUME U # {} PROVE FALSE OBVIOUS
<1>1. PICK x \in U : \A y \in U : x <= y BY SmallestOf
<1>2. x \in Nat /\ x # 0 OBVIOUS
<1>3. x - 1 \in Nat /\ x - 1 \notin T
  <2>1. x - 1 \in Nat /\ (x - 1) + 1 = x BY <1>2
  <2> QED BY <2>1
<1>4. x - 1 \in U /\ ~ x <= x - 1 BY <1>2, <1>3
<1> QED BY <1>1, <1>4

(* The same up to a bound.                                                  *)
LEMMA UpTo ==
  ASSUME NEW n \in Nat, NEW T, 0 \in T,
         \A i \in 0 .. n - 1 : i \in T => i + 1 \in T
  PROVE  0 .. n \subseteq T
<1> DEFINE V == {i \in Nat : i <= n => i \in T}
<1>1. 0 \in V OBVIOUS
<1>2. ASSUME NEW i \in Nat, i \in V PROVE i + 1 \in V
  <2>1. i + 1 <= n => i \in 0 .. n - 1 /\ i \in T BY <1>2
  <2> QED BY <2>1
<1> HIDE DEF V
<1>3. Nat \subseteq V BY <1>1, <1>2, EveryNumber
<1> QED BY <1>3 DEF V

Follows(f, start, step, n) ==
  f[0] = start /\ \A i \in 0 .. n - 1 : f[i + 1] = step[<<i, f[i]>>]

(* There is a function with a given first value, in which each value follows*)
(* from the one before it.                                                  *)
LEMMA ValueAfterValue ==
  ASSUME NEW A, NEW start \in A, NEW step \in [Nat \X A -> A], NEW n \in Nat
  PROVE  \E f \in [0 .. n -> A] : Follows(f, start, step, n)
<1> DEFINE Fits(f, m) == Follows(f, start, step, m)
           T == {m \in Nat : \E f \in [0 .. m -> A] : Fits(f, m)}
<1>1. 0 \in T
  <2>1. [i \in 0 .. 0 |-> start] \in [0 .. 0 -> A] /\ Fits([i \in 0 .. 0 |-> start], 0)
    BY DEF Follows
  <2> QED BY <2>1
<1>2. ASSUME NEW m \in Nat, m \in T PROVE m + 1 \in T
  <2>1. PICK f \in [0 .. m -> A] : Fits(f, m) BY <1>2
  <2> DEFINE g == [i \in 0 .. m + 1 |-> IF i <= m THEN f[i] ELSE step[<<m, f[m]>>]]
  <2>2. f[m] \in A /\ step[<<m, f[m]>>] \in A OBVIOUS
  <2>3. g \in [0 .. m + 1 -> A] BY <2>2
  <2>4. \A i \in 0 .. m : g[i] = f[i] OBVIOUS
  <2>5. g[m + 1] = step[<<m, f[m]>>] OBVIOUS
  <2> HIDE DEF g
  <2>6. ASSUME NEW i \in 0 .. (m + 1) - 1 PROVE g[i + 1] = step[<<i, g[i]>>]
    <3>1. CASE i = m
      <4>1. g[i] = f[m] /\ g[i + 1] = step[<<m, f[m]>>] BY <2>4, <2>5, <3>1
      <4> QED BY <3>1, <4>1
    <3>2. CASE i < m
      <4>1. i \in 0 .. m - 1 /\ i + 1 \in 0 .. m /\ i \in 0 .. m BY <3>2
      <4>2. f[i + 1] = step[<<i, f[i]>>] BY <2>1, <4>1 DEF Follows
      <4>3. g[i] = f[i] /\ g[i + 1] = f[i + 1] BY <2>4, <4>1
      <4> QED BY <4>2, <4>3
    <3> QED BY <3>1, <3>2
  <2>7. g[0] = start BY <2>1, <2>4 DEF Follows
  <2>8. Fits(g, m + 1) BY <2>6, <2>7 DEF Follows
  <2> HIDE DEF Fits
  <2> QED BY <2>3, <2>8
<1> HIDE DEF T
<1>3. n \in T BY <1>1, <1>2, EveryNumber
<1> QED BY <1>3 DEF T
-----------------------------------------------------------------------------
(* Sums.                                                                    *)

(* SumTo adds the numbers of a sequence, one after the other.               *)
LEMMA SumEquations ==
  ASSUME NEW f \in Seq(Nat)
  PROVE  /\ SumTo(f, 0) = 0
         /\ \A k \in 1 .. Len(f) : SumTo(f, k) = SumTo(f, k - 1) + f[k]
         /\ \A k \in 0 .. Len(f) : SumTo(f, k) \in Nat
<1> DEFINE n == Len(f)
           step == [at \in Nat \X Nat |-> IF at[1] < n THEN at[2] + f[at[1] + 1] ELSE 0]
           Rule(g) == [k \in 0 .. Len(f) |-> IF k = 0 THEN 0 ELSE g[k - 1] + f[k]]
           sum == CHOOSE g : g = Rule(g)
<1>1. n \in Nat OBVIOUS
<1>2. \A i \in Nat, a \in Nat : step[<<i, a>>] = IF i < n THEN a + f[i + 1] ELSE 0
  OBVIOUS
<1>3. step \in [Nat \X Nat -> Nat]
  <2>1. ASSUME NEW at \in Nat \X Nat PROVE (IF at[1] < n THEN at[2] + f[at[1] + 1] ELSE 0) \in Nat
    <3>1. at[1] \in Nat /\ at[2] \in Nat OBVIOUS
    <3>2. at[1] < n => at[1] + 1 \in 1 .. n /\ f[at[1] + 1] \in Nat BY <3>1
    <3> QED BY <3>1, <3>2
  <2> QED BY <2>1
<1> HIDE DEF step
<1>5. PICK g \in [0 .. n -> Nat] : Follows(g, 0, step, n)
  BY <1>1, <1>3, ValueAfterValue
<1>6. g = Rule(g)
  <2>1. ASSUME NEW k \in 0 .. n, k # 0 PROVE g[k] = g[k - 1] + f[k]
    <3>1. k - 1 \in 0 .. n - 1 /\ k - 1 \in Nat /\ (k - 1) + 1 = k /\ k - 1 < n
          /\ k - 1 \in 0 .. n
      BY <1>1, <2>1
    <3>2. g[k - 1] \in Nat BY <3>1
    <3>3. g[k] = step[<<k - 1, g[k - 1]>>] BY <1>5, <3>1 DEF Follows
    <3> QED BY <1>2, <3>1, <3>2, <3>3
  <2> QED BY <1>5, <2>1 DEF Follows
<1>7. sum = Rule(sum)
  <2> HIDE DEF Rule
  <2> QED BY <1>6
<1>8. \A k : SumTo(f, k) = sum[k] BY DEF SumTo
<1> HIDE DEF sum
<1>9. sum[0] = 0 /\ \A k \in 1 .. n : sum[k] = sum[k - 1] + f[k]
  <2>1. ASSUME NEW k \in 0 .. n PROVE sum[k] = IF k = 0 THEN 0 ELSE sum[k - 1] + f[k]
    <3>1. sum[k] = Rule(sum)[k] BY <1>7
    <3> QED BY <3>1
  <2> QED BY <1>1, <2>1
<1>10. 0 .. n \subseteq {k \in 0 .. n : sum[k] \in Nat}
  <2> DEFINE T == {k \in 0 .. n : sum[k] \in Nat}
  <2>1. 0 \in T BY <1>1, <1>9
  <2>2. ASSUME NEW i \in 0 .. n - 1, i \in T PROVE i + 1 \in T
    <3>1. i + 1 \in 1 .. n /\ (i + 1) - 1 = i BY <1>1
    <3>2. sum[i + 1] = sum[i] + f[i + 1] /\ f[i + 1] \in Nat BY <1>9, <3>1
    <3> QED BY <2>2, <3>1, <3>2
  <2> HIDE DEF T
  <2> QED BY <1>1, <2>1, <2>2, UpTo DEF T
<1> QED BY <1>8, <1>9, <1>10

(* A longer sequence has the same sums up to where it goes on.              *)
LEMMA SumPrefix ==
  ASSUME NEW f \in Seq(Nat), NEW g \in Seq(Nat), NEW n \in Nat, n <= Len(f), n <= Len(g),
         \A k \in 1 .. n : f[k] = g[k]
  PROVE  \A k \in 0 .. n : SumTo(f, k) = SumTo(g, k)
<1> DEFINE T == {k \in 0 .. n : SumTo(f, k) = SumTo(g, k)}
<1>1. 0 \in T BY SumEquations
<1>2. ASSUME NEW i \in 0 .. n - 1, i \in T PROVE i + 1 \in T
  <2>1. i + 1 \in 1 .. n /\ (i + 1) - 1 = i /\ i + 1 \in 1 .. Len(f) /\ i + 1 \in 1 .. Len(g)
    OBVIOUS
  <2>2. SumTo(f, i + 1) = SumTo(f, i) + f[i + 1] /\ SumTo(g, i + 1) = SumTo(g, i) + g[i + 1]
    BY <2>1, SumEquations
  <2> QED BY <1>2, <2>1, <2>2
<1> HIDE DEF T
<1>3. 0 .. n \subseteq T BY <1>1, <1>2, UpTo
<1> QED BY <1>3 DEF T

(* Sums never fall.                                                         *)
LEMMA SumGrows ==
  ASSUME NEW f \in Seq(Nat), NEW j \in 0 .. Len(f), NEW k \in 0 .. Len(f), j <= k
  PROVE  SumTo(f, j) <= SumTo(f, k)
<1> DEFINE T == {d \in Nat : j + d <= Len(f) => SumTo(f, j) <= SumTo(f, j + d)}
<1>1. 0 \in T BY SumEquations
<1>2. ASSUME NEW d \in Nat, d \in T PROVE d + 1 \in T
  <2>1. SUFFICES ASSUME j + (d + 1) <= Len(f) PROVE SumTo(f, j) <= SumTo(f, j + (d + 1))
    OBVIOUS
  <2>2. j + d + 1 \in 1 .. Len(f) /\ (j + d + 1) - 1 = j + d /\ j + d \in 0 .. Len(f)
        /\ j + (d + 1) = j + d + 1
    BY <2>1
  <2>3. SumTo(f, j + d + 1) = SumTo(f, j + d) + f[j + d + 1] BY <2>2, SumEquations
  <2>4. SumTo(f, j) \in Nat /\ SumTo(f, j + d) \in Nat /\ f[j + d + 1] \in Nat
    BY <2>2, SumEquations, SMTT(30)
  <2>5. SumTo(f, j) <= SumTo(f, j + d) BY <1>2, <2>2
  <2> HIDE DEF T
  <2> QED BY <2>2, <2>3, <2>4, <2>5
<1> HIDE DEF T
<1>3. k - j \in Nat /\ j + (k - j) = k OBVIOUS
<1>4. k - j \in T BY <1>1, <1>2, <1>3, EveryNumber
<1> QED BY <1>3, <1>4 DEF T
-----------------------------------------------------------------------------
(* Sizes and numbers.                                                       *)

(* A padded size is even, and at most one more.                             *)
LEMMA PaddedEven ==
  ASSUME NEW n \in Nat
  PROVE  /\ Padded(n) \in Nat /\ Padded(n) % 2 = 0
         /\ n <= Padded(n) /\ Padded(n) <= n + 1
         /\ Padded(n) = n \/ n % 2 = 1
<1>1. n % 2 = 0 \/ n % 2 = 1 OBVIOUS
<1> QED BY <1>1 DEF Padded

(* The sum of two even numbers is even.                                     *)
LEMMA EvenSum ==
  ASSUME NEW m \in Nat, NEW n \in Nat, m % 2 = 0, n % 2 = 0
  PROVE  (m + n) % 2 = 0
OBVIOUS

(* A number is what its quotient and its remainder make.                    *)
LEMMA DivisionMakes ==
  ASSUME NEW b \in Nat \ {0}, NEW n \in Nat
  PROVE  /\ n \div b \in Nat /\ n % b \in Nat
         /\ n = (n % b) + b * (n \div b)
         /\ \A m \in Nat : n < b * m => n \div b < m
<1>1. n \div b \in Nat /\ n % b \in Nat /\ n = (n % b) + b * (n \div b) OBVIOUS
<1>2. ASSUME NEW m \in Nat, n < b * m PROVE n \div b < m
  <2> DEFINE q == n \div b
  <2>1. q \in Nat /\ b * q <= n BY <1>1
  <2>2. b * q < b * m
    <3>1. b * q \in Nat /\ b * m \in Nat BY <2>1
    <3> HIDE DEF q
    <3> QED BY <1>2, <2>1, <3>1
  <2> HIDE DEF q
  <2>3. q >= m => b * q >= b * m
    <3>1. SUFFICES ASSUME q >= m PROVE b * q >= b * m OBVIOUS
    <3>2. q - m \in Nat /\ q = m + (q - m) BY <2>1, <3>1
    <3>3. b * (q - m) \in Nat BY <3>2
    <3>4. b * q = b * m + b * (q - m) BY <3>2
    <3> QED BY <3>3, <3>4
  <2>4. b * q \in Nat /\ b * m \in Nat BY <2>1
  <2>5. q < m BY <2>1, <2>2, <2>3, <2>4
  <2> QED BY <2>5 DEF q
<1> QED BY <1>1, <1>2

FieldLimit == ByteValues * (ByteValues * (ByteValues * ByteValues))

(* Four bytes hold every number below their limit.                          *)
LEMMA FieldHolds ==
  ASSUME NEW n \in Nat, n < FieldLimit
  PROVE  LEValue(LEBytes(n)) = n /\ LEBytes(n) \in Seq(Nat) /\ Len(LEBytes(n)) = 4
<1> DEFINE B == ByteValues
           q1 == n \div B  q2 == q1 \div B  q3 == q2 \div B
<1>1. B \in Nat \ {0} BY LimitsAssumption
<1> HIDE DEF B
<1>2. q1 \in Nat /\ (n % B) \in Nat /\ n = (n % B) + B * q1 BY <1>1, DivisionMakes
<1>3. q2 \in Nat /\ (q1 % B) \in Nat /\ q1 = (q1 % B) + B * q2 BY <1>1, <1>2, DivisionMakes
<1>4. q3 \in Nat /\ (q2 % B) \in Nat /\ q2 = (q2 % B) + B * q3 BY <1>1, <1>3, DivisionMakes
<1>5. B * B \in Nat /\ B * (B * B) \in Nat BY <1>1
<1>6. n < B * (B * (B * B)) BY DEF FieldLimit, B
<1>7. q1 < B * (B * B) BY <1>1, <1>5, <1>6, DivisionMakes
<1>8. q2 < B * B BY <1>1, <1>2, <1>5, <1>7, DivisionMakes
<1>9. q3 < B BY <1>1, <1>3, <1>8, DivisionMakes
<1>10. q3 % B = q3 BY <1>1, <1>4, <1>9
<1>11. LEBytes(n) = <<n % B, q1 % B, q2 % B, q3 % B>> BY DEF LEBytes, B
<1>12. LEValue(LEBytes(n)) = (n % B) + B * ((q1 % B) + B * ((q2 % B) + B * (q3 % B)))
  BY <1>11 DEF LEValue, B
<1> HIDE DEF q1, q2, q3
<1>13. LEValue(LEBytes(n)) = n BY <1>2, <1>3, <1>4, <1>10, <1>12
<1>14. q3 % B \in Nat BY <1>4, <1>10
<1> QED BY <1>2, <1>3, <1>4, <1>11, <1>13, <1>14

(* Two reversals of the bytes cancel.                                       *)
LEMMA HostOrderTwice ==
  ASSUME NEW b \in Seq(Nat)
  PROVE  HostOrder(HostOrder(b)) = b
<1>1. Reverse(b) = [i \in 1 .. Len(b) |-> b[(Len(b) - i) + 1]] BY DEF Reverse
<1>2. Reverse(b) \in Seq(Nat) /\ Len(Reverse(b)) = Len(b)
  <2>1. \A i \in 1 .. Len(b) : (Len(b) - i) + 1 \in 1 .. Len(b) OBVIOUS
  <2> QED BY <1>1, <2>1
<1>3. Reverse(Reverse(b)) = b
  <2> DEFINE r == Reverse(b)
  <2>1. Reverse(r) = [i \in 1 .. Len(b) |-> r[(Len(b) - i) + 1]] BY <1>2 DEF Reverse
  <2>2. ASSUME NEW i \in 1 .. Len(b) PROVE r[(Len(b) - i) + 1] = b[i]
    <3>1. (Len(b) - i) + 1 \in 1 .. Len(b) /\ (Len(b) - ((Len(b) - i) + 1)) + 1 = i OBVIOUS
    <3> QED BY <1>1, <3>1
  <2>3. b = [i \in 1 .. Len(b) |-> b[i]] OBVIOUS
  <2> HIDE DEF r
  <2>4. Reverse(r) = [i \in 1 .. Len(b) |-> b[i]] BY <2>1, <2>2
  <2> QED BY <2>3, <2>4 DEF r
<1> QED BY <1>3 DEF HostOrder

(* So a number goes through a size field unchanged, on every host.          *)
LEMMA NumbersKept ==
  ASSUME NEW n \in Nat, n < FieldLimit
  PROVE  /\ littleEndianBytesToUInt32(LEBytes(n)) = n
         /\ LEValue(uint32ToLittleEndianBytes(n)) = n
BY FieldHolds, HostOrderTwice DEF littleEndianBytesToUInt32, uint32ToLittleEndianBytes
-----------------------------------------------------------------------------
(* The chunks of the input.                                                 *)

ChunkSizes(wave) == [j \in DOMAIN wave |-> 8 + Padded(wave[j].size)]

(* The chunks of a wave file, and what each takes in it.                    *)
LEMMA WaveChunks ==
  ASSUME NEW wave, WaveFile(wave)
  PROVE  /\ wave \in Seq([id : ChunkIds, size : Nat, code : Nat])
         /\ DOMAIN wave = 1 .. Len(wave) /\ Len(wave) \in Nat
         /\ \A k \in 1 .. Len(wave) : wave[k].id \in ChunkIds /\ wave[k].size \in Nat
         /\ ChunkSizes(wave) \in Seq(Nat) /\ Len(ChunkSizes(wave)) = Len(wave)
         /\ \A k \in 1 .. Len(wave) : ChunkSizes(wave)[k] = 8 + Padded(wave[k].size)
<1>1. wave \in Seq([id : ChunkIds, size : Nat, code : Nat]) BY DEF WaveFile
<1>2. DOMAIN wave = 1 .. Len(wave) /\ Len(wave) \in Nat BY <1>1
<1>3. ASSUME NEW k \in 1 .. Len(wave)
      PROVE  wave[k].id \in ChunkIds /\ wave[k].size \in Nat
  <2>1. wave[k] \in [id : ChunkIds, size : Nat, code : Nat] BY <1>1, ElementOfSeq
  <2> QED BY <2>1
<1>4. ASSUME NEW k \in 1 .. Len(wave) PROVE 8 + Padded(wave[k].size) \in Nat
  <2>1. Padded(wave[k].size) \in Nat BY <1>3, PaddedEven
  <2> QED BY <2>1
<1>5. ChunkSizes(wave) = [j \in 1 .. Len(wave) |-> 8 + Padded(wave[j].size)]
  BY <1>2 DEF ChunkSizes
<1> QED BY <1>1, <1>2, <1>3, <1>4, <1>5

(* Chunks begin at even places, one behind the other.                       *)
LEMMA ChunkPlaces ==
  ASSUME NEW wave, WaveFile(wave)
  PROVE  /\ ChunkStart(wave, 1) = 12
         /\ \A k \in 1 .. Len(wave) :
              ChunkStart(wave, k + 1) = ChunkStart(wave, k) + 8 + Padded(wave[k].size)
         /\ \A k \in 1 .. Len(wave) + 1 :
              ChunkStart(wave, k) \in Nat /\ ChunkStart(wave, k) >= 12
         /\ \A j, k \in 1 .. Len(wave) + 1 : j <= k => ChunkStart(wave, j) <= ChunkStart(wave, k)
         /\ \A j \in 1 .. Len(wave), k \in 1 .. Len(wave) + 1 : j < k =>
              ChunkStart(wave, j) + 8 + Padded(wave[j].size) <= ChunkStart(wave, k)
<1> DEFINE f == ChunkSizes(wave)
<1>1. /\ f \in Seq(Nat) /\ Len(f) = Len(wave) /\ Len(wave) \in Nat
      /\ \A k \in 1 .. Len(wave) : f[k] = 8 + Padded(wave[k].size) /\ wave[k].size \in Nat
  BY WaveChunks
<1>2. \A k : ChunkStart(wave, k) = 12 + SumTo(f, k - 1) BY DEF ChunkStart, ChunkSizes
<1> HIDE DEF f
<1>3. ChunkStart(wave, 1) = 12 BY <1>1, <1>2, SumEquations
<1>4. ASSUME NEW k \in 1 .. Len(wave)
      PROVE  ChunkStart(wave, k + 1) = ChunkStart(wave, k) + 8 + Padded(wave[k].size)
  <2>0. f \in Seq(Nat) /\ k \in 1 .. Len(f) /\ k - 1 \in 0 .. Len(f) BY <1>1
  <2>1. SumTo(f, k) = SumTo(f, k - 1) + f[k] /\ SumTo(f, k - 1) \in Nat
    BY <2>0, SumEquations
  <2>2. (k + 1) - 1 = k OBVIOUS
  <2>3. Padded(wave[k].size) \in Nat BY <1>1, PaddedEven
  <2>4. ChunkStart(wave, k + 1) = 12 + SumTo(f, k) /\ ChunkStart(wave, k) = 12 + SumTo(f, k - 1)
    BY <1>2, <2>2
  <2> QED BY <1>1, <2>1, <2>3, <2>4
<1>5. ASSUME NEW k \in 1 .. Len(wave) + 1
      PROVE  k - 1 \in 0 .. Len(f) /\ ChunkStart(wave, k) \in Nat /\ ChunkStart(wave, k) >= 12
  <2>1. k - 1 \in 0 .. Len(f) BY <1>1
  <2>2. SumTo(f, k - 1) \in Nat BY <1>1, <2>1, SumEquations
  <2>3. ChunkStart(wave, k) = 12 + SumTo(f, k - 1) BY <1>2
  <2> QED BY <2>1, <2>2, <2>3
<1>6. ASSUME NEW j \in 1 .. Len(wave) + 1, NEW k \in 1 .. Len(wave) + 1, j <= k
      PROVE  ChunkStart(wave, j) <= ChunkStart(wave, k)
  <2>1. j - 1 \in 0 .. Len(f) /\ k - 1 \in 0 .. Len(f) /\ j - 1 <= k - 1 BY <1>1, <1>6
  <2>2. SumTo(f, j - 1) <= SumTo(f, k - 1) BY <1>1, <2>1, SumGrows
  <2>3. SumTo(f, j - 1) \in Nat /\ SumTo(f, k - 1) \in Nat BY <1>1, <2>1, SumEquations
  <2> QED BY <1>2, <2>2, <2>3
<1>7. ASSUME NEW j \in 1 .. Len(wave), NEW k \in 1 .. Len(wave) + 1, j < k
      PROVE  ChunkStart(wave, j) + 8 + Padded(wave[j].size) <= ChunkStart(wave, k)
  <2>1. j + 1 \in 1 .. Len(wave) + 1 /\ j + 1 <= k BY <1>1, <1>7
  <2> QED BY <1>4, <1>6, <2>1
<1> QED BY <1>3, <1>4, <1>5, <1>6, <1>7

(* So no two begin at one place, the end comes last, and every size fits    *)
(* its field.                                                               *)
LEMMA ChunksApart ==
  ASSUME NEW wave, WaveFile(wave)
  PROVE  /\ \A j, k \in 1 .. Len(wave) + 1 :
              ChunkStart(wave, j) = ChunkStart(wave, k) => j = k
         /\ \A k \in 1 .. Len(wave) + 1 :
              ChunkStart(wave, k) >= ChunkStart(wave, Len(wave) + 1) => k = Len(wave) + 1
         /\ \A k \in 1 .. Len(wave) : wave[k].size < FieldLimit
<1>1. Len(wave) \in Nat /\ \A k \in 1 .. Len(wave) : wave[k].size \in Nat BY WaveChunks
<1>2. \A k \in 1 .. Len(wave) : Padded(wave[k].size) \in Nat /\ wave[k].size <= Padded(wave[k].size)
  BY <1>1, PaddedEven
<1>3. ASSUME NEW j \in 1 .. Len(wave) + 1, NEW k \in 1 .. Len(wave) + 1, j < k
      PROVE  ChunkStart(wave, j) < ChunkStart(wave, k)
  <2>1. j \in 1 .. Len(wave) BY <1>1, <1>3
  <2>2. ChunkStart(wave, j) + 8 + Padded(wave[j].size) <= ChunkStart(wave, k)
    BY <1>3, <2>1, ChunkPlaces
  <2>3. ChunkStart(wave, j) \in Nat /\ ChunkStart(wave, k) \in Nat BY ChunkPlaces
  <2> QED BY <1>2, <2>1, <2>2, <2>3
<1>4. \A k \in 1 .. Len(wave) + 1 : ChunkStart(wave, k) \in Nat BY ChunkPlaces
<1>5. ASSUME NEW j \in 1 .. Len(wave) + 1, NEW k \in 1 .. Len(wave) + 1,
             ChunkStart(wave, j) = ChunkStart(wave, k)
      PROVE  j = k
  <2>1. ~ j < k /\ ~ k < j BY <1>3, <1>4, <1>5
  <2> QED BY <1>1, <2>1
<1>6. ASSUME NEW k \in 1 .. Len(wave) + 1,
             ChunkStart(wave, k) >= ChunkStart(wave, Len(wave) + 1)
      PROVE  k = Len(wave) + 1
  <2>1. Len(wave) + 1 \in 1 .. Len(wave) + 1 BY <1>1
  <2>2. ~ k < Len(wave) + 1 BY <1>3, <1>4, <1>6, <2>1
  <2> QED BY <1>1, <2>2
<1>7. ASSUME NEW k \in 1 .. Len(wave) PROVE wave[k].size < FieldLimit
  <2>1. Len(wave) + 1 \in 1 .. Len(wave) + 1 /\ k < Len(wave) + 1 BY <1>1
  <2>2. ChunkStart(wave, k) + 8 + Padded(wave[k].size) <= ChunkStart(wave, Len(wave) + 1)
    BY <2>1, ChunkPlaces
  <2>3. ChunkStart(wave, Len(wave) + 1) + 12 + 24 * MaxLocations < FieldLimit
    BY DEF WaveFile, FieldLimit
  <2>4. MaxLocations \in Nat /\ FieldLimit \in Nat
    <3>1. ByteValues \in Nat /\ MaxLocations \in Nat BY LimitsAssumption
    <3>2. ByteValues * ByteValues \in Nat BY <3>1
    <3>3. ByteValues * (ByteValues * ByteValues) \in Nat BY <3>1, <3>2
    <3> QED BY <3>1, <3>3 DEF FieldLimit
  <2>5. ChunkStart(wave, k) \in Nat /\ ChunkStart(wave, Len(wave) + 1) \in Nat BY <1>4, <2>1
  <2> HIDE DEF FieldLimit
  <2>6. \A a, b, c, d, e, f \in Nat :
          a + 8 + d <= b /\ b + 12 + e < f /\ c <= d => c < f
    OBVIOUS
  <2>7. 24 * MaxLocations \in Nat BY <2>4
  <2>8. wave[k].size \in Nat /\ Padded(wave[k].size) \in Nat /\ wave[k].size <= Padded(wave[k].size)
    BY <1>1, <1>2
  <2> QED BY <2>2, <2>3, <2>4, <2>5, <2>6, <2>7, <2>8, Zenon
<1> QED BY <1>5, <1>6, <1>7
-----------------------------------------------------------------------------
(* The lines of the markers file.                                           *)

(* The digits up to a place are those before it, and it if it is one.       *)
LEMMA DigitsEquations ==
  ASSUME NEW text \in Seq(Nat), NEW s \in 1 .. Len(text) + 1
  PROVE  /\ \A e \in 0 .. Len(text) : DigitsBetween(text, s, e) \in Seq(Nat)
         /\ DigitsBetween(text, s, s - 1) = <<>>
         /\ \A e \in s .. Len(text) :
              DigitsBetween(text, s, e) =
                IF IsDigit(text[e]) THEN Append(DigitsBetween(text, s, e - 1), text[e])
                ELSE DigitsBetween(text, s, e - 1)
<1> DEFINE n == Len(text)
           A == Seq(Nat)
           Grown(i, a) == IF i + 1 < s \/ i >= n THEN <<>>
                          ELSE IF IsDigit(text[i + 1]) THEN Append(a, text[i + 1]) ELSE a
           step == [at \in Nat \X A |-> Grown(at[1], at[2])]
           Rule(g) == [k \in 0 .. Len(text) |->
                         IF k < s THEN <<>>
                         ELSE IF IsDigit(text[k]) THEN Append(g[k - 1], text[k])
                         ELSE g[k - 1]]
           digits == CHOOSE g : g = Rule(g)
<1>1. n \in Nat /\ <<>> \in A OBVIOUS
<1>2. ASSUME NEW i \in Nat, NEW a \in A PROVE Grown(i, a) \in A
  <2>1. CASE i + 1 < s \/ i >= n BY <1>1, <2>1
  <2>2. CASE ~ (i + 1 < s \/ i >= n)
    <3>1. i + 1 \in 1 .. n BY <1>1, <2>2
    <3>2. text[i + 1] \in Nat BY <3>1
    <3>3. Append(a, text[i + 1]) \in A BY <3>2
    <3> QED BY <2>2, <3>3
  <2> QED BY <2>1, <2>2
<1> HIDE DEF Grown, A
<1>3. \A i \in Nat, a \in A : step[<<i, a>>] = Grown(i, a) OBVIOUS
<1>4. step \in [Nat \X A -> A] BY <1>2
<1> HIDE DEF step
<1>5. PICK g \in [0 .. n -> A] : Follows(g, <<>>, step, n)
  BY <1>1, <1>4, ValueAfterValue
<1>6. ASSUME NEW k \in 0 .. n, k # 0
      PROVE  g[k] = IF k < s THEN <<>>
                    ELSE IF IsDigit(text[k]) THEN Append(g[k - 1], text[k]) ELSE g[k - 1]
  <2>1. k - 1 \in 0 .. n - 1 /\ k - 1 \in Nat /\ (k - 1) + 1 = k /\ k - 1 < n
        /\ k - 1 \in 0 .. n
    BY <1>1, <1>6
  <2>2. g[k - 1] \in A BY <2>1
  <2>3. g[k] = step[<<k - 1, g[k - 1]>>] BY <1>5, <2>1 DEF Follows
  <2>4. g[k] = Grown(k - 1, g[k - 1]) BY <1>3, <2>1, <2>2, <2>3
  <2>5. ~ (k - 1 >= n) BY <1>1, <2>1
  <2> QED BY <2>1, <2>4, <2>5 DEF Grown
<1>7. g = Rule(g)
  <2>1. 0 < s /\ g[0] = <<>> BY <1>5 DEF Follows
  <2>2. ASSUME NEW k \in 0 .. n
        PROVE  g[k] = IF k < s THEN <<>>
                      ELSE IF IsDigit(text[k]) THEN Append(g[k - 1], text[k]) ELSE g[k - 1]
    BY <1>6, <2>1
  <2> QED BY <2>2
<1>8. digits = Rule(digits)
  <2> HIDE DEF Rule
  <2> QED BY <1>7
<1>9. \A k : DigitsBetween(text, s, k) = digits[k] BY DEF DigitsBetween
<1> HIDE DEF digits
<1>10. ASSUME NEW k \in 0 .. n
       PROVE  digits[k] = IF k < s THEN <<>>
                          ELSE IF IsDigit(text[k]) THEN Append(digits[k - 1], text[k])
                          ELSE digits[k - 1]
  <2>1. digits[k] = Rule(digits)[k] BY <1>8
  <2> QED BY <2>1
<1>11. 0 .. n \subseteq {k \in 0 .. n : digits[k] \in A}
  <2> DEFINE T == {k \in 0 .. n : digits[k] \in A}
  <2>1. 0 \in T
    <3>1. 0 \in 0 .. n /\ 0 < s BY <1>1
    <3> QED BY <1>1, <1>10, <3>1
  <2>2. ASSUME NEW i \in 0 .. n - 1, i \in T PROVE i + 1 \in T
    <3>1. i + 1 \in 1 .. n /\ i + 1 \in 0 .. n /\ (i + 1) - 1 = i BY <1>1
    <3>2. text[i + 1] \in Nat BY <3>1
    <3>3. digits[i] \in A BY <2>2
    <3>4. Append(digits[i], text[i + 1]) \in A BY <3>2, <3>3 DEF A
    <3>5. digits[i + 1] \in A BY <1>1, <1>10, <3>1, <3>3, <3>4
    <3> QED BY <3>1, <3>5
  <2> HIDE DEF T
  <2>3. 0 .. n \subseteq T BY <1>1, <2>1, <2>2, UpTo
  <2> QED BY <2>3 DEF T
<1>12. digits[s - 1] = <<>>
  <2>1. s - 1 \in 0 .. n /\ s - 1 < s BY <1>1
  <2> QED BY <1>10, <2>1
<1>13. ASSUME NEW e \in s .. n
       PROVE  digits[e] = IF IsDigit(text[e]) THEN Append(digits[e - 1], text[e])
                          ELSE digits[e - 1]
  <2>1. e \in 0 .. n /\ ~ (e < s) BY <1>1
  <2> QED BY <1>10, <2>1
<1> QED BY <1>9, <1>11, <1>12, <1>13 DEF A

(* The values up to a place are those before it, and one more if a line     *)
(* with a value begins there.                                               *)
Numbers(text) == {strtol(LineDigits(text, k)) : k \in Nat}

(* ValuesUpTo, from one place of the text to the next.                      *)
LEMMA ValuesEquations ==
  ASSUME NEW text \in Seq(Nat)
  PROVE  /\ ValuesUpTo(UINT32_MAX, text, 0) = <<>>
         /\ \A p \in 0 .. Len(text) + 1 : ValuesUpTo(UINT32_MAX, text, p) \in Seq(Numbers(text))
         /\ \A p \in 1 .. Len(text) + 1 :
              ValuesUpTo(UINT32_MAX, text, p) =
                IF LineHasValue(UINT32_MAX, text, p)
                  THEN Append(ValuesUpTo(UINT32_MAX, text, p - 1), strtol(LineDigits(text, p)))
                ELSE ValuesUpTo(UINT32_MAX, text, p - 1)
<1> DEFINE n == Len(text) + 1
           A == Seq(Numbers(text))
           Grown(i, a) == IF LineHasValue(UINT32_MAX, text, i + 1)
                            THEN Append(a, strtol(LineDigits(text, i + 1))) ELSE a
           step == [at \in Nat \X A |-> Grown(at[1], at[2])]
           Rule(g) == [k \in 0 .. Len(text) + 1 |->
                         IF k = 0 THEN <<>>
                         ELSE IF LineHasValue(UINT32_MAX, text, k)
                           THEN Append(g[k - 1], strtol(LineDigits(text, k)))
                         ELSE g[k - 1]]
           values == CHOOSE g : g = Rule(g)
<1>1. n \in Nat /\ <<>> \in A OBVIOUS
<1>2. ASSUME NEW i \in Nat, NEW a \in A PROVE Grown(i, a) \in A
  <2>1. strtol(LineDigits(text, i + 1)) \in Numbers(text) BY DEF Numbers
  <2>2. Append(a, strtol(LineDigits(text, i + 1))) \in A BY <2>1
  <2> QED BY <2>2
<1> HIDE DEF Grown, A
<1>3. \A i \in Nat, a \in A : step[<<i, a>>] = Grown(i, a) OBVIOUS
<1>4. step \in [Nat \X A -> A] BY <1>2
<1> HIDE DEF step
<1>5. PICK g \in [0 .. n -> A] : Follows(g, <<>>, step, n)
  BY <1>1, <1>4, ValueAfterValue
<1>6. ASSUME NEW k \in 0 .. n, k # 0
      PROVE  g[k] = IF LineHasValue(UINT32_MAX, text, k)
                      THEN Append(g[k - 1], strtol(LineDigits(text, k))) ELSE g[k - 1]
  <2>1. k - 1 \in 0 .. n - 1 /\ k - 1 \in Nat /\ (k - 1) + 1 = k /\ k - 1 \in 0 .. n
    BY <1>1, <1>6
  <2>2. g[k - 1] \in A BY <2>1
  <2>3. g[k] = step[<<k - 1, g[k - 1]>>] BY <1>5, <2>1 DEF Follows
  <2>4. g[k] = Grown(k - 1, g[k - 1]) BY <1>3, <2>1, <2>2, <2>3
  <2> QED BY <2>1, <2>4 DEF Grown
<1>7. g = Rule(g)
  <2>1. g[0] = <<>> BY <1>5 DEF Follows
  <2> QED BY <1>6, <2>1
<1>8. values = Rule(values)
  <2> HIDE DEF Rule
  <2> QED BY <1>7
<1>9. \A k : ValuesUpTo(UINT32_MAX, text, k) = values[k] BY DEF ValuesUpTo
<1> HIDE DEF values
<1>10. ASSUME NEW k \in 0 .. n
       PROVE  values[k] = IF k = 0 THEN <<>>
                          ELSE IF LineHasValue(UINT32_MAX, text, k)
                            THEN Append(values[k - 1], strtol(LineDigits(text, k)))
                          ELSE values[k - 1]
  <2>1. values[k] = Rule(values)[k] BY <1>8
  <2> QED BY <2>1
<1>11. 0 .. n \subseteq {k \in 0 .. n : values[k] \in A}
  <2> DEFINE T == {k \in 0 .. n : values[k] \in A}
  <2>1. 0 \in T BY <1>1, <1>10
  <2>2. ASSUME NEW i \in 0 .. n - 1, i \in T PROVE i + 1 \in T
    <3>1. i + 1 \in 0 .. n /\ i + 1 # 0 /\ (i + 1) - 1 = i /\ i \in Nat BY <1>1
    <3>2. Grown(i, values[i]) \in A BY <1>2, <2>2, <3>1
    <3>3. values[i + 1] = Grown(i, values[i]) BY <1>10, <3>1 DEF Grown
    <3> QED BY <3>1, <3>2, <3>3
  <2> HIDE DEF T
  <2>3. 0 .. n \subseteq T BY <1>1, <2>1, <2>2, UpTo
  <2> QED BY <2>3 DEF T
<1>12. values[0] = <<>> BY <1>1, <1>10
<1>13. ASSUME NEW p \in 1 .. n
       PROVE  values[p] = IF LineHasValue(UINT32_MAX, text, p)
                            THEN Append(values[p - 1], strtol(LineDigits(text, p)))
                          ELSE values[p - 1]
  <2>1. p \in 0 .. n /\ p # 0 BY <1>1
  <2> QED BY <1>10, <2>1
<1> QED BY <1>9, <1>11, <1>12, <1>13 DEF A

(* Of a line, only so many digits count.                                    *)
FirstDigits(d) == SubSeq(d, 1, Min({Len(d), MaxDigits}))

(* One more digit counts as long as there are fewer than MaxDigits.         *)
LEMMA FirstDigitsGrow ==
  /\ FirstDigits(<<>>) = <<>>
  /\ \A d \in Seq(Nat), c \in Nat :
       FirstDigits(Append(d, c)) =
         IF Len(FirstDigits(d)) < MaxDigits THEN Append(FirstDigits(d), c)
         ELSE FirstDigits(d)
<1>1. MaxDigits \in Nat BY LimitsAssumption
<1>2. ASSUME NEW m \in Nat PROVE Min({m, MaxDigits}) = IF m < MaxDigits THEN m ELSE MaxDigits
  <2>1. {m, MaxDigits} \subseteq Nat /\ {m, MaxDigits} # {} BY <1>1
  <2>2. Min({m, MaxDigits}) \in {m, MaxDigits} /\ \A n \in {m, MaxDigits} : Min({m, MaxDigits}) <= n
    BY <2>1, MinOf
  <2> QED BY <1>1, <2>2
<1>3. FirstDigits(<<>>) = <<>>
  <2>1. Min({0, MaxDigits}) = 0 BY <1>1, <1>2
  <2>2. Len(<<>>) = 0 OBVIOUS
  <2>3. FirstDigits(<<>>) = SubSeq(<<>>, 1, 0) BY <2>1, <2>2 DEF FirstDigits
  <2> QED BY <2>3
<1>4. ASSUME NEW d \in Seq(Nat), NEW c \in Nat
      PROVE  FirstDigits(Append(d, c)) =
               IF Len(FirstDigits(d)) < MaxDigits THEN Append(FirstDigits(d), c)
               ELSE FirstDigits(d)
  <2>1. Append(d, c) \in Seq(Nat) /\ Len(Append(d, c)) = Len(d) + 1 /\ Len(d) \in Nat OBVIOUS
  <2>2. CASE Len(d) < MaxDigits
    <3>1. Min({Len(d), MaxDigits}) = Len(d) BY <1>2, <2>1, <2>2
    <3>2. Min({Len(d) + 1, MaxDigits}) = Len(d) + 1 BY <1>1, <1>2, <2>1, <2>2
    <3>3. FirstDigits(d) = SubSeq(d, 1, Len(d)) BY <3>1 DEF FirstDigits
    <3>4. FirstDigits(d) = d BY <3>3
    <3>5. FirstDigits(Append(d, c)) = SubSeq(Append(d, c), 1, Len(d) + 1)
      BY <2>1, <3>2 DEF FirstDigits
    <3>6. FirstDigits(Append(d, c)) = Append(d, c) BY <2>1, <3>5
    <3> QED BY <2>2, <3>4, <3>6
  <2>3. CASE ~ (Len(d) < MaxDigits)
    <3>1. Min({Len(d), MaxDigits}) = MaxDigits BY <1>2, <2>1, <2>3
    <3>2. Min({Len(d) + 1, MaxDigits}) = MaxDigits BY <1>1, <1>2, <2>1, <2>3
    <3>3. FirstDigits(d) = SubSeq(d, 1, MaxDigits) BY <3>1 DEF FirstDigits
    <3>4. FirstDigits(Append(d, c)) = SubSeq(Append(d, c), 1, MaxDigits)
      BY <2>1, <3>2 DEF FirstDigits
    <3>5. MaxDigits <= Len(d) BY <1>1, <2>1, <2>3
    <3>6. SubSeq(Append(d, c), 1, MaxDigits) = SubSeq(d, 1, MaxDigits) BY <1>1, <2>1, <3>5
    <3>7. Len(SubSeq(d, 1, MaxDigits)) = MaxDigits BY <1>1, <3>5
    <3>8. FirstDigits(Append(d, c)) = FirstDigits(d) BY <3>3, <3>4, <3>6, Zenon
    <3>9. Len(FirstDigits(d)) = MaxDigits BY <3>3, <3>7, Zenon
    <3> QED BY <1>1, <3>8, <3>9
  <2> QED BY <2>2, <2>3
<1> QED BY <1>3, <1>4

(* A line begins at the first place and behind every line ending.           *)
LEMMA LineStartsIn ==
  ASSUME NEW text \in Seq(Nat), NEW s
  PROVE  s \in LineStarts(text) <=>
           s = 1 \/ (s \in 2 .. Len(text) + 1 /\ text[s - 1] \in {CR, LF})
<1>1. DOMAIN text = 1 .. Len(text) /\ Len(text) \in Nat OBVIOUS
<1>2. ASSUME NEW k \in 1 .. Len(text) PROVE k + 1 \in 2 .. Len(text) + 1 /\ (k + 1) - 1 = k
  BY <1>1
<1>3. ASSUME s \in 2 .. Len(text) + 1 PROVE s - 1 \in 1 .. Len(text) /\ (s - 1) + 1 = s
  BY <1>1, <1>3
<1> QED BY <1>1, <1>2, <1>3 DEF LineStarts

(* A line ends where its first line ending is, or at the end of the file.   *)
LEMMA LineEndIs ==
  ASSUME NEW text \in Seq(Nat), NEW s \in 1 .. Len(text) + 1, NEW p \in s .. Len(text) + 1,
         \A k \in s .. p - 1 : text[k] \notin {CR, LF},
         p <= Len(text) => text[p] \in {CR, LF}
  PROVE  LineEnd(text, s) = p
<1> DEFINE E == {k \in s .. Len(text) : text[k] \in {CR, LF}} \cup {Len(text) + 1}
<1>1. E \subseteq Nat /\ E # {} OBVIOUS
<1>2. p \in E OBVIOUS
<1>3. \A k \in E : ~ k < p OBVIOUS
<1>4. p \in Nat OBVIOUS
<1>5. LineEnd(text, s) = Min(E) BY DEF LineEnd
<1> HIDE DEF E
<1>6. Min(E) \in E /\ \A n \in E : Min(E) <= n BY <1>1, MinOf
<1>7. Min(E) <= p /\ ~ Min(E) < p /\ Min(E) \in Nat BY <1>1, <1>2, <1>3, <1>6
<1> QED BY <1>4, <1>5, <1>7

(* Where no line with a value begins, the values stay; they never get fewer.*)
LEMMA ValuesStay ==
  ASSUME NEW text \in Seq(Nat), NEW a \in 0 .. Len(text) + 1, NEW b \in a .. Len(text) + 1,
         \A k \in a + 1 .. b : ~ LineHasValue(UINT32_MAX, text, k)
  PROVE  ValuesUpTo(UINT32_MAX, text, b) = ValuesUpTo(UINT32_MAX, text, a)
<1> DEFINE T == {d \in Nat : a + d <= b => ValuesUpTo(UINT32_MAX, text, a + d) = ValuesUpTo(UINT32_MAX, text, a)}
<1>1. 0 \in T OBVIOUS
<1>2. ASSUME NEW d \in Nat, d \in T PROVE d + 1 \in T
  <2>1. SUFFICES ASSUME a + (d + 1) <= b PROVE ValuesUpTo(UINT32_MAX, text, a + (d + 1)) = ValuesUpTo(UINT32_MAX, text, a)
    OBVIOUS
  <2>2. a + (d + 1) \in 1 .. Len(text) + 1 /\ (a + (d + 1)) - 1 = a + d
        /\ a + (d + 1) \in a + 1 .. b
    BY <2>1
  <2>3. ValuesUpTo(UINT32_MAX, text, a + (d + 1)) = ValuesUpTo(UINT32_MAX, text, a + d) BY <2>2, ValuesEquations
  <2>4. ValuesUpTo(UINT32_MAX, text, a + d) = ValuesUpTo(UINT32_MAX, text, a) BY <1>2, <2>1
  <2> QED BY <2>3, <2>4
<1> HIDE DEF T
<1>3. b - a \in Nat /\ a + (b - a) = b OBVIOUS
<1>4. b - a \in T BY <1>1, <1>2, <1>3, EveryNumber
<1>5. a + (b - a) <= b OBVIOUS
<1> QED BY <1>3, <1>4, <1>5 DEF T

(* No value is lost as the text goes on.                                    *)
LEMMA ValuesGrow ==
  ASSUME NEW text \in Seq(Nat), NEW a \in 0 .. Len(text) + 1
  PROVE  Len(ValuesUpTo(UINT32_MAX, text, Len(text) + 1)) >= Len(ValuesUpTo(UINT32_MAX, text, a))
<1> DEFINE L(p) == Len(ValuesUpTo(UINT32_MAX, text, p))
           T == {d \in Nat : a + d <= Len(text) + 1 => L(a + d) >= L(a)}
<1>0. \A p \in 0 .. Len(text) + 1 : L(p) \in Nat BY ValuesEquations
<1>1. 0 \in T BY <1>0
<1>2. ASSUME NEW d \in Nat, d \in T PROVE d + 1 \in T
  <2>1. SUFFICES ASSUME a + (d + 1) <= Len(text) + 1 PROVE L(a + (d + 1)) >= L(a) OBVIOUS
  <2>2. a + (d + 1) \in 1 .. Len(text) + 1 /\ (a + (d + 1)) - 1 = a + d
        /\ a + d \in 0 .. Len(text) + 1
    BY <2>1
  <2> DEFINE v == ValuesUpTo(UINT32_MAX, text, a + d)
  <2>3. v \in Seq(Numbers(text)) BY <2>2, ValuesEquations
  <2>4. \/ ValuesUpTo(UINT32_MAX, text, a + (d + 1)) = v
        \/ ValuesUpTo(UINT32_MAX, text, a + (d + 1)) = Append(v, strtol(LineDigits(text, a + (d + 1))))
    BY <2>2, ValuesEquations
  <2>5. L(a + d) >= L(a) BY <1>2, <2>2
  <2> HIDE DEF v
  <2>6. L(a + (d + 1)) = Len(v) \/ L(a + (d + 1)) = Len(v) + 1 BY <2>3, <2>4
  <2>7. L(a + d) = Len(v) /\ Len(v) \in Nat /\ L(a) \in Nat BY <1>0, <2>3 DEF v
  <2> HIDE DEF L
  <2> QED BY <2>5, <2>6, <2>7
<1> HIDE DEF T
<1>3. (Len(text) + 1) - a \in Nat /\ a + ((Len(text) + 1) - a) = Len(text) + 1 OBVIOUS
<1>4. (Len(text) + 1) - a \in T BY <1>1, <1>2, <1>3, EveryNumber
<1>5. a + ((Len(text) + 1) - a) <= Len(text) + 1 OBVIOUS
<1> HIDE DEF L
<1>6. L(Len(text) + 1) >= L(a) BY <1>3, <1>4, <1>5 DEF T
<1> QED BY <1>6 DEF L

(* Place p is in the line that begins at s.                                 *)
InLine(text, s, p) ==
  /\ s \in LineStarts(text) /\ s \in 1 .. p
  /\ \A k \in s .. p - 1 : text[k] \notin {CR, LF}

(* At the end of a line its value counts, and no other line with a value    *)
(* begins before the place where the code goes on.                          *)
LEMMA LineEnds ==
  ASSUME NEW text \in Seq(Nat), NEW p \in 1 .. Len(text) + 1, NEW s \in 1 .. p,
         InLine(text, s, p), p <= Len(text) => text[p] \in {CR, LF}
  PROVE  /\ LineDigits(text, s) = FirstDigits(DigitsBetween(text, s, p - 1))
         /\ ValuesUpTo(UINT32_MAX, text, p) =
              IF LineDigits(text, s) # <<>> /\ strtol(LineDigits(text, s)) < UINT32_MAX
                THEN Append(ValuesUpTo(UINT32_MAX, text, s - 1), strtol(LineDigits(text, s)))
              ELSE ValuesUpTo(UINT32_MAX, text, s - 1)
         /\ p < Len(text) /\ text[p] = CR /\ text[p + 1] = LF =>
              ValuesUpTo(UINT32_MAX, text, p + 1) = ValuesUpTo(UINT32_MAX, text, p)
<1>1. s \in 1 .. Len(text) + 1 /\ p \in s .. Len(text) + 1 OBVIOUS
<1>2. LineEnd(text, s) = p BY <1>1, LineEndIs DEF InLine
<1>3. LineDigits(text, s) = FirstDigits(DigitsBetween(text, s, p - 1))
  BY <1>2 DEF LineDigits, FirstDigits
<1>4. \A k \in s + 1 .. p : ~ LineHasValue(UINT32_MAX, text, k)
  <2> SUFFICES ASSUME NEW k \in s + 1 .. p PROVE k \notin LineStarts(text)
    BY DEF LineHasValue
  <2>1. k # 1 /\ k - 1 \in s .. p - 1 BY <1>1
  <2>2. text[k - 1] \notin {CR, LF} BY <2>1 DEF InLine
  <2> QED BY <2>1, <2>2, LineStartsIn
<1>5. ValuesUpTo(UINT32_MAX, text, p) = ValuesUpTo(UINT32_MAX, text, s)
  <2>1. s \in 0 .. Len(text) + 1 BY <1>1
  <2> QED BY <1>1, <1>4, <2>1, ValuesStay
<1>6. ValuesUpTo(UINT32_MAX, text, s) =
        IF LineDigits(text, s) # <<>> /\ strtol(LineDigits(text, s)) < UINT32_MAX
          THEN Append(ValuesUpTo(UINT32_MAX, text, s - 1), strtol(LineDigits(text, s)))
        ELSE ValuesUpTo(UINT32_MAX, text, s - 1)
  <2>1. LineHasValue(UINT32_MAX, text, s) <=>
          LineDigits(text, s) # <<>> /\ strtol(LineDigits(text, s)) < UINT32_MAX
    BY DEF LineHasValue, InLine
  <2>2. ValuesUpTo(UINT32_MAX, text, s) =
          IF LineHasValue(UINT32_MAX, text, s)
            THEN Append(ValuesUpTo(UINT32_MAX, text, s - 1), strtol(LineDigits(text, s)))
          ELSE ValuesUpTo(UINT32_MAX, text, s - 1)
    BY <1>1, ValuesEquations
  <2> QED BY <2>1, <2>2, Zenon
<1>7. ASSUME p < Len(text), text[p + 1] = LF
      PROVE  ValuesUpTo(UINT32_MAX, text, p + 1) = ValuesUpTo(UINT32_MAX, text, p)
  <2>1. p + 1 \in 1 .. Len(text) + 1 /\ p + 1 \in p + 1 .. Len(text) + 1 /\ (p + 1) - 1 = p
    BY <1>7
  <2>2. LineEnd(text, p + 1) = p + 1
    <3>1. \A k \in p + 1 .. (p + 1) - 1 : text[k] \notin {CR, LF} OBVIOUS
    <3> QED BY <1>7, <2>1, <3>1, LineEndIs
  <2>3. DigitsBetween(text, p + 1, p) = <<>> BY <2>1, DigitsEquations
  <2>4. LineDigits(text, p + 1) = FirstDigits(<<>>) BY <2>1, <2>2, <2>3 DEF LineDigits, FirstDigits
  <2>5. ~ LineHasValue(UINT32_MAX, text, p + 1) BY <2>4, FirstDigitsGrow DEF LineHasValue
  <2>6. ValuesUpTo(UINT32_MAX, text, p + 1) =
          IF LineHasValue(UINT32_MAX, text, p + 1)
            THEN Append(ValuesUpTo(UINT32_MAX, text, (p + 1) - 1), strtol(LineDigits(text, p + 1)))
          ELSE ValuesUpTo(UINT32_MAX, text, (p + 1) - 1)
    BY <2>1, ValuesEquations
  <2> QED BY <2>1, <2>5, <2>6
<1> QED BY <1>3, <1>5, <1>6, <1>7
-----------------------------------------------------------------------------
(* The markers file is read line by line.                                   *)

(* What has been read of the markers file: whole lines, and the line that   *)
(* begins at s up to where the program reads.                               *)
MarksUpTo(s) ==
  /\ InLine(cue_text, s, cue_pos)
  /\ cueLocationString = FirstDigits(DigitsBetween(cue_text, s, cue_pos - 1))
  /\ cueLocations = ValuesUpTo(UINT32_MAX, cue_text, s - 1)

MarksIInv ==
  /\ cue_pc \in {"start", "chunks", "markers", "write", "finished", "failed", "overrun"}
  /\ cue_pc # "start" => cue_text \in Seq(Nat)
  /\ cue_pc \in {"start", "chunks"} => cueLocationString = <<>> /\ cueLocations = <<>>
  /\ cue_pc = "markers" =>
       /\ cue_pos \in 1 .. Len(cue_text) + 1
       /\ \E s \in 1 .. cue_pos : MarksUpTo(s)
  /\ cue_pc \in {"write", "finished"} => cueLocations = ValuesBelow(UINT32_MAX)
  /\ cue_pc = "overrun" => Len(ValuesBelow(UINT32_MAX)) > MaxLocations
  /\ cueLocations \in Seq(Numbers(cue_text))
  /\ cue_pc # "overrun" => Len(cueLocations) <= MaxLocations

(* MarksIInv holds at the start.                                            *)
LEMMA MarksInit == CueInit => MarksIInv
<1> SUFFICES ASSUME CueInit PROVE MarksIInv OBVIOUS
<1>1. cueLocations = <<>> /\ <<>> \in Seq(Numbers(cue_text)) /\ Len(<<>>) = 0 BY DEF CueInit
<1>2. MaxLocations \in Nat BY LimitsAssumption
<1> QED BY <1>1, <1>2 DEF CueInit, MarksIInv

(* A character that ends no line adds to the line in progress.              *)
LEMMA MarksCharacter ==
  ASSUME MarksIInv, cue_reads_character PROVE MarksIInv'
<1>1. /\ cue_pc = "markers" /\ cue_pos <= Len(cue_text)
      /\ cue_text[cue_pos] \notin {CR, LF}
      /\ cueLocationString' =
           IF IsDigit(cue_text[cue_pos]) /\ Len(cueLocationString) < MaxDigits
             THEN Append(cueLocationString, cue_text[cue_pos]) ELSE cueLocationString
      /\ cue_pos' = cue_pos + 1
      /\ cue_text' = cue_text /\ cue_pc' = cue_pc /\ cueLocations' = cueLocations
  BY DEF cue_reads_character, cue_inputs
<1>2. cue_text \in Seq(Nat) /\ cue_pos \in 1 .. Len(cue_text) BY <1>1 DEF MarksIInv
<1>3. PICK s \in 1 .. cue_pos : MarksUpTo(s) BY <1>1 DEF MarksIInv
<1> DEFINE d == DigitsBetween(cue_text, s, cue_pos - 1)
           c == cue_text[cue_pos]
<1>4. s \in 1 .. Len(cue_text) + 1 /\ cue_pos \in s .. Len(cue_text)
      /\ cue_pos - 1 \in 0 .. Len(cue_text)
  BY <1>2, <1>3
<1>5. d \in Seq(Nat) /\ c \in Nat
  <2>1. d \in Seq(Nat) BY <1>2, <1>4, DigitsEquations
  <2> HIDE DEF d
  <2>2. c \in Nat BY <1>2
  <2> QED BY <2>1, <2>2
<1>6. DigitsBetween(cue_text, s, cue_pos) = IF IsDigit(c) THEN Append(d, c) ELSE d
  BY <1>2, <1>4, DigitsEquations
<1>7. FirstDigits(Append(d, c)) =
        IF Len(FirstDigits(d)) < MaxDigits THEN Append(FirstDigits(d), c) ELSE FirstDigits(d)
  BY <1>5, FirstDigitsGrow
<1>8. cueLocationString = FirstDigits(d) BY <1>3 DEF MarksUpTo
<1> HIDE DEF d
<1>9. cueLocationString' = FirstDigits(DigitsBetween(cue_text, s, cue_pos))
  BY <1>1, <1>6, <1>7, <1>8, Zenon
<1>10. InLine(cue_text, s, cue_pos + 1)
  <2>1. InLine(cue_text, s, cue_pos) BY <1>3 DEF MarksUpTo
  <2>2. s \in 1 .. cue_pos + 1 /\ \A k \in s .. (cue_pos + 1) - 1 : k \in s .. cue_pos - 1 \/ k = cue_pos
    BY <1>4
  <2> QED BY <1>1, <2>1, <2>2 DEF InLine
<1>11. MarksUpTo(s)'
  <2>1. (cue_pos + 1) - 1 = cue_pos BY <1>2
  <2>2. cueLocations = ValuesUpTo(UINT32_MAX, cue_text, s - 1) BY <1>3 DEF MarksUpTo
  <2> QED BY <1>1, <1>9, <1>10, <2>1, <2>2 DEF MarksUpTo
<1>12. cue_pos + 1 \in 1 .. Len(cue_text) + 1 /\ s \in 1 .. cue_pos + 1 BY <1>2, <1>4
<1>13. \E k \in 1 .. cue_pos' : MarksUpTo(k)' BY <1>1, <1>11, <1>12
<1>14. cueLocations' \in Seq(Numbers(cue_text')) /\ Len(cueLocations') <= MaxLocations
  BY <1>1 DEF MarksIInv
<1> QED BY <1>1, <1>2, <1>12, <1>13, <1>14 DEF MarksIInv

(* The end of a line: its value is stored, and the next line begins behind the*)
(* ending, \r\n being one.                                                  *)
LEMMA MarksLine ==
  ASSUME MarksIInv, cue_ends_line PROVE MarksIInv'
<1> DEFINE ended == cue_pos > Len(cue_text)
           n == strtol(cueLocationString)
           keep == cueLocationString # <<>> /\ n < UINT32_MAX
<1>1. /\ cue_pc = "markers"
      /\ cue_pos <= Len(cue_text) => cue_text[cue_pos] \in {CR, LF}
      /\ cueLocations' = IF keep THEN Append(cueLocations, n) ELSE cueLocations
      /\ cue_pc' = IF Len(cueLocations') > MaxLocations THEN "overrun"
                   ELSE IF ~ended THEN "markers"
                   ELSE IF cueLocations' = <<>> THEN "failed" ELSE "write"
      /\ cue_pos' = IF ended THEN cue_pos ELSE cue_pos + cue_line_ending
      /\ cueLocationString' = <<>>
      /\ cue_text' = cue_text
  BY DEF cue_ends_line, cue_inputs
<1>2. cue_text \in Seq(Nat) /\ cue_pos \in 1 .. Len(cue_text) + 1 BY <1>1 DEF MarksIInv
<1>3. PICK s \in 1 .. cue_pos : MarksUpTo(s) BY <1>1 DEF MarksIInv
<1>4. /\ LineDigits(cue_text, s) = FirstDigits(DigitsBetween(cue_text, s, cue_pos - 1))
      /\ ValuesUpTo(UINT32_MAX, cue_text, cue_pos) =
           IF LineDigits(cue_text, s) # <<>> /\ strtol(LineDigits(cue_text, s)) < UINT32_MAX
             THEN Append(ValuesUpTo(UINT32_MAX, cue_text, s - 1), strtol(LineDigits(cue_text, s)))
           ELSE ValuesUpTo(UINT32_MAX, cue_text, s - 1)
      /\ cue_pos < Len(cue_text) /\ cue_text[cue_pos] = CR /\ cue_text[cue_pos + 1] = LF =>
           ValuesUpTo(UINT32_MAX, cue_text, cue_pos + 1) = ValuesUpTo(UINT32_MAX, cue_text, cue_pos)
  BY <1>1, <1>2, <1>3, LineEnds DEF MarksUpTo
<1>5. cueLocations' = ValuesUpTo(UINT32_MAX, cue_text, cue_pos)
  <2>1. cueLocationString = LineDigits(cue_text, s) /\ cueLocations = ValuesUpTo(UINT32_MAX, cue_text, s - 1)
    BY <1>3, <1>4, Zenon DEF MarksUpTo
  <2> HIDE DEF ended
  <2> QED BY <1>1, <1>4, <2>1, Zenon
<1> HIDE DEF keep, n
<1>6. cue_pos \in 0 .. Len(cue_text) + 1 BY <1>2
<1>7. cueLocations' \in Seq(Numbers(cue_text)) BY <1>2, <1>5, <1>6, ValuesEquations
<1>8. CASE Len(cueLocations') > MaxLocations
  <2>1. cue_pc' = "overrun" BY <1>1, <1>8
  <2>2. Len(ValuesBelow(UINT32_MAX)) >= Len(cueLocations') BY <1>2, <1>5, <1>6, ValuesGrow DEF ValuesBelow
  <2>3. Len(ValuesBelow(UINT32_MAX)) \in Nat /\ Len(cueLocations') \in Nat /\ MaxLocations \in Nat
    <3>1. Len(cue_text) + 1 \in 0 .. Len(cue_text) + 1 BY <1>2
    <3>2. ValuesBelow(UINT32_MAX) \in Seq(Numbers(cue_text)) BY <1>2, <3>1, ValuesEquations DEF ValuesBelow
    <3> QED BY <1>7, <3>2, LimitsAssumption
  <2>4. Len(ValuesBelow(UINT32_MAX)) > MaxLocations BY <1>8, <2>2, <2>3
  <2>5. ValuesBelow(UINT32_MAX)' = ValuesBelow(UINT32_MAX) BY <1>1 DEF ValuesBelow
  <2> QED BY <1>1, <1>2, <1>7, <2>1, <2>4, <2>5 DEF MarksIInv
<1>9. CASE ~ (Len(cueLocations') > MaxLocations) /\ ended
  <2>1. cue_pc' \in {"failed", "write"} BY <1>1, <1>9
  <2>2. cue_pos = Len(cue_text) + 1 BY <1>2, <1>9
  <2>3. cueLocations' = ValuesBelow(UINT32_MAX)' BY <1>1, <1>5, <2>2 DEF ValuesBelow
  <2>4. Len(cueLocations') <= MaxLocations BY <1>7, <1>9, LimitsAssumption
  <2> QED BY <1>1, <1>2, <1>7, <2>1, <2>3, <2>4 DEF MarksIInv
<1>10. CASE ~ (Len(cueLocations') > MaxLocations) /\ ~ ended
  <2>1. cue_pc' = "markers" BY <1>1, <1>10
  <2>2. Len(cueLocations') <= MaxLocations BY <1>7, <1>10, LimitsAssumption
  <2>3. cue_pos \in 1 .. Len(cue_text) BY <1>2, <1>10
  <2>4. cue_text[cue_pos] \in {CR, LF} BY <1>1, <2>3
  <2> DEFINE two == cue_text[cue_pos] = CR /\ cue_pos < Len(cue_text)
                      /\ cue_text[cue_pos + 1] = LF
  <2>0. PICK t : t = cue_pos + cue_line_ending OBVIOUS
  <2>5. t = IF two THEN cue_pos + 2 ELSE cue_pos + 1 BY <2>0 DEF cue_line_ending
  <2>6. cue_pos' = t BY <1>1, <1>10, <2>0
  <2> HIDE DEF ended
  <2>7. t \in 2 .. Len(cue_text) + 1 /\ cue_text[t - 1] \in {CR, LF}
    <3>1. CASE two
      <4>1. t = cue_pos + 2 /\ t - 1 = cue_pos + 1 BY <2>3, <2>5, <3>1
      <4>2. cue_text[t - 1] = LF BY <3>1, <4>1
      <4>3. t \in 2 .. Len(cue_text) + 1 BY <1>2, <2>3, <3>1, <4>1
      <4> QED BY <4>2, <4>3
    <3>2. CASE ~two
      <4>1. t = cue_pos + 1 /\ t - 1 = cue_pos BY <2>3, <2>5, <3>2
      <4> QED BY <1>2, <2>3, <2>4, <4>1
    <3> QED BY <3>1, <3>2
  <2>8. ValuesUpTo(UINT32_MAX, cue_text, t - 1) = ValuesUpTo(UINT32_MAX, cue_text, cue_pos)
    <3>1. CASE two
      <4>1. t - 1 = cue_pos + 1 BY <2>3, <2>5, <3>1
      <4> QED BY <1>4, <3>1, <4>1
    <3>2. CASE ~two
      <4>1. t - 1 = cue_pos BY <2>3, <2>5, <3>2
      <4> QED BY <4>1
    <3> QED BY <3>1, <3>2
  <2> HIDE DEF two
  <2>9. InLine(cue_text, t, t)
    <3>1. t \in LineStarts(cue_text) BY <1>2, <2>7, LineStartsIn
    <3> QED BY <2>7, <3>1 DEF InLine
  <2>10. DigitsBetween(cue_text, t, t - 1) = <<>>
    <3>1. t \in 1 .. Len(cue_text) + 1 BY <2>7
    <3> QED BY <1>2, <3>1, DigitsEquations
  <2>11. MarksUpTo(t)'
    BY <1>1, <1>5, <2>6, <2>8, <2>9, <2>10, FirstDigitsGrow DEF MarksUpTo
  <2>12. t \in 1 .. Len(cue_text) + 1 /\ t \in 1 .. t BY <1>2, <2>7
  <2>13. \E k \in 1 .. cue_pos' : MarksUpTo(k)' BY <2>6, <2>11, <2>12
  <2> QED BY <1>1, <1>2, <1>7, <2>1, <2>2, <2>6, <2>12, <2>13 DEF MarksIInv
<1> QED BY <1>8, <1>9, <1>10

(* Before the first character no line is read.                              *)
LEMMA MarksBegin ==
  ASSUME MarksIInv, cue_ends_chunks PROVE MarksIInv'
<1>1. /\ cue_pc = "chunks" /\ cue_text' = cue_text
      /\ cueLocationString' = cueLocationString /\ cueLocations' = cueLocations
      /\ cue_pc' = "failed" \/ (cue_pc' = "markers" /\ cue_pos' = 1)
  BY DEF cue_ends_chunks, cue_inputs, cue_marks, cue_fails
<1>2. /\ cue_text \in Seq(Nat) /\ cueLocationString = <<>> /\ cueLocations = <<>>
      /\ cueLocations \in Seq(Numbers(cue_text)) /\ Len(cueLocations) <= MaxLocations
  BY <1>1 DEF MarksIInv
<1>3. 1 \in 1 .. Len(cue_text) + 1 /\ 1 \in 1 .. 1 /\ 1 - 1 = 0 BY <1>2
<1>4. InLine(cue_text, 1, 1) BY <1>2, LineStartsIn DEF InLine
<1>5. DigitsBetween(cue_text, 1, 1 - 1) = <<>> BY <1>2, <1>3, DigitsEquations
<1>6. ValuesUpTo(UINT32_MAX, cue_text, 0) = <<>> BY <1>2, ValuesEquations
<1>7. CASE cue_pc' = "markers" /\ cue_pos' = 1
  <2>1. MarksUpTo(1)' BY <1>1, <1>2, <1>3, <1>4, <1>5, <1>6, <1>7, FirstDigitsGrow DEF MarksUpTo
  <2>2. \E k \in 1 .. cue_pos' : MarksUpTo(k)' BY <1>3, <1>7, <2>1
  <2> QED BY <1>1, <1>2, <1>3, <1>7, <2>2 DEF MarksIInv
<1>8. CASE cue_pc' = "failed" BY <1>1, <1>2, <1>8 DEF MarksIInv
<1> QED BY <1>1, <1>7, <1>8

(* What stays while the program does something else.                        *)
LEMMA MarksElsewhere ==
  ASSUME MarksIInv, cue_text' = cue_text, cueLocationString' = cueLocationString,
         cueLocations' = cueLocations,
         \/ cue_pc = "chunks" /\ cue_pc' \in {"chunks", "failed"}
         \/ cue_pc = "write" /\ cue_pc' \in {"write", "finished", "failed"}
  PROVE  MarksIInv'
<1>1. cue_pc # "overrun" /\ cue_pc' \notin {"start", "markers", "overrun"} OBVIOUS
<1>2. cueLocations \in Seq(Numbers(cue_text)) /\ Len(cueLocations) <= MaxLocations
      /\ cue_text \in Seq(Nat)
  BY <1>1 DEF MarksIInv
<1>3. cue_pc' = "chunks" => cueLocationString = <<>> /\ cueLocations = <<>> BY DEF MarksIInv
<1>4. cue_pc' \in {"write", "finished"} => cueLocations = ValuesBelow(UINT32_MAX) BY DEF MarksIInv
<1>5. ValuesBelow(UINT32_MAX)' = ValuesBelow(UINT32_MAX) BY DEF ValuesBelow
<1> QED BY <1>1, <1>2, <1>3, <1>4, <1>5 DEF MarksIInv

(* Every step keeps MarksIInv.                                              *)
LEMMA MarksNext ==
  ASSUME MarksIInv, [CueNext]_cue_vars PROVE MarksIInv'
<1>1. CASE cue_opens
  <2>1. /\ cue_pc = "start" /\ \E input \in CueInputs : cue_text' = input[2]
        /\ cueLocationString' = cueLocationString /\ cueLocations' = cueLocations
        /\ cue_pc' \in {"chunks", "failed"}
    BY <1>1 DEF cue_opens, cue_fails, cue_marks
  <2>2. cueLocationString = <<>> /\ cueLocations = <<>> /\ Len(cueLocations) <= MaxLocations
    BY <2>1 DEF MarksIInv
  <2>3. cue_text' \in Seq(Nat) BY <2>1, InputsAssumption
  <2>4. <<>> \in Seq(Numbers(cue_text')) OBVIOUS
  <2> QED BY <2>1, <2>2, <2>3, <2>4 DEF MarksIInv
<1>2. CASE cue_reads_chunk
  <2>1. /\ cue_pc = "chunks" /\ cue_pc' \in {"chunks", "failed"}
        /\ cue_text' = cue_text
        /\ cueLocationString' = cueLocationString /\ cueLocations' = cueLocations
    BY <1>2 DEF cue_reads_chunk, cue_fails, cue_inputs, cue_marks
  <2> QED BY <2>1, MarksElsewhere
<1>3. CASE cue_ends_chunks BY <1>3, MarksBegin
<1>4. CASE cue_reads_character BY <1>4, MarksCharacter
<1>5. CASE cue_ends_line BY <1>5, MarksLine
<1>6. CASE cue_writes
  BY <1>6, MarksElsewhere DEF cue_writes, cue_inputs, cue_marks
<1>7. CASE cue_write_fails
  BY <1>7, MarksElsewhere DEF cue_write_fails, cue_fails, cue_inputs, cue_marks
<1>8. CASE cue_finishes
  BY <1>8, MarksElsewhere DEF cue_finishes, cue_inputs, cue_marks
<1>9. CASE UNCHANGED cue_vars
  <2>1. /\ cue_text' = cue_text /\ cue_pc' = cue_pc /\ cue_pos' = cue_pos
        /\ cueLocationString' = cueLocationString /\ cueLocations' = cueLocations
    BY <1>9 DEF cue_vars, cue_inputs, cue_marks
  <2>2. \A k : MarksUpTo(k)' <=> MarksUpTo(k) BY <2>1 DEF MarksUpTo
  <2>3. ValuesBelow(UINT32_MAX)' = ValuesBelow(UINT32_MAX) BY <2>1 DEF ValuesBelow
  <2> QED BY <2>1, <2>2, <2>3 DEF MarksIInv
<1> QED BY <1>1, <1>2, <1>3, <1>4, <1>5, <1>6, <1>7, <1>8, <1>9 DEF CueNext

(* MarksIInv is an invariant.                                               *)
LEMMA MarksHold == CueSpec => []MarksIInv
<1>1. CueInit => MarksIInv BY MarksInit
<1>2. MarksIInv /\ [CueNext]_cue_vars => MarksIInv' BY MarksNext
<1> QED BY <1>1, <1>2, PTL DEF CueSpec

(* The cue points are the numbers of the lines, in order, whatever the      *)
(* lines end with and whatever else stands in them; no other file runs over *)
(* the array.                                                               *)
THEOREM MarkersAreLines == CueSpec => []CueLocationsAreLines
<1>1. MarksIInv => CueLocationsAreLines BY DEF MarksIInv, CueLocationsAreLines
<1> QED BY <1>1, MarksHold, PTL
-----------------------------------------------------------------------------
(* The chunks that were found.                                              *)

\* The kinds of chunks.
FormatAt(wave, k) == wave[k].id = "fmt "
DataAt(wave, k) == wave[k].id = "data"
CueAt(wave, k) == wave[k].id = "cue "
OtherAt(wave, k) == wave[k].id = "other"

(* A chunk is of one kind.                                                  *)
LEMMA KindsDiffer ==
  ASSUME NEW wave, NEW k
  PROVE  /\ FormatAt(wave, k) => ~ DataAt(wave, k) /\ ~ CueAt(wave, k) /\ ~ OtherAt(wave, k)
         /\ DataAt(wave, k) => ~ CueAt(wave, k) /\ ~ OtherAt(wave, k)
         /\ CueAt(wave, k) => ~ OtherAt(wave, k)
BY DEF FormatAt, DataAt, CueAt, OtherAt

(* There is one format chunk and one data chunk.                            *)
LEMMA KindsOnce ==
  ASSUME NEW wave, WaveFile(wave), NEW j \in DOMAIN wave, NEW k \in DOMAIN wave,
         (FormatAt(wave, j) /\ FormatAt(wave, k)) \/ (DataAt(wave, j) /\ DataAt(wave, k))
  PROVE  j = k
BY Zenon DEF WaveFile, FormatAt, DataAt

(* A chunk is of some kind.                                                 *)
LEMMA KindsAll ==
  ASSUME NEW wave, WaveFile(wave), NEW k \in 1 .. Len(wave)
  PROVE  FormatAt(wave, k) \/ DataAt(wave, k) \/ CueAt(wave, k) \/ OtherAt(wave, k)
<1>1. wave[k].id \in ChunkIds BY WaveChunks
<1> QED BY <1>1, Zenon DEF ChunkIds, FormatAt, DataAt, CueAt, OtherAt

ChunkLocations == [startOffset : Nat, size : Nat]
WholeChunk(wave, j) == Location(ChunkStart(wave, j), 8 + wave[j].size)
FormatExtra(wave, j) == Location(ChunkStart(wave, j) + 24, wave[j].size - 16)
PaddedSizes(o) == [k \in DOMAIN o |-> Padded(o[k].size)]
OthersSize(o) == SumTo(PaddedSizes(o), Len(o))
Accounted(f, d, o) ==
  (IF f = <<>> THEN 0 ELSE 24 + Padded(f.size))
    + (IF d = <<>> THEN 0 ELSE Padded(d.size)) + OthersSize(o)

\* What the code knows of the chunks before the one numbered k.
FoundIn(wave, k, f, d, o) ==
  /\ o \in Seq(ChunkLocations)
  /\ \A j \in 1 .. k - 1 : OtherAt(wave, j) => \E i \in DOMAIN o : o[i] = WholeChunk(wave, j)
  /\ \A i \in DOMAIN o : \E j \in 1 .. k - 1 : OtherAt(wave, j) /\ o[i] = WholeChunk(wave, j)
  /\ \A i, i2 \in DOMAIN o : o[i].startOffset = o[i2].startOffset => i = i2
  /\ f = <<>> => \A j \in 1 .. k - 1 : ~ FormatAt(wave, j)
  /\ f # <<>> => \E j \in 1 .. k - 1 : FormatAt(wave, j) /\ f = FormatExtra(wave, j)
  /\ d = <<>> => \A j \in 1 .. k - 1 : ~ DataAt(wave, j)
  /\ d # <<>> => \E j \in 1 .. k - 1 : DataAt(wave, j) /\ d = WholeChunk(wave, j)
  /\ Accounted(f, d, o) <= ChunkStart(wave, k) - 12

(* The fields of a location, which is never the one of a chunk not seen.    *)
LEMMA LocationFields ==
  ASSUME NEW at, NEW size
  PROVE  /\ Location(at, size).startOffset = at /\ Location(at, size).size = size
         /\ Location(at, size) # <<>>
<1>1. Location(at, size).startOffset = at /\ Location(at, size).size = size BY DEF Location
<1>2. DOMAIN Location(at, size) = {"startOffset", "size"} BY DEF Location
<1>3. DOMAIN <<>> = {} OBVIOUS
<1> QED BY <1>1, <1>2, <1>3

(* A format chunk has its fixed part.                                       *)
LEMMA FormatSize ==
  ASSUME NEW wave, WaveFile(wave), NEW j \in 1 .. Len(wave), FormatAt(wave, j)
  PROVE  wave[j].size \in Nat /\ wave[j].size >= 16 /\ wave[j].size - 16 \in Nat
<1>1. wave[j].size \in Nat BY WaveChunks
<1>2. wave[j].size >= 16
  <2>1. j \in DOMAIN wave BY WaveChunks
  <2> QED BY <2>1, Zenon DEF WaveFile, FormatAt
<1>3. \A n \in Nat : n >= 16 => n - 16 \in Nat OBVIOUS
<1> QED BY <1>1, <1>2, <1>3, Zenon

(* The location of a chunk is one of ChunkLocations.                        *)
LEMMA ChunkLocationTypes ==
  ASSUME NEW wave, WaveFile(wave), NEW j \in 1 .. Len(wave)
  PROVE  /\ WholeChunk(wave, j) \in ChunkLocations
         /\ FormatAt(wave, j) => FormatExtra(wave, j) \in ChunkLocations
         /\ wave[j].size \in Nat /\ ChunkStart(wave, j) \in Nat
<1>1. wave[j].size \in Nat BY WaveChunks
<1>2. ChunkStart(wave, j) \in Nat
  <2>1. j \in 1 .. Len(wave) + 1 BY WaveChunks
  <2> QED BY <2>1, ChunkPlaces
<1>3. FormatAt(wave, j) => wave[j].size - 16 \in Nat BY FormatSize
<1>4. \A at \in Nat, size \in Nat : Location(at, size) \in ChunkLocations
  BY DEF Location, ChunkLocations
<1>5. 8 + wave[j].size \in Nat /\ ChunkStart(wave, j) + 24 \in Nat BY <1>1, <1>2
<1> QED BY <1>1, <1>2, <1>3, <1>4, <1>5 DEF WholeChunk, FormatExtra

(* The sizes of the other chunks are numbers.                               *)
LEMMA PaddedSizesType ==
  ASSUME NEW o \in Seq(ChunkLocations)
  PROVE  /\ PaddedSizes(o) \in Seq(Nat) /\ Len(PaddedSizes(o)) = Len(o)
         /\ OthersSize(o) \in Nat
         /\ \A i \in 1 .. Len(o) : /\ o[i] \in ChunkLocations /\ o[i].size \in Nat
                                   /\ o[i].startOffset \in Nat
                                   /\ PaddedSizes(o)[i] = Padded(o[i].size)
<1>1. ASSUME NEW i \in 1 .. Len(o)
      PROVE  o[i] \in ChunkLocations /\ o[i].size \in Nat /\ o[i].startOffset \in Nat
  <2>1. o[i] \in ChunkLocations BY ElementOfSeq
  <2> QED BY <2>1 DEF ChunkLocations
<1>2. ASSUME NEW i \in 1 .. Len(o) PROVE Padded(o[i].size) \in Nat BY <1>1, PaddedEven
<1>3. DOMAIN o = 1 .. Len(o) /\ Len(o) \in Nat OBVIOUS
<1>4. PaddedSizes(o) = [i \in 1 .. Len(o) |-> Padded(o[i].size)] BY <1>3 DEF PaddedSizes
<1>5. PaddedSizes(o) \in Seq(Nat) /\ Len(PaddedSizes(o)) = Len(o) BY <1>2, <1>3, <1>4
<1>6. Len(o) \in 0 .. Len(PaddedSizes(o)) BY <1>3, <1>5
<1>7. OthersSize(o) \in Nat BY <1>5, <1>6, SumEquations DEF OthersSize
<1> QED BY <1>1, <1>4, <1>5, <1>7

(* One other chunk more takes its padded size.                              *)
LEMMA OthersSizeAppend ==
  ASSUME NEW o \in Seq(ChunkLocations), NEW l \in ChunkLocations
  PROVE  OthersSize(Append(o, l)) = OthersSize(o) + Padded(l.size)
<1> DEFINE p == Append(o, l)
<1>1. /\ p \in Seq(ChunkLocations) /\ Len(p) = Len(o) + 1 /\ Len(o) \in Nat
      /\ p[Len(o) + 1] = l /\ \A i \in 1 .. Len(o) : p[i] = o[i]
  OBVIOUS
<1> HIDE DEF p
<1>2. \A i \in 1 .. Len(o) : PaddedSizes(p)[i] = PaddedSizes(o)[i]
  <2> SUFFICES ASSUME NEW i \in 1 .. Len(o) PROVE PaddedSizes(p)[i] = PaddedSizes(o)[i] OBVIOUS
  <2>1. i \in 1 .. Len(p) BY <1>1
  <2>2. PaddedSizes(p)[i] = Padded(p[i].size) /\ PaddedSizes(o)[i] = Padded(o[i].size)
    BY <1>1, <2>1, PaddedSizesType
  <2> QED BY <1>1, <2>2
<1>3. PaddedSizes(p) \in Seq(Nat) /\ PaddedSizes(o) \in Seq(Nat)
      /\ Len(PaddedSizes(p)) = Len(o) + 1 /\ Len(PaddedSizes(o)) = Len(o)
  BY <1>1, PaddedSizesType
<1>4. \A i \in 0 .. Len(o) : SumTo(PaddedSizes(p), i) = SumTo(PaddedSizes(o), i)
  <2> DEFINE f == PaddedSizes(p)
             g == PaddedSizes(o)
             n == Len(o)
  <2>1. f \in Seq(Nat) /\ g \in Seq(Nat) /\ n \in Nat /\ n <= Len(f) /\ n <= Len(g)
        /\ \A i \in 1 .. n : f[i] = g[i]
    BY <1>1, <1>2, <1>3
  <2> HIDE DEF f, g, n
  <2>2. \A i \in 0 .. n : SumTo(f, i) = SumTo(g, i) BY <2>1, SumPrefix
  <2> QED BY <2>2 DEF f, g, n
<1>5. Len(o) + 1 \in 1 .. Len(o) + 1 /\ (Len(o) + 1) - 1 = Len(o) /\ Len(o) \in 0 .. Len(o)
  BY <1>1
<1>6. SumTo(PaddedSizes(p), Len(o) + 1) = SumTo(PaddedSizes(p), Len(o)) + PaddedSizes(p)[Len(o) + 1]
  BY <1>3, <1>5, SumEquations
<1>7. PaddedSizes(p)[Len(o) + 1] = Padded(l.size)
  <2>1. Len(o) + 1 \in 1 .. Len(p) BY <1>1, <1>5
  <2> QED BY <1>1, <2>1, PaddedSizesType
<1> QED BY <1>1, <1>4, <1>5, <1>6, <1>7 DEF OthersSize, p

(* Before the first chunk nothing is found.                                 *)
LEMMA FoundNone ==
  ASSUME NEW wave, WaveFile(wave)
  PROVE  FoundIn(wave, 1, <<>>, <<>>, <<>>)
<1>1. <<>> \in Seq(ChunkLocations) /\ DOMAIN <<>> = {} /\ Len(<<>>) = 0 OBVIOUS
<1>2. OthersSize(<<>>) = 0
  <2>1. PaddedSizes(<<>>) \in Seq(Nat) BY <1>1, PaddedSizesType
  <2> QED BY <1>1, <2>1, SumEquations DEF OthersSize
<1>3. ChunkStart(wave, 1) - 12 = 0 BY ChunkPlaces
<1> QED BY <1>1, <1>2, <1>3 DEF FoundIn, Accounted

(* What is accounted for is a number.                                       *)
LEMMA AccountedParts ==
  ASSUME NEW wave, WaveFile(wave), NEW k \in 1 .. Len(wave) + 1,
         NEW f, NEW d, NEW o, FoundIn(wave, k, f, d, o)
  PROVE  /\ OthersSize(o) \in Nat
         /\ f # <<>> => f \in ChunkLocations /\ Padded(f.size) \in Nat
         /\ d # <<>> => d \in ChunkLocations /\ Padded(d.size) \in Nat
<1>1. Len(wave) \in Nat /\ 1 .. k - 1 \subseteq 1 .. Len(wave) BY WaveChunks
<1>2. OthersSize(o) \in Nat BY PaddedSizesType DEF FoundIn
<1>3. ASSUME f # <<>> PROVE f \in ChunkLocations
  <2>1. PICK j \in 1 .. k - 1 : FormatAt(wave, j) /\ f = FormatExtra(wave, j)
    BY <1>3 DEF FoundIn
  <2>2. j \in 1 .. Len(wave) BY <1>1
  <2> QED BY <2>1, <2>2, ChunkLocationTypes
<1>4. ASSUME d # <<>> PROVE d \in ChunkLocations
  <2>1. PICK j \in 1 .. k - 1 : d = WholeChunk(wave, j)
    BY <1>4 DEF FoundIn
  <2>2. j \in 1 .. Len(wave) BY <1>1
  <2> QED BY <2>1, <2>2, ChunkLocationTypes
<1>5. \A l \in ChunkLocations : l.size \in Nat BY DEF ChunkLocations
<1> QED BY <1>2, <1>3, <1>4, <1>5, PaddedEven

(* What is accounted for is a number.                                       *)
LEMMA AccountedTypes ==
  ASSUME NEW wave, WaveFile(wave), NEW k \in 1 .. Len(wave) + 1,
         NEW f, NEW d, NEW o, FoundIn(wave, k, f, d, o)
  PROVE  /\ (IF f = <<>> THEN 0 ELSE 24 + Padded(f.size)) \in Nat
         /\ (IF d = <<>> THEN 0 ELSE Padded(d.size)) \in Nat
         /\ OthersSize(o) \in Nat
<1>1. ASSUME f # <<>> PROVE 24 + Padded(f.size) \in Nat
  <2>1. Padded(f.size) \in Nat BY <1>1, AccountedParts
  <2> QED BY <2>1
<1>2. ASSUME d # <<>> PROVE Padded(d.size) \in Nat BY <1>2, AccountedParts
<1>3. 0 \in Nat OBVIOUS
<1> QED BY <1>1, <1>2, <1>3, AccountedParts, Zenon

(* The next chunk, by its kind.                                             *)
LEMMA NextChunk ==
  ASSUME NEW wave, WaveFile(wave), NEW k \in 1 .. Len(wave)
  PROVE  /\ wave[k].size \in Nat /\ k \in 1 .. Len(wave) + 1
         /\ k + 1 \in 1 .. Len(wave) + 1 /\ (k + 1) - 1 = k
         /\ \A j : j \in 1 .. (k + 1) - 1 <=> j \in 1 .. k - 1 \/ j = k
         /\ k \in DOMAIN wave /\ \A j \in 1 .. k - 1 : j # k /\ j \in DOMAIN wave
         /\ ChunkStart(wave, k) \in Nat /\ Padded(wave[k].size) \in Nat
         /\ ChunkStart(wave, k + 1) = ChunkStart(wave, k) + 8 + Padded(wave[k].size)
<1>1. Len(wave) \in Nat /\ wave[k].size \in Nat BY WaveChunks
<1>2. k \in 1 .. Len(wave) + 1 /\ k + 1 \in 1 .. Len(wave) + 1 /\ (k + 1) - 1 = k
  BY <1>1
<1>7. k \in DOMAIN wave /\ \A j \in 1 .. k - 1 : j # k /\ j \in DOMAIN wave
  <2>1. \A j \in 1 .. k - 1 : j # k /\ j \in 1 .. Len(wave) BY <1>1
  <2> QED BY <2>1, WaveChunks
<1>3. \A j : j \in 1 .. (k + 1) - 1 <=> j \in 1 .. k - 1 \/ j = k BY <1>1
<1>4. ChunkStart(wave, k) \in Nat BY <1>2, ChunkPlaces
<1>5. ChunkStart(wave, k + 1) = ChunkStart(wave, k) + 8 + Padded(wave[k].size) BY ChunkPlaces
<1>6. Padded(wave[k].size) \in Nat BY <1>1, PaddedEven
<1> QED BY <1>1, <1>2, <1>3, <1>4, <1>5, <1>6, <1>7

(* The head of a chunk, of an even length, leaves its padding as it is.     *)
LEMMA PaddedShift ==
  ASSUME NEW n \in Nat
  PROVE  /\ Padded(8 + n) = 8 + Padded(n)
         /\ n >= 16 => 24 + Padded(n - 16) = 8 + Padded(n)
BY DEF Padded

(* The round that meets the format chunk.                                   *)
LEMMA FoundFormat ==
  ASSUME NEW wave, WaveFile(wave), NEW k \in 1 .. Len(wave), FormatAt(wave, k),
         NEW f, NEW d, NEW o, FoundIn(wave, k, f, d, o)
  PROVE  FoundIn(wave, k + 1, FormatExtra(wave, k), d, o)
<1> DEFINE g == FormatExtra(wave, k)
<1>1. g # <<>> /\ g.size = wave[k].size - 16
  <2>1. g = Location(ChunkStart(wave, k) + 24, wave[k].size - 16) BY DEF FormatExtra
  <2> HIDE DEF g
  <2> QED BY <2>1, LocationFields, Zenon
<1>2. f = <<>>
  <2>1. SUFFICES ASSUME f # <<>> PROVE FALSE OBVIOUS
  <2>2. PICK j \in 1 .. k - 1 : FormatAt(wave, j) BY <2>1 DEF FoundIn
  <2>3. j \in DOMAIN wave /\ k \in DOMAIN wave /\ j # k BY NextChunk
  <2> QED BY <2>2, <2>3, KindsOnce
<1>3. Accounted(g, d, o) <= ChunkStart(wave, k + 1) - 12
  <2> DEFINE c == IF d = <<>> THEN 0 ELSE Padded(d.size)
  <2>1. Accounted(f, d, o) = 0 + c + OthersSize(o) BY <1>2 DEF Accounted
  <2>2. Accounted(g, d, o) = 24 + Padded(wave[k].size - 16) + c + OthersSize(o)
    BY <1>1 DEF Accounted
  <2>3. 24 + Padded(wave[k].size - 16) = 8 + Padded(wave[k].size)
    BY FormatSize, PaddedShift
  <2>4. c \in Nat /\ OthersSize(o) \in Nat BY NextChunk, AccountedTypes
  <2>6. Accounted(f, d, o) <= ChunkStart(wave, k) - 12 BY DEF FoundIn
  <2>7. ChunkStart(wave, k) \in Nat /\ Padded(wave[k].size) \in Nat
        /\ ChunkStart(wave, k + 1) = ChunkStart(wave, k) + 8 + Padded(wave[k].size)
    BY NextChunk
  <2>8. Padded(wave[k].size - 16) \in Nat BY FormatSize, PaddedEven
  <2> HIDE DEF c, g
  <2>9. c + OthersSize(o) <= ChunkStart(wave, k) - 12 BY <2>1, <2>4, <2>6
  <2>10. Accounted(g, d, o) = 8 + Padded(wave[k].size) + (c + OthersSize(o))
    BY <2>2, <2>3, <2>4, <2>7, <2>8
  <2>11. c + OthersSize(o) \in Nat BY <2>4
  <2> QED BY <2>7, <2>9, <2>10, <2>11
<1>4. \A j : j \in 1 .. (k + 1) - 1 <=> j \in 1 .. k - 1 \/ j = k BY NextChunk
<1>5. ~ OtherAt(wave, k) /\ ~ DataAt(wave, k) BY KindsDiffer
<1>6. \E j \in 1 .. (k + 1) - 1 : FormatAt(wave, j) /\ g = FormatExtra(wave, j) BY <1>4
<1> HIDE DEF g
<1> QED BY <1>1, <1>3, <1>4, <1>5, <1>6 DEF FoundIn, g

(* The round that meets the data chunk.                                     *)
LEMMA FoundData ==
  ASSUME NEW wave, WaveFile(wave), NEW k \in 1 .. Len(wave), DataAt(wave, k),
         NEW f, NEW d, NEW o, FoundIn(wave, k, f, d, o)
  PROVE  FoundIn(wave, k + 1, f, WholeChunk(wave, k), o)
<1> DEFINE g == WholeChunk(wave, k)
<1>1. g # <<>> /\ g.size = 8 + wave[k].size BY LocationFields DEF WholeChunk
<1>2. d = <<>>
  <2>1. SUFFICES ASSUME d # <<>> PROVE FALSE OBVIOUS
  <2>2. PICK j \in 1 .. k - 1 : DataAt(wave, j) BY <2>1 DEF FoundIn
  <2>3. j \in DOMAIN wave /\ k \in DOMAIN wave /\ j # k BY NextChunk
  <2> QED BY <2>2, <2>3, KindsOnce
<1>3. Accounted(f, g, o) <= ChunkStart(wave, k + 1) - 12
  <2> DEFINE e == IF f = <<>> THEN 0 ELSE 24 + Padded(f.size)
  <2>1. Accounted(f, d, o) = e + 0 + OthersSize(o) BY <1>2 DEF Accounted
  <2>2. Accounted(f, g, o) = e + Padded(8 + wave[k].size) + OthersSize(o) BY <1>1 DEF Accounted
  <2>3. Padded(8 + wave[k].size) = 8 + Padded(wave[k].size) BY NextChunk, PaddedShift
  <2>4. e \in Nat /\ OthersSize(o) \in Nat BY NextChunk, AccountedTypes
  <2>6. Accounted(f, d, o) <= ChunkStart(wave, k) - 12 BY DEF FoundIn
  <2>7. ChunkStart(wave, k) \in Nat /\ Padded(wave[k].size) \in Nat
        /\ ChunkStart(wave, k + 1) = ChunkStart(wave, k) + 8 + Padded(wave[k].size)
    BY NextChunk
  <2> HIDE DEF e, g
  <2> QED BY <2>1, <2>2, <2>3, <2>4, <2>6, <2>7
<1>4. \A j : j \in 1 .. (k + 1) - 1 <=> j \in 1 .. k - 1 \/ j = k BY NextChunk
<1>5. ~ OtherAt(wave, k) /\ ~ FormatAt(wave, k) BY KindsDiffer
<1>6. \E j \in 1 .. (k + 1) - 1 : DataAt(wave, j) /\ g = WholeChunk(wave, j) BY <1>4
<1> HIDE DEF g
<1> QED BY <1>1, <1>3, <1>4, <1>5, <1>6 DEF FoundIn, g

(* A chunk whose place is not kept: an old cue chunk.                       *)
LEMMA FoundCue ==
  ASSUME NEW wave, WaveFile(wave), NEW k \in 1 .. Len(wave), CueAt(wave, k),
         NEW f, NEW d, NEW o, FoundIn(wave, k, f, d, o)
  PROVE  FoundIn(wave, k + 1, f, d, o)
<1>1. Accounted(f, d, o) <= ChunkStart(wave, k + 1) - 12
  <2>1. Accounted(f, d, o) <= ChunkStart(wave, k) - 12 BY DEF FoundIn
  <2>2. ChunkStart(wave, k) \in Nat /\ Padded(wave[k].size) \in Nat
        /\ ChunkStart(wave, k + 1) = ChunkStart(wave, k) + 8 + Padded(wave[k].size)
    BY NextChunk
  <2> DEFINE e == IF f = <<>> THEN 0 ELSE 24 + Padded(f.size)
             c == IF d = <<>> THEN 0 ELSE Padded(d.size)
  <2>3. e \in Nat /\ c \in Nat /\ OthersSize(o) \in Nat
    BY NextChunk, AccountedTypes
  <2>4. Accounted(f, d, o) = e + c + OthersSize(o) BY DEF Accounted
  <2> HIDE DEF e, c
  <2> QED BY <2>1, <2>2, <2>3, <2>4
<1>2. \A j : j \in 1 .. (k + 1) - 1 <=> j \in 1 .. k - 1 \/ j = k BY NextChunk
<1>3. ~ OtherAt(wave, k) /\ ~ FormatAt(wave, k) /\ ~ DataAt(wave, k) BY KindsDiffer
<1> QED BY <1>1, <1>2, <1>3 DEF FoundIn

(* The round that meets a chunk of another kind.                            *)
LEMMA FoundOther ==
  ASSUME NEW wave, WaveFile(wave), NEW k \in 1 .. Len(wave), OtherAt(wave, k),
         NEW f, NEW d, NEW o, FoundIn(wave, k, f, d, o)
  PROVE  FoundIn(wave, k + 1, f, d, Append(o, WholeChunk(wave, k)))
<1> DEFINE g == WholeChunk(wave, k)
           p == Append(o, g)
<1>1. g.startOffset = ChunkStart(wave, k) /\ g.size = 8 + wave[k].size
  BY LocationFields DEF WholeChunk
<1>2. g \in ChunkLocations BY ChunkLocationTypes
<1>3. o \in Seq(ChunkLocations) BY DEF FoundIn
<1> HIDE DEF g
<1>4. /\ p \in Seq(ChunkLocations) /\ DOMAIN o = 1 .. Len(o) /\ DOMAIN p = 1 .. Len(o) + 1
      /\ p[Len(o) + 1] = g /\ \A i \in 1 .. Len(o) : p[i] = o[i]
      /\ Len(o) \in Nat
  BY <1>2, <1>3
<1>5. OthersSize(p) = OthersSize(o) + Padded(8 + wave[k].size)
  BY <1>1, <1>2, <1>3, OthersSizeAppend
<1> HIDE DEF p
<1>6. Accounted(f, d, p) <= ChunkStart(wave, k + 1) - 12
  <2>1. Accounted(f, d, o) <= ChunkStart(wave, k) - 12 BY DEF FoundIn
  <2>2. ChunkStart(wave, k) \in Nat /\ Padded(wave[k].size) \in Nat
        /\ ChunkStart(wave, k + 1) = ChunkStart(wave, k) + 8 + Padded(wave[k].size)
    BY NextChunk
  <2> DEFINE e == IF f = <<>> THEN 0 ELSE 24 + Padded(f.size)
             c == IF d = <<>> THEN 0 ELSE Padded(d.size)
  <2>3. e \in Nat /\ c \in Nat /\ OthersSize(o) \in Nat
    BY NextChunk, AccountedTypes
  <2>4. Accounted(f, d, o) = e + c + OthersSize(o) /\ Accounted(f, d, p) = e + c + OthersSize(p)
    BY DEF Accounted
  <2>5. Padded(8 + wave[k].size) = 8 + Padded(wave[k].size) BY NextChunk, PaddedShift
  <2> HIDE DEF e, c
  <2> QED BY <1>5, <2>1, <2>2, <2>3, <2>4, <2>5
<1>7. \A j : j \in 1 .. (k + 1) - 1 <=> j \in 1 .. k - 1 \/ j = k BY NextChunk
<1>8. ~ FormatAt(wave, k) /\ ~ DataAt(wave, k) BY KindsDiffer
<1>9. \A j \in 1 .. (k + 1) - 1 : OtherAt(wave, j) => \E i \in DOMAIN p : p[i] = WholeChunk(wave, j)
  <2> SUFFICES ASSUME NEW j \in 1 .. (k + 1) - 1, OtherAt(wave, j)
               PROVE  \E i \in DOMAIN p : p[i] = WholeChunk(wave, j)
    OBVIOUS
  <2>1. CASE j = k
    <3>1. Len(o) + 1 \in DOMAIN p /\ p[Len(o) + 1] = WholeChunk(wave, j) BY <1>4, <2>1 DEF g
    <3> QED BY <3>1
  <2>2. CASE j \in 1 .. k - 1
    <3>1. PICK i \in DOMAIN o : o[i] = WholeChunk(wave, j) BY <2>2 DEF FoundIn
    <3>2. i \in DOMAIN p /\ p[i] = WholeChunk(wave, j) BY <1>4, <3>1
    <3> QED BY <3>2
  <2> QED BY <1>7, <2>1, <2>2
<1>10. \A i \in DOMAIN p : \E j \in 1 .. (k + 1) - 1 : OtherAt(wave, j) /\ p[i] = WholeChunk(wave, j)
  <2> SUFFICES ASSUME NEW i \in DOMAIN p
               PROVE  \E j \in 1 .. (k + 1) - 1 : OtherAt(wave, j) /\ p[i] = WholeChunk(wave, j)
    OBVIOUS
  <2>1. CASE i = Len(o) + 1
    <3>1. k \in 1 .. (k + 1) - 1 /\ p[i] = WholeChunk(wave, k) BY <1>4, <1>7, <2>1 DEF g
    <3> QED BY <3>1
  <2>2. CASE i \in 1 .. Len(o)
    <3>1. PICK j \in 1 .. k - 1 : OtherAt(wave, j) /\ o[i] = WholeChunk(wave, j)
      BY <1>4, <2>2 DEF FoundIn
    <3> QED BY <1>4, <1>7, <2>2, <3>1
  <2>3. i = Len(o) + 1 \/ i \in 1 .. Len(o) BY <1>4
  <2> QED BY <2>1, <2>2, <2>3
<1>11. \A i \in 1 .. Len(o) : o[i].startOffset # ChunkStart(wave, k)
  <2> SUFFICES ASSUME NEW i \in 1 .. Len(o) PROVE o[i].startOffset # ChunkStart(wave, k) OBVIOUS
  <2>1. PICK j \in 1 .. k - 1 : o[i] = WholeChunk(wave, j) BY <1>4 DEF FoundIn
  <2>2. o[i].startOffset = ChunkStart(wave, j) BY <2>1, LocationFields DEF WholeChunk
  <2>3. j # k /\ j \in 1 .. Len(wave) + 1 /\ k \in 1 .. Len(wave) + 1 BY NextChunk
  <2> QED BY <2>2, <2>3, ChunksApart
<1>12. \A i, i2 \in DOMAIN p : p[i].startOffset = p[i2].startOffset => i = i2
  <2>1. \A i, i2 \in 1 .. Len(o) : o[i].startOffset = o[i2].startOffset => i = i2
    BY <1>4 DEF FoundIn
  <2>2. \A i \in DOMAIN p : i = Len(o) + 1 \/ i \in 1 .. Len(o) BY <1>4
  <2>3. p[Len(o) + 1].startOffset = ChunkStart(wave, k) BY <1>1, <1>4
  <2>4. \A i \in 1 .. Len(o) : p[i] = o[i] BY <1>4
  <2> QED BY <1>11, <2>1, <2>2, <2>3, <2>4, Zenon
<1> HIDE DEF p
<1>13. FoundIn(wave, k + 1, f, d, p)
  BY <1>4, <1>6, <1>7, <1>8, <1>9, <1>10, <1>12 DEF FoundIn
<1> QED BY <1>13 DEF p, g
-----------------------------------------------------------------------------
(* The sections of the output.                                              *)

\* The input is read, and there is enough to write a file.
Ready ==
  /\ WaveFile(cue_wave)
  /\ FoundIn(cue_wave, Len(cue_wave) + 1, formatChunk, dataChunk, otherChunks)
  /\ formatChunk # <<>> /\ dataChunk # <<>>
  /\ cueLocations \in Seq(Numbers(cue_text)) /\ Len(cueLocations) <= MaxLocations

(* The types of what is found.                                              *)
LEMMA ReadyTypes ==
  ASSUME Ready
  PROVE  /\ Len(cueLocations) \in Nat /\ Len(otherChunks) \in Nat
         /\ DOMAIN otherChunks = 1 .. Len(otherChunks)
         /\ otherChunks \in Seq(ChunkLocations)
         /\ \A i \in 1 .. Len(otherChunks) : otherChunks[i] \in ChunkLocations
         /\ formatChunk \in ChunkLocations /\ dataChunk \in ChunkLocations
         /\ Len(cue_wave) \in Nat /\ Len(cue_wave) + 1 \in 1 .. Len(cue_wave) + 1
<1>1. Len(cueLocations) \in Nat BY DEF Ready
<1>2. otherChunks \in Seq(ChunkLocations) BY DEF Ready, FoundIn
<1>3. \A i \in 1 .. Len(otherChunks) : otherChunks[i] \in ChunkLocations
  BY <1>2, PaddedSizesType
<1>4. Len(cue_wave) \in Nat BY WaveChunks DEF Ready
<1>5. Len(cue_wave) + 1 \in 1 .. Len(cue_wave) + 1 BY <1>4
<1>6. formatChunk \in ChunkLocations /\ dataChunk \in ChunkLocations
  BY <1>5, AccountedParts DEF Ready
<1> QED BY <1>1, <1>2, <1>3, <1>4, <1>5, <1>6

(* The sections one by one.                                                 *)
LEMMA SectionsAre ==
  ASSUME Ready,
         NEW L, L = Len(cueLocations), NEW O, O = Len(otherChunks)
  PROVE  /\ Sections = 5 + L + O
         /\ Section(1) = Location(New, 12)
         /\ Section(2) = Location(formatChunk.startOffset - 24, 24)
         /\ Section(3) = formatChunk
         /\ Section(4) = Location(New, 12)
         /\ \A i \in 1 .. L : Section(4 + i) = Location(New, 24)
         /\ \A i \in 1 .. O : Section(4 + L + i) = otherChunks[i]
         /\ Section(5 + L + O) = dataChunk
<1>1. L \in Nat /\ O \in Nat BY ReadyTypes
<1>2. Sections = 5 + L + O BY DEF Sections
<1>3. \A i : Section(i) =
        CASE i = 1 -> Location(New, 12)
          [] i = 2 -> Location(formatChunk.startOffset - 24, 24)
          [] i = 3 -> formatChunk
          [] i = 4 -> Location(New, 12)
          [] i \in 5 .. (5 + L) - 1 -> Location(New, 24)
          [] i \in 5 + L .. (5 + L + O) - 1 -> otherChunks[i - (5 + L) + 1]
          [] OTHER -> dataChunk
  BY <1>2 DEF Section
<1>4. /\ Section(1) = Location(New, 12)
      /\ Section(2) = Location(formatChunk.startOffset - 24, 24)
      /\ Section(3) = formatChunk
      /\ Section(4) = Location(New, 12)
  BY <1>1, <1>3
<1>5. ASSUME NEW i \in 1 .. L PROVE Section(4 + i) = Location(New, 24)
  <2>1. 4 + i \in 5 .. (5 + L) - 1 /\ 4 + i \notin {1, 2, 3, 4} 
        /\ 4 + i \notin 5 + L .. (5 + L + O) - 1
    BY <1>1
  <2> QED BY <1>3, <2>1
<1>6. ASSUME NEW i \in 1 .. O PROVE Section(4 + L + i) = otherChunks[i]
  <2>1. 4 + L + i \in 5 + L .. (5 + L + O) - 1 /\ 4 + L + i \notin {1, 2, 3, 4}
        /\ 4 + L + i \notin 5 .. (5 + L) - 1 /\ (4 + L + i) - (5 + L) + 1 = i
    BY <1>1
  <2> QED BY <1>3, <2>1
<1>7. Section(5 + L + O) = dataChunk
  <2>1. 5 + L + O \notin 5 + L .. (5 + L + O) - 1 /\ 5 + L + O \notin {1, 2, 3, 4}
        /\ 5 + L + O \notin 5 .. (5 + L) - 1
    BY <1>1
  <2> QED BY <1>3, <2>1
<1> QED BY <1>2, <1>4, <1>5, <1>6, <1>7

(* Every number of a section is one of these.                               *)
LEMMA SectionNumbers ==
  ASSUME NEW L \in Nat, NEW O \in Nat, NEW s \in 1 .. 5 + L + O
  PROVE  \/ s \in {1, 2, 3, 4}
         \/ \E i \in 1 .. L : s = 4 + i
         \/ \E i \in 1 .. O : s = 4 + L + i
         \/ s = 5 + L + O
<1>1. CASE s \in 1 .. 4 BY <1>1
<1>2. CASE s \in 5 .. 4 + L
  <2>1. s - 4 \in 1 .. L /\ s = 4 + (s - 4) BY <1>2
  <2> QED BY <2>1
<1>3. CASE s \in 5 + L .. 4 + L + O
  <2>1. s - (4 + L) \in 1 .. O /\ s = 4 + L + (s - (4 + L)) BY <1>3
  <2> QED BY <2>1
<1>4. CASE s = 5 + L + O BY <1>4
<1>5. s \in 1 .. 4 \/ s \in 5 .. 4 + L \/ s \in 5 + L .. 4 + L + O \/ s = 5 + L + O OBVIOUS
<1> QED BY <1>1, <1>2, <1>3, <1>4, <1>5

(* A section that is copied comes from a chunk of its kind, and lies in it. *)
FromChunk(s, j) ==
  /\ j \in 1 .. Len(cue_wave)
  /\ Section(s).startOffset >= ChunkStart(cue_wave, j)
  /\ Section(s).startOffset + Section(s).size <= ChunkStart(cue_wave, j) + 8 + cue_wave[j].size
  /\ \/ /\ FormatAt(cue_wave, j)
        /\ \/ s = 2 /\ Section(s).startOffset = ChunkStart(cue_wave, j)
           \/ s = 3 /\ Section(s).startOffset = ChunkStart(cue_wave, j) + 24
     \/ /\ OtherAt(cue_wave, j)
        /\ \E i \in 1 .. Len(otherChunks) :
             s = 4 + Len(cueLocations) + i /\ otherChunks[i] = WholeChunk(cue_wave, j)
     \/ DataAt(cue_wave, j) /\ s = Sections

(* A section is new, or a copy from some chunk.                             *)
LEMMA SectionSources ==
  ASSUME Ready, NEW s \in 1 .. Sections
  PROVE  /\ Section(s).size \in Nat
         /\ \/ Section(s).startOffset = New
            \/ Section(s).startOffset \in Nat /\ \E j \in Nat : FromChunk(s, j)
<1> DEFINE L == Len(cueLocations)
           O == Len(otherChunks)
           n == Len(cue_wave)
<1>1. L \in Nat /\ O \in Nat /\ n \in Nat BY ReadyTypes
<1>2. /\ Sections = 5 + L + O
      /\ Section(1) = Location(New, 12)
      /\ Section(2) = Location(formatChunk.startOffset - 24, 24)
      /\ Section(3) = formatChunk
      /\ Section(4) = Location(New, 12)
      /\ \A i \in 1 .. L : Section(4 + i) = Location(New, 24)
      /\ \A i \in 1 .. O : Section(4 + L + i) = otherChunks[i]
      /\ Section(5 + L + O) = dataChunk
  BY SectionsAre
<1>3. WaveFile(cue_wave) /\ FoundIn(cue_wave, n + 1, formatChunk, dataChunk, otherChunks)
      /\ formatChunk # <<>> /\ dataChunk # <<>>
  BY DEF Ready
<1>4. (n + 1) - 1 = n BY <1>1
<1>5. s \in {1, 2, 3, 4} \/ (\E i \in 1 .. L : s = 4 + i)
      \/ (\E i \in 1 .. O : s = 4 + L + i) \/ s = 5 + L + O
  BY <1>1, <1>2, SectionNumbers
<1>6. 12 \in Nat /\ 24 \in Nat OBVIOUS
<1> HIDE DEF L, O, n
<1>7. CASE s = 1 \/ s = 4 \/ \E i \in 1 .. L : s = 4 + i
  <2>1. Section(s) = Location(New, 12) \/ Section(s) = Location(New, 24) BY <1>2, <1>7
  <2> QED BY <1>6, <2>1, LocationFields
<1>8. CASE s = 2 \/ s = 3
  <2>1. PICK j \in 1 .. n : FormatAt(cue_wave, j) /\ formatChunk = FormatExtra(cue_wave, j)
    BY <1>3, <1>4 DEF FoundIn
  <2>2. formatChunk.startOffset = ChunkStart(cue_wave, j) + 24
        /\ formatChunk.size = cue_wave[j].size - 16
    BY <2>1, LocationFields DEF FormatExtra
  <2>3. ChunkStart(cue_wave, j) \in Nat /\ cue_wave[j].size \in Nat /\ cue_wave[j].size >= 16
        /\ cue_wave[j].size - 16 \in Nat
    BY <1>3, <2>1, FormatSize, ChunkLocationTypes DEF n
  <2>4. \A a, z \in Nat : z >= 16 =>
          /\ (a + 24) - 24 = a /\ a + 24 \in Nat /\ a >= a /\ a + 24 >= a
          /\ a + 24 <= a + 8 + z /\ (a + 24) + (z - 16) <= a + 8 + z
    OBVIOUS
  <2>5. CASE s = 2
    <3>1. Section(s).startOffset = ChunkStart(cue_wave, j) /\ Section(s).size = 24
      <4>1. Section(s) = Location(formatChunk.startOffset - 24, 24) BY <1>2, <2>5
      <4>2. formatChunk.startOffset - 24 = ChunkStart(cue_wave, j) BY <2>2, <2>3, <2>4
      <4> QED BY <4>1, <4>2, LocationFields
    <3>2. FromChunk(s, j) BY <2>1, <2>3, <2>4, <2>5, <3>1 DEF FromChunk, n
    <3> QED BY <1>1, <1>6, <2>3, <3>1, <3>2
  <2>6. CASE s = 3
    <3>1. Section(s).startOffset = ChunkStart(cue_wave, j) + 24
          /\ Section(s).size = cue_wave[j].size - 16
      BY <1>2, <2>2, <2>6
    <3>2. /\ Section(s).startOffset >= ChunkStart(cue_wave, j)
          /\ Section(s).startOffset + Section(s).size
               <= ChunkStart(cue_wave, j) + 8 + cue_wave[j].size
      BY <2>3, <2>4, <3>1
    <3>3. FromChunk(s, j) BY <2>1, <2>6, <3>1, <3>2, Zenon DEF FromChunk, n
    <3>4. j \in Nat BY <1>1, <2>1
    <3>5. Section(s).size \in Nat /\ Section(s).startOffset \in Nat BY <2>3, <2>4, <3>1
    <3> QED BY <3>3, <3>4, <3>5
  <2> QED BY <1>8, <2>5, <2>6
<1>9. CASE \E i \in 1 .. O : s = 4 + L + i
  <2>1. PICK i \in 1 .. O : s = 4 + L + i BY <1>9
  <2>2. Section(s) = otherChunks[i] BY <1>2, <2>1
  <2>3. i \in DOMAIN otherChunks BY ReadyTypes DEF O
  <2>4. PICK j \in 1 .. n : OtherAt(cue_wave, j) /\ otherChunks[i] = WholeChunk(cue_wave, j)
    BY <1>3, <1>4, <2>3 DEF FoundIn
  <2>5. Section(s).startOffset = ChunkStart(cue_wave, j) /\ Section(s).size = 8 + cue_wave[j].size
    BY <2>2, <2>4, LocationFields DEF WholeChunk
  <2>6. ChunkStart(cue_wave, j) \in Nat /\ cue_wave[j].size \in Nat
    BY <1>3, <2>4, ChunkLocationTypes DEF n
  <2>7. \A a, z \in Nat : a >= a /\ a + (8 + z) <= a + 8 + z /\ 8 + z \in Nat OBVIOUS
  <2>8. FromChunk(s, j) BY <2>1, <2>4, <2>5, <2>6, <2>7 DEF FromChunk, n, O, L
  <2> QED BY <1>1, <2>5, <2>6, <2>7, <2>8
<1>10. CASE s = 5 + L + O
  <2>2. Section(s) = dataChunk /\ s = Sections BY <1>2, <1>10
  <2>4. PICK j \in 1 .. n : DataAt(cue_wave, j) /\ dataChunk = WholeChunk(cue_wave, j)
    BY <1>3, <1>4 DEF FoundIn
  <2>5. Section(s).startOffset = ChunkStart(cue_wave, j) /\ Section(s).size = 8 + cue_wave[j].size
    BY <2>2, <2>4, LocationFields DEF WholeChunk
  <2>6. ChunkStart(cue_wave, j) \in Nat /\ cue_wave[j].size \in Nat
    BY <1>3, <2>4, ChunkLocationTypes DEF n
  <2>7. \A a, z \in Nat : a >= a /\ a + (8 + z) <= a + 8 + z /\ 8 + z \in Nat OBVIOUS
  <2>8. FromChunk(s, j) BY <2>2, <2>4, <2>5, <2>6, <2>7 DEF FromChunk, n
  <2> QED BY <1>1, <2>5, <2>6, <2>7, <2>8
<1> QED BY <1>5, <1>7, <1>8, <1>9, <1>10

\* How much of the output is written before section s.
SectionSizes == [s \in 1 .. Sections |-> Padded(Section(s).size)]
Before(s) == SumTo(SectionSizes, s - 1)

(* Each section begins where the one before it ends, at an even place.      *)
LEMMA SectionPlaces ==
  ASSUME Ready
  PROVE  /\ Sections \in Nat /\ Sections >= 5
         /\ SectionSizes \in Seq(Nat) /\ Len(SectionSizes) = Sections
         /\ \A s \in 1 .. Sections : Padded(Section(s).size) \in Nat
         /\ Before(1) = 0
         /\ \A s \in 1 .. Sections + 1 : Before(s) \in Nat /\ Before(s) % 2 = 0
         /\ \A s \in 1 .. Sections : Before(s + 1) = Before(s) + Padded(Section(s).size)
         /\ \A r, s \in 1 .. Sections + 1 : r <= s => Before(r) <= Before(s)
<1> DEFINE f == SectionSizes
<1>1. Sections \in Nat /\ Sections >= 5 BY ReadyTypes, SectionsAre
<1>2. \A s \in 1 .. Sections : Padded(Section(s).size) \in Nat /\ Padded(Section(s).size) % 2 = 0
  BY SectionSources, PaddedEven
<1>3. f \in Seq(Nat) /\ Len(f) = Sections
      /\ \A s \in 1 .. Sections : f[s] = Padded(Section(s).size)
  BY <1>1, <1>2 DEF SectionSizes
<1>4. \A s : Before(s) = SumTo(f, s - 1) BY DEF Before
<1> HIDE DEF f
<1>5. Before(1) = 0 BY <1>3, <1>4, SumEquations
<1>6. ASSUME NEW s \in 1 .. Sections
      PROVE  Before(s + 1) = Before(s) + Padded(Section(s).size)
  <2>1. (s + 1) - 1 = s /\ s \in 1 .. Len(f) BY <1>3
  <2> QED BY <1>3, <1>4, <2>1, SumEquations
<1>7. ASSUME NEW s \in 1 .. Sections + 1 PROVE Before(s) \in Nat
  <2>1. s - 1 \in 0 .. Len(f) BY <1>1, <1>3
  <2> QED BY <1>3, <1>4, <2>1, SumEquations
<1>8. ASSUME NEW r \in 1 .. Sections + 1, NEW s \in 1 .. Sections + 1, r <= s
      PROVE  Before(r) <= Before(s)
  <2>1. r - 1 \in 0 .. Len(f) /\ s - 1 \in 0 .. Len(f) /\ r - 1 <= s - 1 BY <1>1, <1>3, <1>8
  <2>2. SumTo(f, r - 1) <= SumTo(f, s - 1) BY <1>3, <2>1, SumGrows
  <2> QED BY <1>4, <2>2
<1>9. 0 .. Sections \subseteq {i \in 0 .. Sections : Before(i + 1) % 2 = 0}
  <2> DEFINE T == {i \in 0 .. Sections : Before(i + 1) % 2 = 0}
  <2>1. 0 \in T BY <1>1, <1>5
  <2>2. ASSUME NEW i \in 0 .. Sections - 1, i \in T PROVE i + 1 \in T
    <3>1. i + 1 \in 1 .. Sections /\ i + 1 \in 1 .. Sections + 1 BY <1>1
    <3>2. Before((i + 1) + 1) = Before(i + 1) + Padded(Section(i + 1).size) BY <1>6, <3>1
    <3>3. Before(i + 1) \in Nat /\ Before(i + 1) % 2 = 0 BY <1>7, <2>2, <3>1
    <3>4. Before((i + 1) + 1) % 2 = 0 BY <1>2, <3>1, <3>2, <3>3, EvenSum
    <3> QED BY <1>1, <3>1, <3>4
  <2> HIDE DEF T
  <2>3. 0 .. Sections \subseteq T BY <1>1, <2>1, <2>2, UpTo
  <2> QED BY <2>3 DEF T
<1>10. ASSUME NEW s \in 1 .. Sections + 1 PROVE Before(s) % 2 = 0
  <2>1. s - 1 \in 0 .. Sections /\ (s - 1) + 1 = s BY <1>1
  <2> QED BY <1>9, <2>1
<1> QED BY <1>1, <1>2, <1>3, <1>5, <1>6, <1>7, <1>8, <1>10 DEF f

(* All sections together are as long as the header declares.                *)
LEMMA TotalSize ==
  ASSUME Ready PROVE Before(Sections + 1) = fileDataSize + 8
<1> DEFINE L == Len(cueLocations)
           O == Len(otherChunks)
           g == PaddedSizes(otherChunks)
           P == Padded(formatChunk.size)
           Q == Padded(dataChunk.size)
<1>1. L \in Nat /\ O \in Nat /\ otherChunks \in Seq(ChunkLocations) BY ReadyTypes
<1>2. /\ Sections = 5 + L + O
      /\ Section(1) = Location(New, 12)
      /\ Section(2) = Location(formatChunk.startOffset - 24, 24)
      /\ Section(3) = formatChunk
      /\ Section(4) = Location(New, 12)
      /\ \A i \in 1 .. L : Section(4 + i) = Location(New, 24)
      /\ \A i \in 1 .. O : Section(4 + L + i) = otherChunks[i]
      /\ Section(5 + L + O) = dataChunk
  BY SectionsAre
<1>3. /\ Before(1) = 0
      /\ \A s \in 1 .. Sections + 1 : Before(s) \in Nat
      /\ \A s \in 1 .. Sections : Before(s + 1) = Before(s) + Padded(Section(s).size)
  BY SectionPlaces
<1>4. Padded(12) = 12 /\ Padded(24) = 24 BY DEF Padded
<1>5. /\ g \in Seq(Nat) /\ Len(g) = O /\ \A i \in 1 .. O : g[i] = Padded(otherChunks[i].size)
  BY <1>1, PaddedSizesType
<1>6. fileDataSize = 4 + 24 + P + Q + SumTo(g, O) + 12 + 24 * L
  BY DEF fileDataSize, PaddedSizes
<1>7. P \in Nat /\ Q \in Nat
  <2>1. formatChunk.size \in Nat /\ dataChunk.size \in Nat BY ReadyTypes DEF ChunkLocations
  <2> QED BY <2>1, PaddedEven
<1>8. P = Padded(Section(3).size) /\ Q = Padded(Section(Sections).size) BY <1>2
<1> HIDE DEF L, O, g, P, Q
<1>9. Before(5) = 48 + P
  <2>1. {1, 2, 3, 4} \subseteq 1 .. Sections BY <1>1, <1>2
  <2>2. Section(1).size = 12 /\ Section(2).size = 24 /\ Section(4).size = 12
    BY <1>2, LocationFields
  <2>3. Before(1 + 1) = 0 + 12 BY <1>3, <1>4, <2>1, <2>2
  <2>4. Before(2 + 1) = Before(2) + 24 BY <1>3, <1>4, <2>1, <2>2
  <2>5. Before(3 + 1) = Before(3) + P BY <1>3, <1>8, <2>1
  <2>6. Before(4 + 1) = Before(4) + 12 BY <1>3, <1>4, <2>1, <2>2
  <2> QED BY <1>7, <2>3, <2>4, <2>5, <2>6
<1>10. 0 .. L \subseteq {i \in 0 .. L : Before(5 + i) = 48 + P + 24 * i}
  <2> DEFINE T == {i \in 0 .. L : Before(5 + i) = 48 + P + 24 * i}
  <2>1. 0 \in T BY <1>1, <1>7, <1>9
  <2>2. ASSUME NEW i \in 0 .. L - 1, i \in T PROVE i + 1 \in T
    <3>1. i + 1 \in 1 .. L /\ 5 + i \in 1 .. Sections /\ 5 + i = 4 + (i + 1)
          /\ (5 + i) + 1 = 5 + (i + 1)
      BY <1>1, <1>2
    <3>2. Section(5 + i) = Location(New, 24) BY <1>2, <3>1
    <3>3. Section(5 + i).size = 24 BY <3>2, LocationFields
    <3>4. Before(5 + (i + 1)) = Before(5 + i) + 24 BY <1>3, <1>4, <3>1, <3>3
    <3>5. Before(5 + i) = 48 + P + 24 * i BY <2>2
    <3>6. Before(5 + (i + 1)) = 48 + P + 24 * (i + 1) BY <1>7, <3>4, <3>5
    <3> QED BY <1>1, <3>1, <3>6
  <2> HIDE DEF T
  <2>3. 0 .. L \subseteq T BY <1>1, <2>1, <2>2, UpTo
  <2> QED BY <2>3 DEF T
<1>11. Before(5 + L) = 48 + P + 24 * L
  <2>1. L \in 0 .. L BY <1>1
  <2> QED BY <1>10, <2>1
<1>12. 0 .. O \subseteq {i \in 0 .. O : Before(5 + L + i) = Before(5 + L) + SumTo(g, i)}
  <2> DEFINE T == {i \in 0 .. O : Before(5 + L + i) = Before(5 + L) + SumTo(g, i)}
  <2>0. 5 + L \in 1 .. Sections + 1 /\ (5 + L) + 0 = 5 + L BY <1>1, <1>2
  <2>1. 0 \in T
    <3>1. SumTo(g, 0) = 0 BY <1>5, SumEquations
    <3>2. Before(5 + L) \in Nat BY <1>3, <2>0
    <3> QED BY <1>1, <2>0, <3>1, <3>2
  <2>2. ASSUME NEW i \in 0 .. O - 1, i \in T PROVE i + 1 \in T
    <3>1. i + 1 \in 1 .. O /\ 5 + L + i \in 1 .. Sections /\ 5 + L + i = 4 + L + (i + 1)
          /\ (5 + L + i) + 1 = 5 + L + (i + 1) /\ (i + 1) - 1 = i /\ i \in 0 .. O
      BY <1>1, <1>2
    <3>2. Section(5 + L + i) = otherChunks[i + 1] BY <1>2, <3>1
    <3>3. Padded(Section(5 + L + i).size) = g[i + 1] BY <1>5, <3>1, <3>2
    <3>4. Before(5 + L + (i + 1)) = Before(5 + L + i) + g[i + 1] BY <1>3, <3>1, <3>3
    <3>5. SumTo(g, i + 1) = SumTo(g, i) + g[i + 1] BY <1>5, <3>1, SumEquations
    <3>6. Before(5 + L + i) = Before(5 + L) + SumTo(g, i) BY <2>2
    <3>7. SumTo(g, i) \in Nat /\ g[i + 1] \in Nat /\ Before(5 + L) \in Nat
      <4>1. SumTo(g, i) \in Nat BY <1>5, <3>1, SumEquations
      <4>2. g[i + 1] \in Nat BY <1>5, <3>1
      <4>3. Before(5 + L) \in Nat BY <1>3, <2>0
      <4> QED BY <4>1, <4>2, <4>3
    <3>8. Before(5 + L + (i + 1)) = Before(5 + L) + SumTo(g, i + 1)
      BY <3>4, <3>5, <3>6, <3>7
    <3> QED BY <1>1, <3>1, <3>8
  <2> HIDE DEF T
  <2>3. 0 .. O \subseteq T BY <1>1, <2>1, <2>2, UpTo
  <2> QED BY <2>3 DEF T
<1>13. Before(5 + L + O) = Before(5 + L) + SumTo(g, O)
  <2>1. O \in 0 .. O BY <1>1
  <2> QED BY <1>12, <2>1
<1>14. Before(Sections + 1) = Before(Sections) + Q
  <2>1. Sections \in 1 .. Sections BY <1>1, <1>2
  <2> QED BY <1>3, <1>8, <2>1
<1>15. SumTo(g, O) \in Nat
  <2>1. O \in 0 .. Len(g) BY <1>1, <1>5
  <2> QED BY <1>5, <2>1, SumEquations
<1>16. Before(Sections) = Before(5 + L + O) BY <1>2
<1> DEFINE b1 == Before(5 + L)
           b2 == Before(5 + L + O)
           t == SumTo(g, O)
<1>17. b1 = 48 + P + 24 * L /\ b2 = b1 + t /\ Before(Sections + 1) = b2 + Q
       /\ fileDataSize = 4 + 24 + P + Q + t + 12 + 24 * L /\ t \in Nat
  BY <1>6, <1>11, <1>13, <1>14, <1>15, <1>16
<1> HIDE DEF b1, b2, t
<1> QED BY <1>1, <1>7, <1>17

(* The declared size fits its field, since the input's does with all points.*)
LEMMA TotalFits ==
  ASSUME Ready
  PROVE  Declared + 8 = Before(Sections + 1)
<1> DEFINE n == Len(cue_wave)
           L == Len(cueLocations)
           P == Padded(formatChunk.size)
           Q == Padded(dataChunk.size)
           R == OthersSize(otherChunks)
           C == ChunkStart(cue_wave, n + 1)
<1>1. L \in Nat /\ MaxLocations \in Nat /\ L <= MaxLocations
  BY LimitsAssumption, ReadyTypes DEF Ready
<1>2. fileDataSize = 4 + 24 + P + Q + R + 12 + 24 * L
  BY DEF fileDataSize, OthersSize, PaddedSizes
<1>3. P \in Nat /\ Q \in Nat
  <2>1. formatChunk.size \in Nat /\ dataChunk.size \in Nat BY ReadyTypes DEF ChunkLocations
  <2> QED BY <2>1, PaddedEven
<1>4. R \in Nat BY ReadyTypes, PaddedSizesType
<1>5. 24 + P + Q + R <= C - 12 BY DEF Ready, FoundIn, Accounted
<1>6. C \in Nat BY ReadyTypes, ChunkPlaces DEF Ready
<1>7. C + 12 + 24 * MaxLocations < FieldLimit BY DEF Ready, WaveFile, FieldLimit
<1>8. FieldLimit \in Nat
  <2>1. ByteValues \in Nat BY LimitsAssumption
  <2>2. ByteValues * ByteValues \in Nat BY <2>1
  <2>3. ByteValues * (ByteValues * ByteValues) \in Nat BY <2>1, <2>2
  <2> QED BY <2>1, <2>3 DEF FieldLimit
<1> HIDE DEF n, L, P, Q, R, C
<1>9. 24 * L <= 24 * MaxLocations BY <1>1
<1>10. fileDataSize \in Nat /\ fileDataSize < FieldLimit
  BY <1>1, <1>2, <1>3, <1>4, <1>5, <1>6, <1>7, <1>8, <1>9
<1>11. Declared = fileDataSize BY <1>10, NumbersKept DEF Declared
<1> QED BY <1>11, TotalSize
-----------------------------------------------------------------------------
(* A finished output is whole.                                              *)

\* The bytes written so far of section s and of those before it.
Written(s, b) == s < cue_section \/ (s = cue_section /\ b <= cue_done)
Placed ==
  \A s \in 1 .. Sections : \A b \in 1 .. Padded(Section(s).size) :
    Written(s, b) => cue_out[Before(s) + b] = SectionByte(Section(s), b)
Writing ==
  /\ cue_section \in 1 .. Sections + 1 /\ cue_done \in Nat
  /\ cue_section <= Sections => cue_done = 0 \/ cue_done < Padded(Section(cue_section).size)
  /\ cue_section = Sections + 1 => cue_done = 0
  /\ cue_out \in Seq(Int) /\ Len(cue_out) = Before(cue_section) + cue_done
  /\ Placed

(* A place in what a sequence adds up to lies in one of its numbers.        *)
LEMMA SumFinds ==
  ASSUME NEW f \in Seq(Nat), NEW n \in Nat, n >= 1, n <= SumTo(f, Len(f))
  PROVE  \E s \in 1 .. Len(f) : \E b \in 1 .. f[s] : n = SumTo(f, s - 1) + b
<1> DEFINE T == {s \in 0 .. Len(f) : n <= SumTo(f, s)}
<1>1. T \subseteq Nat /\ Len(f) \in T OBVIOUS
<1>2. PICK s \in T : \A r \in T : s <= r BY <1>1, SmallestOf
<1>3. s \in 0 .. Len(f) /\ n <= SumTo(f, s) BY <1>2
<1>4. SumTo(f, 0) = 0 BY SumEquations
<1>5. s \in 1 .. Len(f) BY <1>3, <1>4
<1>6. s - 1 \in 0 .. Len(f) /\ ~ s <= s - 1 BY <1>5
<1>7. ~ n <= SumTo(f, s - 1) BY <1>2, <1>6
<1>8. SumTo(f, s) = SumTo(f, s - 1) + f[s] /\ SumTo(f, s - 1) \in Nat /\ f[s] \in Nat
  BY <1>5, <1>6, SumEquations
<1> HIDE DEF T
<1> DEFINE b == n - SumTo(f, s - 1)
<1>9. b \in 1 .. f[s] /\ n = SumTo(f, s - 1) + b BY <1>3, <1>7, <1>8
<1> HIDE DEF b
<1> QED BY <1>5, <1>9

(* So every byte of a complete output comes from a section.                 *)
LEMMA BytesFound ==
  ASSUME Ready, NEW n \in Nat, n >= 1, n <= Before(Sections + 1)
  PROVE  \E s \in 1 .. Sections : \E b \in 1 .. Padded(Section(s).size) : n = Before(s) + b
<1> DEFINE f == SectionSizes
<1>1. /\ f \in Seq(Nat) /\ Len(f) = Sections /\ Sections \in Nat
      /\ \A s \in 1 .. Sections : f[s] = Padded(Section(s).size)
  BY SectionPlaces DEF SectionSizes
<1>2. (Sections + 1) - 1 = Sections BY <1>1
<1>3. \A s : Before(s) = SumTo(f, s - 1) BY DEF Before
<1> HIDE DEF f
<1>4. n <= SumTo(f, Len(f)) BY <1>1, <1>2, <1>3
<1>5. PICK s \in 1 .. Len(f) : \E b \in 1 .. f[s] : n = SumTo(f, s - 1) + b
  BY <1>1, <1>4, SumFinds
<1> QED BY <1>1, <1>3, <1>5

(* The section that begins where a chunk of the input does.                 *)
LEMMA SectionOfChunk ==
  ASSUME Ready, NEW k \in 1 .. Len(cue_wave), ~ CueAt(cue_wave, k)
  PROVE  \E s \in 1 .. Sections :
           /\ Section(s).startOffset = ChunkStart(cue_wave, k)
           /\ \/ Section(s).size = 8 + cue_wave[k].size
              \/ /\ s = 2 /\ Section(2).size = 24 /\ Section(3) = FormatExtra(cue_wave, k)
                 /\ FormatAt(cue_wave, k)
           /\ \A r \in 1 .. Sections :
                FromChunk(r, k) /\ Section(r).startOffset = ChunkStart(cue_wave, k) => r = s
<1> DEFINE L == Len(cueLocations)
           O == Len(otherChunks)
           n == Len(cue_wave)
           start == ChunkStart(cue_wave, k)
<1>1. L \in Nat /\ O \in Nat /\ n \in Nat /\ DOMAIN otherChunks = 1 .. O BY ReadyTypes
<1>2. /\ Sections = 5 + L + O
      /\ Section(2) = Location(formatChunk.startOffset - 24, 24)
      /\ Section(3) = formatChunk
      /\ \A i \in 1 .. O : Section(4 + L + i) = otherChunks[i]
      /\ Section(5 + L + O) = dataChunk
  BY SectionsAre
<1>3. /\ WaveFile(cue_wave) /\ FoundIn(cue_wave, n + 1, formatChunk, dataChunk, otherChunks)
      /\ formatChunk # <<>> /\ dataChunk # <<>>
  BY DEF Ready
<1>4. (n + 1) - 1 = n /\ DOMAIN cue_wave = 1 .. n BY <1>1, <1>3, WaveChunks
<1>5. start \in Nat /\ start + 24 # start
  <2>1. start \in Nat BY <1>3, ChunkLocationTypes
  <2> HIDE DEF start
  <2> QED BY <2>1
<1>6. \A r : FromChunk(r, k) /\ Section(r).startOffset = start =>
        \/ FormatAt(cue_wave, k) /\ r = 2
        \/ /\ OtherAt(cue_wave, k)
           /\ \E i \in 1 .. O : r = 4 + L + i /\ otherChunks[i] = WholeChunk(cue_wave, k)
        \/ DataAt(cue_wave, k) /\ r = 5 + L + O
  BY <1>2, <1>5 DEF FromChunk
<1> HIDE DEF L, O, n, start
<1>7. CASE FormatAt(cue_wave, k)
  <2>1. PICK j \in 1 .. n : FormatAt(cue_wave, j) /\ formatChunk = FormatExtra(cue_wave, j)
    BY <1>3, <1>4 DEF FoundIn
  <2>2. j = k BY <1>3, <1>4, <1>7, <2>1, KindsOnce DEF n
  <2>3. formatChunk.startOffset = start + 24 BY <2>1, <2>2, LocationFields DEF FormatExtra, start
  <2>4. (start + 24) - 24 = start BY <1>5
  <2>5. Section(2) = Location(start, 24) BY <1>2, <2>3, <2>4
  <2>6. Section(2).startOffset = start /\ Section(2).size = 24 BY <2>5, LocationFields
  <2>7. Section(3) = FormatExtra(cue_wave, k) BY <1>2, <2>1, <2>2
  <2>8. \A r : FromChunk(r, k) /\ Section(r).startOffset = start => r = 2
    BY <1>6, <1>7, KindsDiffer
  <2>9. 2 \in 1 .. Sections BY <1>1, <1>2
  <2> QED BY <1>7, <2>6, <2>7, <2>8, <2>9 DEF start
<1>8. CASE OtherAt(cue_wave, k)
  <2>1. PICK i \in 1 .. O : otherChunks[i] = WholeChunk(cue_wave, k)
    BY <1>1, <1>3, <1>4, <1>8 DEF FoundIn, n
  <2>2. Section(4 + L + i) = WholeChunk(cue_wave, k) BY <1>2, <2>1
  <2>3. Section(4 + L + i).startOffset = start
        /\ Section(4 + L + i).size = 8 + cue_wave[k].size
    BY <2>2, LocationFields DEF WholeChunk, start
  <2>4. \A h \in 1 .. O : otherChunks[h] = WholeChunk(cue_wave, k) => h = i
    BY <1>1, <1>3, <2>1 DEF FoundIn
  <2>5. ASSUME NEW r, FromChunk(r, k), Section(r).startOffset = start PROVE r = 4 + L + i
    <3>1. PICK h \in 1 .. O : r = 4 + L + h /\ otherChunks[h] = WholeChunk(cue_wave, k)
      BY <1>6, <1>8, <2>5, KindsDiffer
    <3> QED BY <2>4, <3>1
  <2>6. 4 + L + i \in 1 .. Sections BY <1>1, <1>2
  <2> HIDE DEF start
  <2> QED BY <2>3, <2>5, <2>6 DEF start
<1>9. CASE DataAt(cue_wave, k)
  <2>1. PICK j \in 1 .. n : DataAt(cue_wave, j) /\ dataChunk = WholeChunk(cue_wave, j)
    BY <1>3, <1>4 DEF FoundIn
  <2>2. j = k BY <1>3, <1>4, <1>9, <2>1, KindsOnce DEF n
  <2>3. Section(5 + L + O).startOffset = start
        /\ Section(5 + L + O).size = 8 + cue_wave[k].size
    BY <1>2, <2>1, <2>2, LocationFields DEF WholeChunk, start
  <2>4. \A r : FromChunk(r, k) /\ Section(r).startOffset = start => r = 5 + L + O
    BY <1>6, <1>9, KindsDiffer
  <2>5. 5 + L + O \in 1 .. Sections BY <1>1, <1>2
  <2> QED BY <2>3, <2>4, <2>5 DEF start
<1> QED BY <1>3, <1>7, <1>8, <1>9, KindsAll

(* A copy from a chunk stays inside of it.                                  *)
LEMMA FromChunkBegins ==
  ASSUME Ready, NEW s \in 1 .. Sections, NEW j, FromChunk(s, j)
  PROVE  /\ j \in 1 .. Len(cue_wave)
         /\ Section(s).startOffset >= ChunkStart(cue_wave, j)
         /\ Section(s).startOffset + Section(s).size <= ChunkStart(cue_wave, j) + 8 + cue_wave[j].size
         /\ \/ Section(s).startOffset = ChunkStart(cue_wave, j)
            \/ Section(s).startOffset = ChunkStart(cue_wave, j) + 24
<1>1. ASSUME NEW i \in 1 .. Len(otherChunks), s = 4 + Len(cueLocations) + i,
             otherChunks[i] = WholeChunk(cue_wave, j)
      PROVE  Section(s).startOffset = ChunkStart(cue_wave, j)
  <2>1. Section(s) = WholeChunk(cue_wave, j) BY <1>1, SectionsAre
  <2> QED BY <2>1, LocationFields DEF WholeChunk
<1>2. ASSUME DataAt(cue_wave, j), s = Sections
      PROVE  Section(s).startOffset = ChunkStart(cue_wave, j)
  <2> DEFINE n == Len(cue_wave)
  <2>1. Section(s) = dataChunk BY <1>2, SectionsAre
  <2>2. (n + 1) - 1 = n BY ReadyTypes
  <2>3. PICK i \in 1 .. n : DataAt(cue_wave, i) /\ dataChunk = WholeChunk(cue_wave, i)
    BY <2>2 DEF Ready, FoundIn
  <2>4. i = j
    <3>1. WaveFile(cue_wave) /\ DOMAIN cue_wave = 1 .. n BY WaveChunks DEF Ready
    <3>2. j \in 1 .. n BY DEF FromChunk
    <3> QED BY <1>2, <2>3, <3>1, <3>2, KindsOnce
  <2> QED BY <2>1, <2>3, <2>4, LocationFields DEF WholeChunk
<1> QED BY <1>1, <1>2 DEF FromChunk

(* No byte of another chunk stands for the first byte of a chunk.           *)
LEMMA FirstByteFrom ==
  ASSUME Ready, NEW k \in 1 .. Len(cue_wave), NEW s \in 1 .. Sections,
         NEW b \in 1 .. Padded(Section(s).size),
         SectionByte(Section(s), b) = ChunkStart(cue_wave, k)
  PROVE  FromChunk(s, k) /\ Section(s).startOffset = ChunkStart(cue_wave, k) /\ b = 1
<1> DEFINE n == Len(cue_wave)
           start == ChunkStart(cue_wave, k)
           at == Section(s).startOffset
           z == Section(s).size
<1>1. WaveFile(cue_wave) /\ n \in Nat BY ReadyTypes DEF Ready
<1>2. start \in Nat BY <1>1, ChunkLocationTypes
<1>3. at # New /\ b <= z /\ start = at + b - 1
  <2>1. start # New BY <1>2 DEF New
  <2>2. SectionByte(Section(s), b) = IF at = New \/ b > z THEN New ELSE at + b - 1
    BY DEF SectionByte
  <2>3. z \in Nat /\ b \in Int
    <3>1. z \in Nat BY SectionSources
    <3> HIDE DEF z
    <3> QED BY <3>1
  <2> HIDE DEF at, z, start
  <2>4. SectionByte(Section(s), b) = start BY DEF start
  <2> QED BY <2>1, <2>2, <2>3, <2>4
<1>4. at \in Nat /\ z \in Nat BY <1>3, SectionSources
<1>5. PICK j \in Nat : FromChunk(s, j) BY <1>3, SectionSources
<1>6. /\ j \in 1 .. n /\ at >= ChunkStart(cue_wave, j)
      /\ at + z <= ChunkStart(cue_wave, j) + 8 + cue_wave[j].size
      /\ at = ChunkStart(cue_wave, j) \/ at = ChunkStart(cue_wave, j) + 24
  BY <1>5, FromChunkBegins
<1>7. b \in Nat /\ b >= 1
  <2>1. Padded(z) \in Nat BY <1>4, PaddedEven
  <2> HIDE DEF z
  <2> QED BY <2>1 DEF z
<1>8. ChunkStart(cue_wave, j) \in Nat /\ cue_wave[j].size \in Nat /\ cue_wave[k].size \in Nat
      /\ cue_wave[j].size <= Padded(cue_wave[j].size) /\ Padded(cue_wave[j].size) \in Nat
      /\ Padded(cue_wave[k].size) \in Nat
  <2>1. ChunkStart(cue_wave, j) \in Nat /\ cue_wave[j].size \in Nat /\ cue_wave[k].size \in Nat
    BY <1>1, <1>6, ChunkLocationTypes
  <2> QED BY <2>1, PaddedEven
<1>9. /\ j < k => ChunkStart(cue_wave, j) + 8 + Padded(cue_wave[j].size) <= start
      /\ k < j => start + 8 + Padded(cue_wave[k].size) <= ChunkStart(cue_wave, j)
  <2>1. j \in 1 .. n + 1 /\ k \in 1 .. n + 1 BY <1>1, <1>6
  <2> QED BY <1>1, <1>6, <2>1, ChunkPlaces
<1> HIDE DEF n, start, at, z
<1>10. j = k
  <2>0. start = at + b - 1 /\ at <= start /\ start < at + z BY <1>3, <1>4, <1>7
  <2>1. ASSUME j < k PROVE FALSE
    <3>1. ChunkStart(cue_wave, j) + 8 + Padded(cue_wave[j].size) <= start BY <1>9, <2>1
    <3>2. at + z <= ChunkStart(cue_wave, j) + 8 + Padded(cue_wave[j].size)
      <4>1. at + z <= ChunkStart(cue_wave, j) + 8 + cue_wave[j].size BY <1>6
      <4> QED BY <1>4, <1>8, <4>1, SMTT(30)
    <3> QED BY <1>2, <1>4, <1>8, <2>0, <3>1, <3>2, SMTT(30)
  <2>2. ASSUME k < j PROVE FALSE
    <3>1. start + 8 + Padded(cue_wave[k].size) <= ChunkStart(cue_wave, j) BY <1>9, <2>2
    <3> QED BY <1>2, <1>4, <1>6, <1>8, <2>0, <3>1
  <2>3. j \in Int /\ k \in Int BY <1>1, <1>6 DEF n
  <2> QED BY <2>1, <2>2, <2>3
<1>11. at = start /\ b = 1
  <2>1. at = start \/ at = start + 24 BY <1>6, <1>10 DEF start
  <2> QED BY <1>2, <1>3, <1>7, <2>1
<1> QED BY <1>5, <1>10, <1>11 DEF at, start

(* When every section is written the output is a whole wave file.           *)
LEMMA FinishedWhole ==
  ASSUME Ready, Writing, cue_section = Sections + 1
  PROVE  /\ Declared + 8 = Len(cue_out)
         /\ \A k \in DOMAIN cue_wave : cue_wave[k].id # "cue " =>
              LET start == ChunkStart(cue_wave, k)
                  size == 8 + cue_wave[k].size
                  at == {n \in DOMAIN cue_out : cue_out[n] = start}
              IN \E n \in at :
                   /\ at = {n} /\ n % 2 = 1
                   /\ n + size - 1 <= Len(cue_out)
                   /\ \A b \in 0 .. size - 1 : cue_out[n + b] = start + b
<1>1. Len(cue_out) = Before(Sections + 1) /\ cue_done = 0
  <2>1. Sections + 1 \in 1 .. Sections + 1 BY SectionPlaces
  <2>2. Before(Sections + 1) \in Nat BY <2>1, SectionPlaces
  <2> QED BY <2>2 DEF Writing
<1>2. Declared + 8 = Len(cue_out) BY <1>1, TotalFits
<1>3. Sections \in Nat BY SectionPlaces
<1>4. \A s \in 1 .. Sections : \A b \in 1 .. Padded(Section(s).size) :
        cue_out[Before(s) + b] = SectionByte(Section(s), b)
  <2>1. \A s \in 1 .. Sections : s < cue_section BY <1>3
  <2> QED BY <2>1 DEF Writing, Placed, Written
<1>5. ASSUME NEW k \in 1 .. Len(cue_wave), ~ CueAt(cue_wave, k)
      PROVE  LET start == ChunkStart(cue_wave, k)
                 size == 8 + cue_wave[k].size
                 at == {n \in DOMAIN cue_out : cue_out[n] = start}
             IN \E n \in at :
                  /\ at = {n} /\ n % 2 = 1
                  /\ n + size - 1 <= Len(cue_out)
                  /\ \A b \in 0 .. size - 1 : cue_out[n + b] = start + b
  <2> DEFINE start == ChunkStart(cue_wave, k)
             size == 8 + cue_wave[k].size
             at == {n \in DOMAIN cue_out : cue_out[n] = start}
  <2>1. WaveFile(cue_wave) BY DEF Ready
  <2>2. start \in Nat /\ cue_wave[k].size \in Nat BY <2>1, ChunkLocationTypes
  <2>3. PICK s \in 1 .. Sections :
           /\ Section(s).startOffset = start
           /\ \/ Section(s).size = size
              \/ /\ s = 2 /\ Section(2).size = 24 /\ Section(3) = FormatExtra(cue_wave, k)
                 /\ FormatAt(cue_wave, k)
           /\ \A r \in 1 .. Sections :
                FromChunk(r, k) /\ Section(r).startOffset = start => r = s
    BY <1>5, SectionOfChunk
  <2>4. /\ Before(s) \in Nat /\ Before(s) % 2 = 0
        /\ s + 1 \in 1 .. Sections + 1
        /\ Before(s + 1) = Before(s) + Padded(Section(s).size)
        /\ Before(s + 1) <= Len(cue_out) /\ Before(s + 1) \in Nat
    <3>1. s \in 1 .. Sections + 1 /\ s + 1 \in 1 .. Sections + 1
          /\ Sections + 1 \in 1 .. Sections + 1 /\ s + 1 <= Sections + 1
      BY <1>3
    <3> QED BY <1>1, <3>1, SectionPlaces
  <2>5. Section(s).size \in Nat /\ Section(s).size <= Padded(Section(s).size)
        /\ Padded(Section(s).size) \in Nat
    <3>1. Section(s).size \in Nat BY SectionSources
    <3> QED BY <3>1, PaddedEven
  <2>6. DOMAIN cue_out = 1 .. Len(cue_out) /\ Len(cue_out) \in Nat BY DEF Writing
  <2>7. start # New BY <2>2 DEF New
  <2> HIDE DEF start, size
  <2>8. ASSUME NEW b \in 1 .. Section(s).size
        PROVE  cue_out[Before(s) + b] = start + b - 1
    <3>1. b \in 1 .. Padded(Section(s).size) /\ ~ (b > Section(s).size) BY <2>5
    <3>2. cue_out[Before(s) + b] = SectionByte(Section(s), b) BY <1>4, <3>1
    <3>3. Section(s).startOffset = start BY <2>3
    <3> QED BY <2>7, <3>1, <3>2, <3>3 DEF SectionByte
  <2> DEFINE n0 == Before(s) + 1
  <2>9. /\ n0 \in Nat /\ n0 % 2 = 1 /\ n0 >= 1 BY <2>4, SMTT(30)
  <2>10. \A n \in at : n = n0
    <3> SUFFICES ASSUME NEW n \in DOMAIN cue_out, cue_out[n] = start PROVE n = n0 OBVIOUS
    <3>1. n \in Nat /\ n >= 1 /\ n <= Before(Sections + 1) BY <1>1, <2>6
    <3>2. PICK r \in 1 .. Sections : \E b \in 1 .. Padded(Section(r).size) : n = Before(r) + b
      BY <3>1, BytesFound
    <3>3. PICK b \in 1 .. Padded(Section(r).size) : n = Before(r) + b BY <3>2
    <3>4. SectionByte(Section(r), b) = start BY <1>4, <3>3
    <3>5. FromChunk(r, k) /\ Section(r).startOffset = start /\ b = 1
      BY <3>4, FirstByteFrom DEF start
    <3>6. r = s BY <2>3, <3>5
    <3> QED BY <3>3, <3>5, <3>6
  <2>11. n0 + size - 1 <= Len(cue_out) /\ \A b \in 0 .. size - 1 : cue_out[n0 + b] = start + b
    <3>1. CASE Section(s).size = size
      <4>1. n0 + size - 1 <= Len(cue_out)
        <5>1. \A a, z, q, m \in Nat : z <= q /\ a + q <= m => (a + 1) + z - 1 <= m OBVIOUS
        <5>2. Before(s) + Padded(Section(s).size) <= Len(cue_out) BY <2>4
        <5> QED BY <2>4, <2>5, <2>6, <3>1, <5>1, <5>2, Zenon
      <4>2. ASSUME NEW b \in 0 .. size - 1 PROVE cue_out[n0 + b] = start + b
        <5>0. size \in Nat /\ start \in Nat /\ Before(s) \in Nat BY <2>2, <2>4, <2>5, <3>1
        <5>1. b + 1 \in 1 .. size /\ n0 + b = Before(s) + (b + 1) /\ start + (b + 1) - 1 = start + b
          BY <5>0, SMTT(30)
        <5> QED BY <2>8, <3>1, <5>1
      <4> QED BY <4>1, <4>2
    <3>2. CASE s = 2 /\ Section(2).size = 24 /\ Section(3) = FormatExtra(cue_wave, k)
               /\ FormatAt(cue_wave, k)
      <4> DEFINE e == cue_wave[k].size - 16
                 p == Before(3)
      <4>1. e \in Nat /\ size = 24 + e
        <5>1. e \in Nat BY <2>1, <3>2, FormatSize
        <5> QED BY <2>2, <5>1 DEF size
      <4>2. Section(3).startOffset = start + 24 /\ Section(3).size = e
        BY <3>2, LocationFields DEF FormatExtra, start
      <4>3. 3 \in 1 .. Sections /\ 4 \in 1 .. Sections + 1 /\ Sections + 1 \in 1 .. Sections + 1
            /\ 4 <= Sections + 1
        <5>1. Sections \in Nat /\ Sections >= 5 BY SectionPlaces
        <5> QED BY <5>1
      <4>4. p = Before(s) + 24 /\ p \in Nat
        <5>1. Padded(24) = 24 BY DEF Padded
        <5>2. s + 1 = 3 BY <3>2
        <5> QED BY <2>4, <3>2, <5>1, <5>2
      <4>5. Before(4) = p + Padded(e)
        <5>1. 3 + 1 = 4 OBVIOUS
        <5> QED BY <4>2, <4>3, <5>1, SectionPlaces
      <4>6. Before(4) <= Len(cue_out) BY <1>1, <4>3, SectionPlaces
      <4>7. e <= Padded(e) /\ Padded(e) \in Nat BY <4>1, PaddedEven
      <4>8. ASSUME NEW b \in 1 .. e PROVE cue_out[p + b] = start + 24 + b - 1
        <5>1. b \in 1 .. Padded(e) /\ ~ (b > e)
          <6> HIDE DEF e
          <6> QED BY <4>1, <4>7
        <5>2. cue_out[p + b] = SectionByte(Section(3), b) BY <1>4, <4>2, <4>3, <5>1
        <5>3. start + 24 # New BY <2>2 DEF New
        <5>4. SectionByte(Section(3), b) = start + 24 + b - 1
          BY <4>2, <5>1, <5>3 DEF SectionByte
        <5> QED BY <5>2, <5>4
      <4> HIDE DEF e, p
      <4>9. n0 + size - 1 <= Len(cue_out)
        <5>1. \A a, z, q, m \in Nat : z <= q /\ (a + 24) + q <= m => (a + 1) + (24 + z) - 1 <= m
          OBVIOUS
        <5>2. (Before(s) + 24) + Padded(e) <= Len(cue_out) BY <4>4, <4>5, <4>6
        <5>3. Before(s) \in Nat BY <2>4
        <5>4. n0 + (24 + e) - 1 <= Len(cue_out) BY <2>6, <4>1, <4>7, <5>1, <5>2, <5>3
        <5> QED BY <4>1, <5>4
      <4>10. ASSUME NEW b \in 0 .. size - 1 PROVE cue_out[n0 + b] = start + b
        <5>1. CASE b <= 23
          <6>1. b + 1 \in 1 .. 24 /\ n0 + b = Before(s) + (b + 1)
                /\ start + (b + 1) - 1 = start + b
            BY <2>2, <2>4, <4>1, <5>1
          <6>2. b + 1 \in 1 .. Section(s).size BY <3>2, <6>1
          <6> QED BY <2>8, <6>1, <6>2
        <5>2. CASE b >= 24
          <6>1. b - 23 \in 1 .. e /\ n0 + b = p + (b - 23)
                /\ start + 24 + (b - 23) - 1 = start + b
            <7>1. b \in Nat /\ b <= 24 + e - 1 /\ e \in Nat /\ Before(s) \in Nat
              BY <2>4, <4>1
            <7>2. b - 23 \in 1 .. e BY <5>2, <7>1
            <7>3. n0 + b = p + (b - 23) BY <4>4, <7>1
            <7>4. start + 24 + (b - 23) - 1 = start + b BY <2>2, <7>1
            <7> QED BY <7>2, <7>3, <7>4
          <6> QED BY <4>8, <6>1
        <5>3. b <= 23 \/ b >= 24 BY <4>1
        <5> QED BY <5>1, <5>2, <5>3
      <4> QED BY <4>9, <4>10
    <3> QED BY <2>3, <3>1, <3>2
  <2>12. n0 \in at
    <3>1. 0 \in 0 .. size - 1 /\ n0 + 0 = n0 /\ start + 0 = start
      BY <2>2, <2>9 DEF size
    <3>2. cue_out[n0] = start BY <2>11, <3>1
    <3>3. n0 <= Len(cue_out)
      <4>1. size \in Nat /\ size >= 8 BY <2>2 DEF size
      <4> HIDE DEF n0
      <4> QED BY <2>6, <2>9, <2>11, <4>1
    <3> HIDE DEF n0
    <3> QED BY <2>6, <2>9, <3>2, <3>3
  <2> HIDE DEF n0
  <2>13. at = {n0} BY <2>10, <2>12
  <2> HIDE DEF at
  <2> QED BY <2>9, <2>11, <2>12, <2>13 DEF at, start, size
<1>6. DOMAIN cue_wave = 1 .. Len(cue_wave) BY WaveChunks DEF Ready
<1> QED BY <1>2, <1>5, <1>6, Zenon DEF CueAt
-----------------------------------------------------------------------------
(* The way to a finished output.                                            *)

\* On a big-endian host the number of points of a cue chunk is not read right.
CuesReadable(wave) ==
  HostEndianness = "LittleEndian" \/ \A k \in DOMAIN wave : ~ CueAt(wave, k)
InputsReadable == \A input \in CueInputs : CuesReadable(input[1])

Found(k) == FoundIn(cue_wave, k, formatChunk, dataChunk, otherChunks)
Enough ==
  /\ WaveFile(cue_wave) /\ Found(Len(cue_wave) + 1)
  /\ formatChunk # <<>> /\ dataChunk # <<>>

WholeIInv ==
  /\ cue_pc = "start" => formatChunk = <<>> /\ dataChunk = <<>> /\ otherChunks = <<>>
  /\ cue_pc # "start" => WaveFile(cue_wave) /\ CuesReadable(cue_wave)
  /\ cue_pc = "chunks" =>
       \E k \in 1 .. Len(cue_wave) + 1 : cue_pos = ChunkStart(cue_wave, k) /\ Found(k)
  /\ cue_pc \in {"start", "chunks", "markers", "overrun"} =>
       cue_section = 1 /\ cue_done = 0 /\ cue_out = <<>>
  /\ cue_pc = "markers" => Enough
  /\ cue_pc \in {"write", "finished"} \/ cue_out # <<>> => Enough /\ Writing
  /\ cue_pc = "finished" => cue_section = Sections + 1
  /\ cue_pc = "failed" /\ cue_out # <<>> =>
       cue_section <= Sections /\ Section(cue_section).size > 0

(* With markers read and chunks found the output can be written.            *)
LEMMA EnoughIsReady ==
  ASSUME MarksIInv, Enough, cue_pc # "overrun" PROVE Ready
BY DEF MarksIInv, Enough, Found, Ready

(* The sections depend on the chunks found and the markers only.            *)
LEMMA SectionsKept ==
  ASSUME UNCHANGED cue_found, cueLocations' = cueLocations
  PROVE  /\ Sections' = Sections
         /\ \A s : Section(s)' = Section(s)
         /\ \A s : Before(s)' = Before(s)
<1>1. Sections' = Sections BY DEF Sections, cue_found
<1>2. \A s : Section(s)' = Section(s) BY <1>1 DEF Section, cue_found
<1>3. SectionSizes' = SectionSizes BY <1>1, <1>2 DEF SectionSizes
<1>4. \A s : Before(s)' = Before(s) BY <1>3 DEF Before
<1> QED BY <1>1, <1>2, <1>4

(* WholeIInv holds at the start.                                            *)
LEMMA WholeInit == CueInit => WholeIInv
BY DEF CueInit, WholeIInv

(* Opening the files: no chunk is read.                                     *)
LEMMA WholeOpens ==
  ASSUME InputsReadable, WholeIInv, cue_opens PROVE WholeIInv'
<1>1. PICK input \in CueInputs : cue_wave' = input[1] BY DEF cue_opens
<1>2. WaveFile(cue_wave') /\ CuesReadable(cue_wave')
  BY <1>1, InputsAssumption DEF InputsReadable
<1>3. /\ cue_pc = "start"
      /\ cue_pc' = "failed" \/ (cue_pc' = "chunks" /\ cue_pos' = 12)
      /\ UNCHANGED <<formatChunk, dataChunk, otherChunks, cue_section, cue_done, cue_out>>
  BY DEF cue_opens, cue_fails, cue_found, cue_written
<1>4. formatChunk = <<>> /\ dataChunk = <<>> /\ otherChunks = <<>>
      /\ cue_section = 1 /\ cue_done = 0 /\ cue_out = <<>>
  BY <1>3 DEF WholeIInv
<1>5. CASE cue_pc' = "failed" BY <1>2, <1>3, <1>4, <1>5 DEF WholeIInv
<1>6. CASE cue_pc' = "chunks" /\ cue_pos' = 12
  <2>1. Found(1)' BY <1>2, <1>3, <1>4, FoundNone DEF Found
  <2>2. cue_pos' = ChunkStart(cue_wave', 1) BY <1>2, <1>6, ChunkPlaces
  <2>3. 1 \in 1 .. Len(cue_wave') + 1
    <3>1. Len(cue_wave') \in Nat BY <1>2, WaveChunks
    <3> QED BY <3>1
  <2>4. \E k \in 1 .. Len(cue_wave') + 1 : cue_pos' = ChunkStart(cue_wave', k) /\ Found(k)'
    BY <2>1, <2>2, <2>3
  <2> QED BY <1>2, <1>3, <1>4, <1>6, <2>4 DEF WholeIInv
<1> QED BY <1>3, <1>5, <1>6

\* One round of the loop, at chunk k.
Round(k, size) ==
  \/ FormatAt(cue_wave, k) /\ cue_fails /\ UNCHANGED cue_found
  \/ /\ FormatAt(cue_wave, k)
     /\ formatChunk' = Location(cue_pos + 24, size - 16)
     /\ cue_skips(24, size - 16)
     /\ UNCHANGED <<dataChunk, otherChunks, cue_pc>>
  \/ /\ DataAt(cue_wave, k)
     /\ dataChunk' = Location(cue_pos, 8 + size)
     /\ cue_skips(8, size)
     /\ UNCHANGED <<formatChunk, otherChunks, cue_pc>>
  \/ /\ CueAt(cue_wave, k)
     /\ \E n \in littleEndianBytesToUInt16((size - 4) \div 24) : cue_pos' = cue_pos + 12 + 24 * n
     /\ UNCHANGED <<cue_found, cue_pc>>
  \/ OtherAt(cue_wave, k) /\ cue_fails /\ UNCHANGED cue_found
  \/ /\ OtherAt(cue_wave, k)
     /\ otherChunks' = Append(otherChunks, Location(cue_pos, 8 + size))
     /\ cue_skips(8, size)
     /\ UNCHANGED <<formatChunk, dataChunk, cue_pc>>

(* A round of the loop is about the chunk at its place.                     *)
LEMMA RoundTaken ==
  ASSUME cue_reads_chunk
  PROVE  \E k \in cue_here : Round(k, littleEndianBytesToUInt32(LEBytes(cue_wave[k].size)))
BY Zenon DEF cue_reads_chunk, Round, FormatAt, DataAt, CueAt, OtherAt

\* A cue chunk is passed over as a whole.
LEMMA CuePassed ==
  ASSUME NEW wave, WaveFile(wave), CuesReadable(wave), NEW k \in 1 .. Len(wave), CueAt(wave, k),
         NEW n \in littleEndianBytesToUInt16((wave[k].size - 4) \div 24)
  PROVE  ChunkStart(wave, k) + 12 + 24 * n = ChunkStart(wave, k + 1)
<1> DEFINE M == ByteValues * ByteValues
<1>1. M \in Nat /\ M > 0
  <2>1. ByteValues \in Nat \ {0} BY LimitsAssumption
  <2> QED BY <2>1
<1>2. k \in DOMAIN wave BY WaveChunks
<1>3. HostEndianness = "LittleEndian" BY <1>2, Zenon DEF CuesReadable
<1>4. PICK m \in 0 .. M - 1 : wave[k].size = 4 + 24 * m
  BY <1>2, Zenon DEF WaveFile, CueAt, M
<1>5. n = ((wave[k].size - 4) \div 24) % M BY <1>3 DEF littleEndianBytesToUInt16, M
<1> HIDE DEF M
<1>6. (wave[k].size - 4) \div 24 = m
  <2>1. m \in Nat BY <1>1
  <2>2. (4 + 24 * m) - 4 = 24 * m /\ (24 * m) \div 24 = m BY <2>1
  <2> QED BY <1>4, <2>2
<1>7. n = m
  <2>1. m \in Nat /\ m < M BY <1>1
  <2> QED BY <1>1, <1>5, <1>6, <2>1
<1>8. Padded(wave[k].size) = 4 + 24 * m
  <2>1. m \in Nat BY <1>1
  <2>2. (4 + 24 * m) % 2 = 0 BY <2>1
  <2> QED BY <1>4, <2>1, <2>2 DEF Padded
<1>9. ChunkStart(wave, k + 1) = ChunkStart(wave, k) + 8 + (4 + 24 * m)
      /\ ChunkStart(wave, k) \in Nat
  BY <1>8, NextChunk
<1>10. m \in Nat BY <1>1
<1> QED BY <1>7, <1>9, <1>10

(* A round of the loop keeps WholeIInv, whatever the kind of the chunk.     *)
LEMMA WholeReadsChunk ==
  ASSUME WholeIInv, cue_reads_chunk PROVE WholeIInv'
<1>1. /\ cue_pc = "chunks" /\ cue_wave' = cue_wave
      /\ UNCHANGED <<cue_section, cue_done, cue_out>>
  BY DEF cue_reads_chunk, cue_inputs, cue_written
<1>2. WaveFile(cue_wave) /\ CuesReadable(cue_wave) BY <1>1 DEF WholeIInv
<1>3. cue_section = 1 /\ cue_done = 0 /\ cue_out = <<>> BY <1>1 DEF WholeIInv
<1>4. PICK k \in cue_here : Round(k, littleEndianBytesToUInt32(LEBytes(cue_wave[k].size)))
  BY RoundTaken
<1> DEFINE n == Len(cue_wave)
<1>5. n \in Nat /\ DOMAIN cue_wave = 1 .. n BY <1>2, WaveChunks
<1>6. k \in 1 .. n /\ k \in 1 .. n + 1 /\ k + 1 \in 1 .. n + 1 /\ ChunkStart(cue_wave, k) = cue_pos
  BY <1>5 DEF cue_here
<1>7. Found(k)
  <2>1. PICK h \in 1 .. n + 1 : cue_pos = ChunkStart(cue_wave, h) /\ Found(h)
    BY <1>1 DEF WholeIInv
  <2>2. h = k BY <1>2, <1>6, <2>1, ChunksApart
  <2> QED BY <2>1, <2>2
<1>8. cue_wave[k].size \in Nat /\ littleEndianBytesToUInt32(LEBytes(cue_wave[k].size)) = cue_wave[k].size
  BY <1>2, <1>6, ChunksApart, NumbersKept, WaveChunks DEF n
<1> DEFINE size == cue_wave[k].size
<1>9. Round(k, size) BY <1>4, <1>8
<1>10. ChunkStart(cue_wave, k + 1) = cue_pos + 8 + Padded(size) /\ cue_pos \in Nat
  BY <1>2, <1>6, NextChunk
<1> HIDE DEF n, size
<1>11. ASSUME cue_pc' = "failed" PROVE WholeIInv'
  BY <1>1, <1>2, <1>3, <1>11 DEF WholeIInv
<1>12. ASSUME cue_pc' = "chunks", cue_pos' = ChunkStart(cue_wave, k + 1), Found(k + 1)'
       PROVE  WholeIInv'
  <2>1. \E h \in 1 .. Len(cue_wave') + 1 : cue_pos' = ChunkStart(cue_wave', h) /\ Found(h)'
    BY <1>1, <1>6, <1>12 DEF n
  <2> QED BY <1>1, <1>2, <1>3, <1>12, <2>1 DEF WholeIInv
<1>13. CASE cue_fails BY <1>11, <1>13 DEF cue_fails
<1>14. CASE /\ FormatAt(cue_wave, k)
            /\ formatChunk' = Location(cue_pos + 24, size - 16)
            /\ cue_skips(24, size - 16)
            /\ UNCHANGED <<dataChunk, otherChunks, cue_pc>>
  <2>1. FoundIn(cue_wave, k + 1, FormatExtra(cue_wave, k), dataChunk, otherChunks)
    BY <1>2, <1>6, <1>7, <1>14, FoundFormat DEF Found, n
  <2>2. formatChunk' = FormatExtra(cue_wave, k) BY <1>6, <1>14 DEF FormatExtra, size
  <2>3. Found(k + 1)' BY <1>1, <1>14, <2>1, <2>2 DEF Found
  <2>4. 24 + Padded(size - 16) = 8 + Padded(size) /\ Padded(size) \in Nat
        /\ Padded(size - 16) \in Nat
    <3>1. size \in Nat /\ size >= 16 /\ size - 16 \in Nat
      BY <1>2, <1>6, <1>14, FormatSize DEF n, size
    <3> QED BY <3>1, PaddedShift, PaddedEven
  <2>5. cue_pos' = ChunkStart(cue_wave, k + 1) BY <1>10, <1>14, <2>4 DEF cue_skips
  <2> QED BY <1>1, <1>12, <1>14, <2>3, <2>5
<1>15. CASE /\ DataAt(cue_wave, k)
            /\ dataChunk' = Location(cue_pos, 8 + size)
            /\ cue_skips(8, size)
            /\ UNCHANGED <<formatChunk, otherChunks, cue_pc>>
  <2>1. FoundIn(cue_wave, k + 1, formatChunk, WholeChunk(cue_wave, k), otherChunks)
    BY <1>2, <1>6, <1>7, <1>15, FoundData DEF Found, n
  <2>2. dataChunk' = WholeChunk(cue_wave, k) BY <1>6, <1>15 DEF WholeChunk, size
  <2>3. Found(k + 1)' BY <1>1, <1>15, <2>1, <2>2 DEF Found
  <2>4. cue_pos' = ChunkStart(cue_wave, k + 1) BY <1>10, <1>15 DEF cue_skips
  <2> QED BY <1>1, <1>12, <1>15, <2>3, <2>4
<1>16. CASE /\ CueAt(cue_wave, k)
            /\ \E m \in littleEndianBytesToUInt16((size - 4) \div 24) :
                 cue_pos' = cue_pos + 12 + 24 * m
            /\ UNCHANGED <<cue_found, cue_pc>>
  <2>1. FoundIn(cue_wave, k + 1, formatChunk, dataChunk, otherChunks)
    BY <1>2, <1>6, <1>7, <1>16, FoundCue DEF Found, n
  <2>2. Found(k + 1)' BY <1>1, <1>16, <2>1 DEF Found, cue_found
  <2>3. PICK m \in littleEndianBytesToUInt16((size - 4) \div 24) : cue_pos' = cue_pos + 12 + 24 * m
    BY <1>16
  <2>4. cue_pos' = ChunkStart(cue_wave, k + 1)
    BY <1>2, <1>6, <1>16, <2>3, CuePassed DEF n, size
  <2> QED BY <1>1, <1>12, <1>16, <2>2, <2>4
<1>17. CASE /\ OtherAt(cue_wave, k)
            /\ otherChunks' = Append(otherChunks, Location(cue_pos, 8 + size))
            /\ cue_skips(8, size)
            /\ UNCHANGED <<formatChunk, dataChunk, cue_pc>>
  <2>1. FoundIn(cue_wave, k + 1, formatChunk, dataChunk, Append(otherChunks, WholeChunk(cue_wave, k)))
    BY <1>2, <1>6, <1>7, <1>17, FoundOther DEF Found, n
  <2>2. otherChunks' = Append(otherChunks, WholeChunk(cue_wave, k))
    BY <1>6, <1>17 DEF WholeChunk, size
  <2>3. Found(k + 1)' BY <1>1, <1>17, <2>1, <2>2 DEF Found
  <2>4. cue_pos' = ChunkStart(cue_wave, k + 1) BY <1>10, <1>17 DEF cue_skips
  <2> QED BY <1>1, <1>12, <1>17, <2>3, <2>4
<1> QED BY <1>9, <1>13, <1>14, <1>15, <1>16, <1>17, Zenon DEF Round

(* So does the end of the loop.                                             *)
LEMMA WholeEndsChunks ==
  ASSUME WholeIInv, cue_ends_chunks PROVE WholeIInv'
<1>1. /\ cue_pc = "chunks" /\ cue_wave' = cue_wave
      /\ UNCHANGED <<formatChunk, dataChunk, otherChunks, cue_section, cue_done, cue_out>>
      /\ cue_pos >= ChunkStart(cue_wave, Len(cue_wave) + 1)
      /\ \/ cue_pc' = "failed"
         \/ cue_pc' = "markers" /\ formatChunk # <<>> /\ dataChunk # <<>>
  BY DEF cue_ends_chunks, cue_inputs, cue_found, cue_written, cue_fails
<1>2. WaveFile(cue_wave) /\ CuesReadable(cue_wave) BY <1>1 DEF WholeIInv
<1>3. cue_section = 1 /\ cue_done = 0 /\ cue_out = <<>> BY <1>1 DEF WholeIInv
<1>4. Found(Len(cue_wave) + 1)
  <2>1. PICK h \in 1 .. Len(cue_wave) + 1 : cue_pos = ChunkStart(cue_wave, h) /\ Found(h)
    BY <1>1 DEF WholeIInv
  <2>2. h = Len(cue_wave) + 1 BY <1>1, <1>2, <2>1, ChunksApart
  <2> QED BY <2>1, <2>2
<1>5. CASE cue_pc' = "failed" BY <1>1, <1>2, <1>3, <1>5 DEF WholeIInv
<1>6. CASE cue_pc' = "markers" /\ formatChunk # <<>> /\ dataChunk # <<>>
  <2>1. Enough' BY <1>1, <1>2, <1>4, <1>6 DEF Enough, Found
  <2> QED BY <1>1, <1>2, <1>3, <1>6, <2>1 DEF WholeIInv
<1> QED BY <1>1, <1>5, <1>6

\* Where writing begins.
LEMMA WritingBegins ==
  Ready /\ cue_section = 1 /\ cue_done = 0 /\ cue_out = <<>> => Writing
<1> SUFFICES ASSUME Ready, cue_section = 1, cue_done = 0, cue_out = <<>> PROVE Writing
  OBVIOUS
<1>1. Sections \in Nat /\ Sections >= 5 /\ Before(1) = 0 BY SectionPlaces
<1>2. cue_section \in 1 .. Sections + 1 /\ cue_section # Sections + 1 BY <1>1
<1>3. cue_out \in Seq(Int) /\ Len(cue_out) = Before(cue_section) + cue_done BY <1>1
<1>4. Placed
  <2> SUFFICES ASSUME NEW s \in 1 .. Sections, NEW b \in 1 .. Padded(Section(s).size)
               PROVE  ~ Written(s, b)
    BY DEF Placed
  <2>1. Padded(Section(s).size) \in Nat BY SectionPlaces
  <2>2. ~ (s < 1) /\ ~ (b <= 0) BY <2>1
  <2> QED BY <2>2 DEF Written
<1> QED BY <1>2, <1>3, <1>4 DEF Writing

(* The same of the next state.                                              *)
LEMMA WritingBeginsNext ==
  (Ready /\ cue_section = 1 /\ cue_done = 0 /\ cue_out = <<>> => Writing)'
BY WritingBegins, PTL

(* EnoughIsReady of the next state.                                         *)
LEMMA ReadyNext == (MarksIInv /\ Enough /\ cue_pc # "overrun" => Ready)'
<1>1. MarksIInv /\ Enough /\ cue_pc # "overrun" => Ready BY EnoughIsReady
<1> QED BY <1>1, PTL

(* The markers are read with the chunks as they are found.                  *)
LEMMA WholeText ==
  ASSUME MarksIInv', WholeIInv, cue_reads_character \/ cue_ends_line PROVE WholeIInv'
<1>1. /\ cue_pc = "markers" /\ cue_wave' = cue_wave
      /\ UNCHANGED <<formatChunk, dataChunk, otherChunks, cue_section, cue_done, cue_out>>
      /\ cue_pc' \in {"markers", "overrun", "failed", "write"}
  BY DEF cue_reads_character, cue_ends_line, cue_inputs, cue_found, cue_written
<1>2. WaveFile(cue_wave) /\ CuesReadable(cue_wave) /\ Enough BY <1>1 DEF WholeIInv
<1>3. cue_section = 1 /\ cue_done = 0 /\ cue_out = <<>> BY <1>1 DEF WholeIInv
<1>4. Enough' BY <1>1, <1>2 DEF Enough, Found
<1>5. cue_pc' = "write" => Writing'
  BY <1>1, <1>3, <1>4, ReadyNext, WritingBeginsNext
<1> QED BY <1>1, <1>2, <1>3, <1>4, <1>5 DEF WholeIInv

\* One fwrite() stays within its section, padding included.
LEMMA WriteSize ==
  ASSUME Ready, Writing, cue_section <= Sections,
         NEW n, n = fwrite_size(Section(cue_section))
  PROVE  /\ n \in Nat /\ cue_section \in 1 .. Sections
         /\ cue_done + n <= Padded(Section(cue_section).size)
         /\ Padded(Section(cue_section).size) \in Nat
<1> DEFINE l == Section(cue_section)
           P == Padded(l.size)
<1>1. Sections \in Nat BY SectionPlaces
<1>2. cue_section \in 1 .. Sections /\ cue_done \in Nat BY <1>1 DEF Writing
<1>3. l.size \in Nat BY <1>2, SectionSources
<1>4. P \in Nat /\ l.size <= P /\ P <= l.size + 1 BY <1>3, PaddedEven
<1>5. P = l.size + (l.size % 2) BY DEF Padded
<1>6. l.size % 2 \in Nat BY <1>3
<1>7. cue_done = 0 \/ cue_done < P BY DEF Writing
<1>8. CopyBlock \in Nat BY LimitsAssumption
<1>9. \/ cue_done = l.size /\ n = l.size % 2
      \/ cue_done # l.size /\ l.size - cue_done > CopyBlock /\ n = CopyBlock
      \/ cue_done # l.size /\ n = l.size - cue_done
  BY DEF fwrite_size
<1> HIDE DEF l, P
<1>10. cue_done <= l.size BY <1>2, <1>3, <1>4, <1>7
<1>11. n \in Nat /\ cue_done + n <= P
  <2>1. CASE cue_done = l.size /\ n = l.size % 2 BY <1>2, <1>3, <1>5, <1>6, <2>1
  <2>2. CASE cue_done # l.size /\ l.size - cue_done > CopyBlock /\ n = CopyBlock
    BY <1>2, <1>3, <1>4, <1>8, <2>2
  <2>3. CASE cue_done # l.size /\ n = l.size - cue_done
    BY <1>2, <1>3, <1>4, <1>10, <2>3
  <2> QED BY <1>9, <2>1, <2>2, <2>3
<1> QED BY <1>2, <1>4, <1>11 DEF l, P

(* A byte of the output is a number.                                        *)
LEMMA SectionByteInt ==
  ASSUME Ready, NEW s \in 1 .. Sections, NEW b \in Nat
  PROVE  SectionByte(Section(s), b) \in Int
<1>1. Section(s).startOffset = New \/ Section(s).startOffset \in Nat BY SectionSources
<1>2. New \in Int BY DEF New
<1>3. \A a \in Nat : a + b - 1 \in Int OBVIOUS
<1> QED BY <1>1, <1>2, <1>3, Zenon DEF SectionByte

(* One fwrite: the output is longer by the bytes that come next.            *)
LEMMA WholeWrites ==
  ASSUME MarksIInv, WholeIInv, cue_writes PROVE WholeIInv'
<1>1. /\ cue_pc = "write" /\ cue_section <= Sections
      /\ cue_wave' = cue_wave /\ cue_pc' = cue_pc /\ UNCHANGED cue_found
      /\ cueLocations' = cueLocations
  BY DEF cue_writes, cue_inputs, cue_marks
<1>2. WaveFile(cue_wave) /\ CuesReadable(cue_wave) /\ Enough /\ Writing BY <1>1 DEF WholeIInv
<1>3. Ready BY <1>1, <1>2, EnoughIsReady
<1>4. PICK n : n = fwrite_size(Section(cue_section)) OBVIOUS
<1>5. PICK s0 : s0 = cue_section OBVIOUS
<1>6. PICK d0 : d0 = cue_done OBVIOUS
<1>7. PICK P : P = Padded(Section(cue_section).size) OBVIOUS
<1>8. /\ cue_out' = cue_out \o [b \in 1 .. n |-> SectionByte(Section(s0), d0 + b)]
      /\ \/ d0 + n = P /\ cue_section' = s0 + 1 /\ cue_done' = 0
         \/ d0 + n # P /\ cue_section' = s0 /\ cue_done' = d0 + n
  BY <1>4, <1>5, <1>6, <1>7 DEF cue_writes
<1>9. /\ n \in Nat /\ s0 \in 1 .. Sections /\ d0 + n <= P /\ P \in Nat /\ d0 \in Nat
      /\ cue_out \in Seq(Int) /\ Len(cue_out) = Before(s0) + d0
  BY <1>1, <1>2, <1>3, <1>4, <1>5, <1>6, <1>7, WriteSize DEF Writing
<1>10. /\ Sections \in Nat
       /\ Before(s0) \in Nat /\ Before(s0 + 1) = Before(s0) + P
       /\ \A s \in 1 .. Sections : s < s0 => Before(s) + Padded(Section(s).size) <= Before(s0)
       /\ \A s \in 1 .. Sections : Before(s) \in Nat /\ Padded(Section(s).size) \in Nat
  <2>1. Sections \in Nat BY <1>3, SectionPlaces
  <2>2. s0 \in 1 .. Sections + 1 BY <1>9, <2>1
  <2>3. ASSUME NEW s \in 1 .. Sections, s < s0
        PROVE  Before(s) + Padded(Section(s).size) <= Before(s0)
    <3>1. s + 1 \in 1 .. Sections + 1 /\ s + 1 <= s0 BY <1>9, <2>1, <2>3
    <3>2. Before(s + 1) <= Before(s0) BY <1>3, <2>2, <3>1, SectionPlaces
    <3> QED BY <1>3, <3>2, SectionPlaces
  <2>4. \A s \in 1 .. Sections : s \in 1 .. Sections + 1 BY <2>1
  <2> QED BY <1>3, <1>5, <1>7, <1>9, <2>1, <2>2, <2>3, <2>4, SectionPlaces
<1> DEFINE t == [b \in 1 .. n |-> SectionByte(Section(s0), d0 + b)]
<1>11. t \in Seq(Int) /\ Len(t) = n
  <2>1. \A b \in 1 .. n : d0 + b \in Nat BY <1>9
  <2>2. \A b \in 1 .. n : SectionByte(Section(s0), d0 + b) \in Int
    BY <1>3, <1>9, <2>1, SectionByteInt
  <2> QED BY <1>9, <2>2
<1>12. \A b \in 1 .. n : t[b] = SectionByte(Section(s0), d0 + b) OBVIOUS
<1> HIDE DEF t
<1>13. /\ cue_out' \in Seq(Int) /\ Len(cue_out') = Before(s0) + d0 + n
       /\ \A i \in 1 .. Before(s0) + d0 : cue_out'[i] = cue_out[i]
       /\ \A b \in 1 .. n : cue_out'[Before(s0) + d0 + b] = t[b]
  <2>1. cue_out' = cue_out \o t BY <1>8 DEF t
  <2>0. cue_out \in Seq(Int) /\ t \in Seq(Int) BY <1>9, <1>11
  <2>2. cue_out \o t \in Seq(Int) /\ Len(cue_out \o t) = Len(cue_out) + Len(t)
    BY <2>0, ConcatProperties, Zenon
  <2>3. \A i \in 1 .. Len(cue_out) : (cue_out \o t)[i] = cue_out[i] BY <1>9, <1>11
  <2>4. \A b \in 1 .. Len(t) : (cue_out \o t)[Len(cue_out) + b] = t[b]
    <3> SUFFICES ASSUME NEW b \in 1 .. Len(t) PROVE (cue_out \o t)[Len(cue_out) + b] = t[b]
      OBVIOUS
    <3>0. Len(cue_out) \in Nat /\ Len(t) \in Nat BY <1>9, <1>11
    <3>1. Len(cue_out) + b \in 1 .. Len(cue_out) + Len(t) /\ ~ (Len(cue_out) + b <= Len(cue_out))
          /\ (Len(cue_out) + b) - Len(cue_out) = b
      BY <3>0, SMTT(30)
    <3> QED BY <1>9, <1>11, <3>1
  <2> QED BY <1>9, <1>11, <2>1, <2>2, <2>3, <2>4
<1>14. /\ Sections' = Sections /\ \A s : Section(s)' = Section(s)
       /\ \A s : Before(s)' = Before(s)
  BY <1>1, SectionsKept
<1>15. ASSUME NEW s \in 1 .. Sections, NEW b \in 1 .. Padded(Section(s).size),
              s < s0 \/ (s = s0 /\ b <= d0 + n)
       PROVE  cue_out'[Before(s) + b] = SectionByte(Section(s), b)
  <2>0. b \in Nat /\ b >= 1 /\ b <= Padded(Section(s).size) /\ Before(s) \in Nat BY <1>10
  <2>1. CASE s < s0 \/ (s = s0 /\ b <= d0)
    <3>1. Before(s) + b \in 1 .. Before(s0) + d0
      <4>1. CASE s < s0
        <5>1. Before(s) + Padded(Section(s).size) <= Before(s0) /\ Padded(Section(s).size) \in Nat
          BY <1>10, <4>1
        <5>2. \A a, c, q, e, d \in Nat : a + q <= e /\ c >= 1 /\ c <= q => a + c \in 1 .. e + d
          OBVIOUS
        <5>3. Before(s0) \in Nat BY <1>10
        <5> QED BY <1>9, <2>0, <5>1, <5>2, <5>3
      <4>2. CASE s = s0 /\ b <= d0 BY <1>9, <2>0, <4>2
      <4> QED BY <2>1, <4>1, <4>2
    <3>2. cue_out[Before(s) + b] = SectionByte(Section(s), b)
      BY <1>2, <1>5, <1>6, <2>1 DEF Writing, Placed, Written
    <3> QED BY <1>13, <3>1, <3>2
  <2>2. CASE s = s0 /\ b > d0 /\ b <= d0 + n
    <3>1. b - d0 \in 1 .. n /\ d0 + (b - d0) = b
          /\ Before(s0) + d0 + (b - d0) = Before(s) + b
      BY <1>9, <1>10, <2>0, <2>2
    <3>2. cue_out'[Before(s0) + d0 + (b - d0)] = SectionByte(Section(s0), d0 + (b - d0))
      BY <1>12, <1>13, <3>1
    <3> QED BY <2>2, <3>1, <3>2
  <2> QED BY <1>9, <1>15, <2>0, <2>1, <2>2
<1>16. Writing'
  <2>1. CASE d0 + n = P /\ cue_section' = s0 + 1 /\ cue_done' = 0
    <3>1. s0 + 1 \in 1 .. Sections + 1 BY <1>9, <1>10
    <3>2. Len(cue_out') = Before(s0 + 1) + 0
      <4>1. \A a, d, m, q \in Nat : d + m = q => a + d + m = (a + q) + 0 OBVIOUS
      <4>2. Before(s0) \in Nat /\ Before(s0 + 1) = Before(s0) + P BY <1>10
      <4>3. n \in Nat /\ d0 \in Nat /\ P \in Nat /\ d0 + n = P BY <1>9, <2>1
      <4>4. Before(s0) + d0 + n = (Before(s0) + P) + 0 BY <4>1, <4>2, <4>3
      <4>5. Len(cue_out') = Before(s0) + d0 + n BY <1>13
      <4> QED BY <4>2, <4>4, <4>5, Zenon
    <3>3. Placed'
      <4> SUFFICES ASSUME NEW s \in 1 .. Sections, NEW b \in 1 .. Padded(Section(s).size),
                          s < s0 + 1 \/ (s = s0 + 1 /\ b <= 0)
                   PROVE  cue_out'[Before(s) + b] = SectionByte(Section(s), b)
        BY <1>14, <2>1 DEF Placed, Written
      <4>1. b \in Nat /\ b >= 1 /\ b <= Padded(Section(s).size) BY <1>10
      <4>2. s < s0 \/ s = s0 BY <1>9, <4>1
      <4>3. s = s0 => b <= d0 + n BY <1>5, <1>7, <2>1, <4>1
      <4> QED BY <1>15, <4>2, <4>3
    <3> QED BY <1>13, <1>14, <2>1, <3>1, <3>2, <3>3 DEF Writing
  <2>2. CASE d0 + n # P /\ cue_section' = s0 /\ cue_done' = d0 + n
    <3>1. s0 \in 1 .. Sections + 1 /\ s0 # Sections + 1 BY <1>9, <1>10
    <3>2. d0 + n \in Nat /\ d0 + n < P BY <1>9, <2>2
    <3>3. Len(cue_out') = Before(s0) + (d0 + n) BY <1>9, <1>10, <1>13
    <3>4. Placed'
      <4> SUFFICES ASSUME NEW s \in 1 .. Sections, NEW b \in 1 .. Padded(Section(s).size),
                          s < s0 \/ (s = s0 /\ b <= d0 + n)
                   PROVE  cue_out'[Before(s) + b] = SectionByte(Section(s), b)
        BY <1>14, <2>2 DEF Placed, Written
      <4> QED BY <1>15
    <3>5. P = Padded(Section(s0)'.size) BY <1>5, <1>7, <1>14
    <3> QED BY <1>13, <1>14, <2>2, <3>1, <3>2, <3>3, <3>4, <3>5 DEF Writing
  <2> QED BY <1>8, <2>1, <2>2
<1>17. Enough' BY <1>1, <1>2 DEF Enough, Found, cue_found
<1> QED BY <1>1, <1>2, <1>16, <1>17 DEF WholeIInv

(* A failed write leaves less than the header declares; the end leaves all. *)
LEMMA WholeStops ==
  ASSUME MarksIInv, WholeIInv, cue_write_fails \/ cue_finishes PROVE WholeIInv'
<1>1. /\ cue_pc = "write"
      /\ cue_wave' = cue_wave /\ UNCHANGED cue_found /\ cueLocations' = cueLocations
      /\ UNCHANGED <<cue_section, cue_done, cue_out>>
      /\ \/ /\ cue_pc' = "failed" /\ cue_section <= Sections
            /\ Section(cue_section).size > 0
         \/ cue_pc' = "finished" /\ cue_section > Sections
  BY DEF cue_write_fails, cue_finishes, cue_inputs, cue_marks, cue_written, cue_fails
<1>2. WaveFile(cue_wave) /\ CuesReadable(cue_wave) /\ Enough /\ Writing BY <1>1 DEF WholeIInv
<1>3. /\ Sections' = Sections /\ \A s : Section(s)' = Section(s)
      /\ \A s : Before(s)' = Before(s)
  BY <1>1, SectionsKept
<1>4. Enough' BY <1>1, <1>2 DEF Enough, Found, cue_found
<1>5. Writing' BY <1>1, <1>2, <1>3 DEF Writing, Placed, Written
<1>6. Section(cue_section)' = Section(cue_section) BY <1>1 DEF Section, Sections, cue_found
<1>7. cue_section > Sections => cue_section = Sections + 1
  <2>1. Sections \in Nat BY <1>1, <1>2, EnoughIsReady, SectionPlaces
  <2> QED BY <1>2, <2>1 DEF Writing
<1> QED BY <1>1, <1>2, <1>3, <1>4, <1>5, <1>6, <1>7 DEF WholeIInv

(* A step that changes nothing.                                             *)
LEMMA WholeStutters ==
  ASSUME WholeIInv, UNCHANGED cue_vars PROVE WholeIInv'
<1>1. /\ cue_wave' = cue_wave /\ cue_pc' = cue_pc /\ cue_pos' = cue_pos
      /\ UNCHANGED cue_found /\ cueLocations' = cueLocations
      /\ UNCHANGED <<cue_section, cue_done, cue_out>>
  BY DEF cue_vars, cue_inputs, cue_found, cue_marks, cue_written
<1>2. /\ Sections' = Sections /\ \A s : Section(s)' = Section(s)
      /\ \A s : Before(s)' = Before(s)
  BY <1>1, SectionsKept
<1>3. \A k : Found(k)' <=> Found(k) BY <1>1 DEF Found, cue_found
<1>4. Enough' <=> Enough BY <1>1, <1>3 DEF Enough, Found, cue_found
<1>5. Writing' <=> Writing BY <1>1, <1>2 DEF Writing, Placed, Written
<1>6. Section(cue_section)' = Section(cue_section) BY <1>1 DEF Section, Sections, cue_found
<1>7. /\ formatChunk' = formatChunk /\ dataChunk' = dataChunk /\ otherChunks' = otherChunks
  BY <1>1 DEF cue_found
<1> QED BY <1>1, <1>2, <1>3, <1>4, <1>5, <1>6, <1>7 DEF WholeIInv

(* Every step keeps WholeIInv.                                              *)
LEMMA WholeNext ==
  ASSUME InputsReadable, MarksIInv, MarksIInv', WholeIInv, [CueNext]_cue_vars
  PROVE  WholeIInv'
BY WholeOpens, WholeReadsChunk, WholeEndsChunks, WholeText, WholeWrites, WholeStops,
   WholeStutters DEF CueNext

(* The two invariants say that the output is whole.                         *)
LEMMA WholeIsWhole == MarksIInv /\ WholeIInv => CueFileWhole
<1> SUFFICES ASSUME MarksIInv, WholeIInv PROVE CueFileWhole OBVIOUS
<1>1. ASSUME cue_pc = "chunks"
      PROVE  cue_here # {} \/ cue_pos >= ChunkStart(cue_wave, Len(cue_wave) + 1)
  <2> DEFINE n == Len(cue_wave)
  <2>1. PICK k \in 1 .. n + 1 : cue_pos = ChunkStart(cue_wave, k) BY <1>1 DEF WholeIInv
  <2>2. WaveFile(cue_wave) BY <1>1 DEF WholeIInv
  <2>3. DOMAIN cue_wave = 1 .. n /\ n \in Nat BY <2>2, WaveChunks
  <2>4. cue_pos \in Nat BY <2>1, <2>2, ChunkPlaces
  <2>5. CASE k = n + 1 BY <2>1, <2>4, <2>5
  <2>6. CASE k \in 1 .. n
    <3>1. k \in cue_here BY <2>1, <2>3, <2>6 DEF cue_here
    <3> QED BY <3>1
  <2>7. k = n + 1 \/ k \in 1 .. n BY <2>3
  <2> QED BY <2>5, <2>6, <2>7
<1>2. ASSUME cue_pc = "finished" PROVE Ready /\ Writing /\ cue_section = Sections + 1
  <2>1. Enough /\ Writing /\ cue_section = Sections + 1 BY <1>2 DEF WholeIInv
  <2> QED BY <1>2, <2>1, EnoughIsReady
<1>3. ASSUME cue_pc = "failed", cue_out # <<>> PROVE Len(cue_out) < Declared + 8
  <2> DEFINE s == cue_section
  <2>1. Enough /\ Writing /\ s <= Sections /\ Section(s).size > 0
    BY <1>3 DEF WholeIInv
  <2>2. Ready BY <1>3, <2>1, EnoughIsReady
  <2>3. Sections \in Nat BY <2>2, SectionPlaces
  <2>4. s \in 1 .. Sections /\ cue_done \in Nat
        /\ (cue_done = 0 \/ cue_done < Padded(Section(s).size))
        /\ Len(cue_out) = Before(s) + cue_done
    BY <2>1, <2>3 DEF Writing
  <2>5. Section(s).size \in Nat /\ Section(s).size <= Padded(Section(s).size)
        /\ Padded(Section(s).size) \in Nat
    <3>1. Section(s).size \in Nat BY <2>2, <2>4, SectionSources
    <3> QED BY <3>1, PaddedEven
  <2>6. cue_done < Padded(Section(s).size) BY <2>1, <2>4, <2>5
  <2>7. /\ s \in 1 .. Sections + 1 /\ s + 1 \in 1 .. Sections + 1
        /\ Sections + 1 \in 1 .. Sections + 1 /\ s + 1 <= Sections + 1
    BY <2>3, <2>4
  <2> HIDE DEF s
  <2>8. /\ Before(s) \in Nat /\ Before(s + 1) \in Nat /\ Before(Sections + 1) \in Nat
        /\ Before(s + 1) = Before(s) + Padded(Section(s).size)
        /\ Before(s + 1) <= Before(Sections + 1)
    BY <2>2, <2>4, <2>7, SectionPlaces
  <2>9. Declared + 8 = Before(Sections + 1) BY <2>2, TotalFits
  <2> QED BY <2>4, <2>5, <2>6, <2>8, <2>9
<1> QED BY <1>1, <1>2, <1>3, FinishedWhole, Zenon DEF CueFileWhole

(* Where a host reads the sizes of the input right, every finished output is*)
(* a whole wave file that declares its own size and has every chunk of the  *)
(* input but the old cue chunk in it once, and an unfinished one shows.     *)
THEOREM OutputIsWhole ==
  ASSUME InputsReadable
  PROVE  CueSpec => []CueFileWhole
<1>1. CueInit => MarksIInv /\ WholeIInv BY MarksInit, WholeInit
<1>2. MarksIInv /\ WholeIInv /\ [CueNext]_cue_vars => MarksIInv' /\ WholeIInv'
  BY MarksNext, WholeNext
<1>3. MarksIInv /\ WholeIInv => CueFileWhole BY WholeIsWhole
<1> QED BY <1>1, <1>2, <1>3, PTL DEF CueSpec
=============================================================================
