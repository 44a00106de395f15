----------------------------- MODULE MC_WaveCue -----------------------------
(* Small instances of WaveCue for TLC.                                     *)
EXTENDS WaveCue

(* Wave files of up to four chunks in any order and with odd and even      *)
(* sizes, one of each kind but "other"; and every markers file of up to    *)
(* four characters: numbers below, at and above the largest one, and one    *)
(* file with a line too many.                                              *)
Chunk(id, size, code) == [id |-> id, size |-> size, code |-> code]
ChunkKinds ==
  {Chunk("fmt ", 16, 1), Chunk("fmt ", 17, 1), Chunk("fmt ", 18, 2),
   Chunk("data", 3, 0), Chunk("data", 6, 0), Chunk("cue ", 28, 0),
   Chunk("other", 1, 0)}
AtMostOne(wave, id) ==
  \A j, k \in DOMAIN wave : wave[j].id = id /\ wave[k].id = id => j = k
WaveFiles ==
  {wave \in SeqOf(ChunkKinds, 4) :
     \A id \in {"fmt ", "data", "cue "} : AtMostOne(wave, id)}
SmallWave == <<Chunk("fmt ", 16, 1), Chunk("data", 3, 0)>>
MarkersFiles == SeqOf({1, 9, 120, CR, LF}, 4) \cup {<<1, LF, 9, CR, 1>>}
SomeFiles == (WaveFiles \X {<<1>>}) \cup ({SmallWave} \X MarkersFiles)
=============================================================================
