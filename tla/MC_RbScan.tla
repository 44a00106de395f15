----------------------------- MODULE MC_RbScan -----------------------------
(* Small instances of RbScan for TLC. *)
EXTENDS RbScan

CONSTANTS data, command   \* the bytes: one begins a message of two

Messages2 == [b \in Byte |-> IF b = command THEN 2 ELSE 0]

SplitOffsets == {0, 1, 2}
NoStats == [c \in Counters |-> 1]

ShortPatterns == {<<data, command>>, <<data, data>>, <<data, data, command>>}

Items(n, s, o, b) == [item_count |-> n, item_size |-> s,
                      initial_item_offset |-> o, item_block_size |-> b]

\* Channels of one or two items, of one byte or of two; then offsets of one
\* block and more, and no items at all.
SmallLayouts ==
  {Items(1, 1, 1, 2), Items(2, 1, 1, 2), Items(1, 2, 1, 2), Items(2, 2, 0, 1),
   Items(1, 1, 2, 2), Items(1, 1, 2, 1), Items(1, 2, 1, 1), Items(0, 1, 1, 1)}
=============================================================================
