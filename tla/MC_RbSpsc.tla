----------------------------- MODULE MC_RbSpsc -----------------------------
(* Small instances of RbSpsc for TLC. *)
EXTENDS RbSpsc

AllReader == {"rb_read", "rb_peek", "rb_advance_read_index",
              "rb_get_read_regions", "rb_drop"}
AllWriter == {"rb_write", "rb_get_write_regions"}

JustRead == {"rb_read"}
JustWrite == {"rb_write"}
=============================================================================
