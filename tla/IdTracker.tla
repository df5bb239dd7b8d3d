----------------------------- MODULE IdTracker ------------------------------
(***************************************************************************)
(* The two allocators of IDs, as values and the operations on them:        *)
(* IdTracker (utils/src/collections/id/tracker.rs) keeps a Bitmap          *)
(* (utils/src/collections/bitmap.rs) of the IDs that are taken, IdHander   *)
(* (utils/src/collections/id/hander.rs) only counts up.                    *)
(*                                                                         *)
(* A bitmap is its entries, each the set of its one bits, and the number   *)
(* of bits in use.  What an operation returns is a record: "ok" says       *)
(* whether the Result is an Ok, and the other fields are the new value of  *)
(* the allocator and the ID.                                               *)
(***************************************************************************)
EXTENDS Integers, Sequences, FiniteSets, FiniteSetsExt

CONSTANT EntryBits    \* the width of a bitmap entry, 8

(* Bitmap::new; div_ceil. *)
Bitmap_new(count) ==
    [entries |-> [k \in 1..((count + EntryBits - 1) \div EntryBits) |-> {}],
     used_bits_count |-> count]

Entry(index) == index \div EntryBits + 1
Bit(index)   == index % EntryBits

(* The caller has checked index against used_bits_count. *)
is_set(bitmap, index) == Bit(index) \in bitmap.entries[Entry(index)]

set(bitmap, index) == [bitmap EXCEPT !.entries[Entry(index)] = @ \cup {Bit(index)}]
-----------------------------------------------------------------------------
uninit == [bitmap |-> Bitmap_new(0), min |-> 0]

(* IdTracker::new; max is the last ID of the pool. *)
new(min, max) == [bitmap |-> Bitmap_new(max - min + 1), min |-> min]

Bits(tracker) == 0..(tracker.bitmap.used_bits_count - 1)

(* The IDs that are taken. *)
Taken(tracker) == {tracker.min + i : i \in {j \in Bits(tracker) : is_set(tracker.bitmap, j)}}

(* allocate: the first ID whose bit is clear, or OutOfIds. *)
allocate(tracker) ==
    LET clear == {i \in Bits(tracker) : ~is_set(tracker.bitmap, i)}
    IN  IF clear = {}
        THEN [ok |-> FALSE, tracker |-> tracker]
        ELSE [ok |-> TRUE, id |-> tracker.min + Min(clear),
              tracker |-> [tracker EXCEPT !.bitmap = set(@, Min(clear))]]
-----------------------------------------------------------------------------
(* IdHander::new_starting_from and IdHander::new. *)
new_starting_from(start_id, max_id) == [next |-> start_id, max |-> max_id]

(* handout_and_skip and handout, which skips one. *)
handout_and_skip(hander, count) ==
    IF hander.next > hander.max
    THEN [ok |-> FALSE, hander |-> hander]
    ELSE [ok |-> TRUE, id |-> hander.next, hander |-> [hander EXCEPT !.next = @ + count]]
=============================================================================
