------------------------------ MODULE Storage ------------------------------
(***************************************************************************)
(* The storages of src/storage.rs: Raw (in place), Box (type-erased heap   *)
(* box) and RawOrBox (in place when the object fits, boxed otherwise).     *)
(*                                                                         *)
(* A storage type S is a record [kind, size, align]: Raw<SIZE, ALIGN>,     *)
(* RawOrBox<SIZE, ALIGN>, or Box, whose size and align are not used.  A    *)
(* storage value is a record with the fields                               *)
(*   tag   the enum variant (Raw or Box);                                  *)
(*   ptr   the erased pointer of a Box: a heap block, or Dangling for a    *)
(*         zero-sized object, which std never allocates; None in Raw;      *)
(*   buf   what lies in the storage itself: the object in the in-place     *)
(*         buffer of Raw, or the zero bytes of an object behind a dangling *)
(*         pointer; None otherwise.                                        *)
(* Objects are model values: only identity and type are kept of them.      *)
(***************************************************************************)
EXTENDS Integers

CONSTANTS
    Types,      \* the concrete types T that get erased
    SizeOf,     \* size_of::<T>()
    AlignOf,    \* align_of::<T>()
    NeedsDrop,  \* mem::needs_drop::<T>()
    Alignments, \* the alignments elain::Alignment admits
    Vals,       \* the objects of the program
    TypeOf,     \* the concrete type of each object
    Blocks,     \* what the global allocator can hand out (bounds live boxes)
    Alloc,      \* cargo feature "alloc"
    Dangling,   \* the pointer of a zero-sized box
    None        \* no object, type, pointer, ...

(* Alignments are powers of two, so a smaller one divides a larger one.    *)
ASSUME AlignmentsAssumption ==
    /\ Alignments \subseteq Nat \ {0}
    /\ \A a, b \in Alignments : a <= b => \E k \in 1..b : b = k * a

ASSUME TypesAssumption ==
    /\ SizeOf \in [Types -> Nat]
    /\ AlignOf \in [Types -> Alignments]
    /\ NeedsDrop \in [Types -> BOOLEAN]
    /\ TypeOf \in [Vals -> Types]
    /\ Alloc \in BOOLEAN

ASSUME NoneAssumption ==
    /\ None \notin Vals /\ None \notin Types /\ None \notin Blocks
    /\ Dangling \notin Blocks /\ Dangling # None

VARIABLE heap   \* the global allocator: layout and contents of each block

Layouts == [size : Nat, align : Alignments]
NoLayout == [size |-> 0, align |-> 0]
FreeBlock == [layout |-> NoLayout, data |-> None]

(* core::alloc::Layout::new::<T>() *)
LayoutOf(T) == [size |-> SizeOf[T], align |-> AlignOf[T]]

StorageTypes == [kind : {"Raw", "Box", "RawOrBox"}, size : Nat, align : Alignments]
Ptrs == Blocks \cup {Dangling, None}

-----------------------------------------------------------------------------
(* The global allocator and std's Box, as the storages use them.           *)

IsFree(b) == heap[b] = FreeBlock
AllocPtrs(T) == IF SizeOf[T] = 0 THEN {Dangling} ELSE {b \in Blocks : IsFree(b)}
Allocated(h, p, v) ==
    IF p \in Blocks THEN [h EXCEPT ![p] = [layout |-> LayoutOf(TypeOf[v]), data |-> v]] ELSE h
Freed(h, p) == IF p \in Blocks THEN [h EXCEPT ![p] = FreeBlock] ELSE h

-----------------------------------------------------------------------------
(* Raw                                                                     *)

(* Mutant of can_store: the alignment is not compared. *)
can_store_any_align(S, T) == SizeOf[T] <= S.size

(* Raw::can_store *)
can_store(S, T) == SizeOf[T] <= S.size /\ AlignOf[T] <= S.align

(* Mutant of storage_align: the _align field is missing. *)
storage_align_1(S) == 1

(* repr(C) with an Align<ALIGN> field: where a Raw may be placed.          *)
storage_align(S) == S.align

(* The raw write of Raw::new_unchecked at address a: it must stay inside   *)
(* the buffer and be aligned for T.                                        *)
raw_write_ok(S, T, a) == SizeOf[T] <= S.size /\ a % AlignOf[T] = 0

-----------------------------------------------------------------------------
(* Storage::new, FromBox::from_box                                         *)

(* Raw::new asserts can_store at build time, and RawOrBox::new is Raw::new *)
(* without "alloc": a program in which the assertion fails does not build. *)
(* Box does not exist without "alloc".                                     *)
new_compiles(S, T) ==
    /\ S.kind = "Raw" \/ (S.kind = "RawOrBox" /\ ~Alloc) => can_store(S, T)
    /\ S.kind = "Box" => Alloc

from_box_compiles(S) == S.kind \in {"Box", "RawOrBox"} /\ Alloc

new_tag(S, T) ==
    IF S.kind = "Raw" \/ (S.kind = "RawOrBox" /\ can_store(S, T)) THEN "Raw" ELSE "Box"

(* Mutant of from_box_tag: the box is always kept. *)
from_box_keeps_box(S, T) == "Box"

(* RawOrBox::from_box moves the object out of the box when it fits.        *)
from_box_tag(S, T) == IF S.kind = "RawOrBox" /\ can_store(S, T) THEN "Raw" ELSE "Box"

-----------------------------------------------------------------------------
(* Access and destruction                                                  *)

(* Storage::ptr / ptr_mut, followed: the object the data pointer leads to. *)
Data(h, o) == IF o.ptr \in Blocks THEN h[o.ptr].data ELSE o.buf

(* as_ref / as_mut of RawOrBox reach unreachable_unchecked when the        *)
(* variant does not agree with can_store.                                  *)
as_mut_reachable(S, o, T) == S.kind = "RawOrBox" => (o.tag = "Raw" <=> can_store(S, T))

(* Mutant of drop_in_place: the box is not deallocated. *)
drop_in_place_nothing(h, o, layout) == h

(* Storage::drop_in_place(layout): Raw does nothing, Box deallocates unless*)
(* the layout is zero-sized.                                               *)
drop_in_place(h, o, layout) ==
    IF o.tag = "Box" /\ layout.size # 0 THEN Freed(h, o.ptr) ELSE h

(* alloc::dealloc requires a live block, allocated with this very layout.  *)
dealloc_ok(h, o, layout) ==
    o.tag = "Box" /\ layout.size # 0 => o.ptr \in Blocks /\ h[o.ptr].layout = layout
=============================================================================
