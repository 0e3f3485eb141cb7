# Formal model of dyn-utils

`dyn-utils` replaces `Box<dyn Trait>` by `DynObject<dyn Trait, S>`: a static
vtable written by hand or by a macro, and a storage `S` that keeps the erased
object in place, in a box, or in whichever of the two it fits. Nearly all of it
is unsafe code whose correctness rests on agreements between distant lines. These
modules state the agreements, TLC checks them on small instances and TLAPS proves
them in general.

## Inventory

| Part | Source | State | Operations | What makes it right |
|---|---|---|---|---|
| Storages `Raw`, `Box`, `RawOrBox` | `src/src/storage.rs` | variant, erased pointer or in-place bytes | `new`, `from_box`, `ptr`, `as_ref`/`as_mut`, `drop_in_place` | in-place writes fit and are aligned; the variant agrees with `can_store`; `dealloc` gets the block and its layout |
| `DynObject` | `src/src/object.rs` | storage, vtable | `new`, `from_box`, `insert`, `insert_pinned`, `drop` | vtable and object agree; one owner; one destructor call; no leak; pinned objects do not move |
| Trait impls | `src/src/impls.rs` | – | vtable calls; `is`, `downcast_ref/mut`, `downcast` | the erased function meets its own type; reading the object out leaves no second owner |
| `Send`, `Sync`, `Unpin` | `src/src/object.rs:30-36` | – | what the client may do | objects stay where their own type allows |
| `MaybeSync` | `src/src/lib.rs` | variant | `poll`, drop | the output is delivered once; the waker of the present holder reaches the inner future |
| `dyn_trait(maybe_sync)`, `sync` | `src/macros/src/dyn_trait.rs`, `sync.rs` | – | the generated method, its sync twin, `..._IS_SYNC` | the `unimplemented!()` default never runs |
| `dyn_object` | `src/macros/src/dyn_object.rs` | what is left to expand | generated vtable and impls | same as the impls by hand; bounds are asked of the object; an erased function pointer gets its own type back; several attributes on one declaration all take effect |
| `dyn_trait` | `src/macros/src/dyn_trait.rs` | what is left to expand | generated trait, impl for every `__Dyn`, items added to the declaration | the trait is dyn-compatible; the impl fits it; captured lifetimes outlive `'__dyn` and no others |

How they interact: `DynObject` calls the storage for memory and the vtable for
the drop function, the layout and the methods; these call into client code (a
destructor, a method), which may panic and may use any other `DynObject`. The
generated methods return a `DynObject` or a `MaybeSync` around one, which an
executor polls with a waker.

Hard behaviours: destructors that panic half-way through `drop` or `insert`;
arbitrary client code during a callback; the boundary of what fits, zero-sized
and over-aligned types; reading an object out with `ManuallyDrop`; pinning;
use by several threads; polls after completion and from another task; macros
that run independently and have to agree on names and types. They are
listed line by line under "hazards" in `PROJECT.json`.

## Modules

**Storage** – a storage type is a record (kind, size, alignment); a storage value is
its variant, its pointer and what lies in its buffer. Types have a size, an
alignment and possibly a destructor; objects are model values. The global
allocator is the variable `heap`: each block has the layout it was allocated with
and its contents. Zero-sized boxes have the pointer `Dangling` and no block.
`can_store`, `new_tag`, `from_box_tag`, `as_mut_reachable` and `drop_in_place`
are the functions of the source; `raw_write_ok` and `dealloc_ok` are the
preconditions of the two unsafe operations. Assertions that fail at build time
(`Raw::new`) are guards (`new_compiles`).

**DynObject** – the state machine. A slot is a place of type `Option<DynObject>`; an
arbitrary safe client creates, calls, moves, pins, replaces and drops objects in
all slots. Operations that call back into the erased type are split where
client code runs:

| Code | Actions |
|---|---|
| `DynObject::new`, `from_box` | `new`, `from_box` |
| `drop` | `drop_start` (`drop_inner`), then `drop_finish` (return, release) or `drop_unwind` (panic) |
| `insert`, `insert_pinned` | `insert` (nothing to destroy), or `insert_start`, then `insert_finish` or `insert_unwind` |
| methods of Future and Iterator | `method`, `end_borrow` |
| `downcast_ref`, `downcast_mut`, `downcast` | the same; on a wrong type they change nothing |
| the client | `move`, `pin`, `box_new`, `client_drop` |

The new object of an `insert` is built in a temporary, a second slot, before the
old one is destroyed, as in `Option::insert`. `ub` collects every unsafe operation
that was executed without its precondition; `drops`, `pinAddr` and `lost` are
history variables. Borrow rules and `Pin` are guards (`Idle`, `pinned`).

**Container** – the abstract specification: a place of type `Option<Box<dyn Trait>>`.
`DynObject` implements it (`ImplementsContainer`) under the mapping that forgets
storages, blocks, addresses and vtables.

**Threads** – `DynObject` on several threads: which objects a `Vtable` impl lets in
(`admits`), and what `Send` and `Sync` for `DynObject` then allow.

**MaybeSync** – the enum, its `poll`, the generated method (`call`), and the tasks
that poll, hand over and drop it. The inner future and the executor are external: the
future keeps the waker of the last poll while it waits for an event, and once it has
ended it may do anything that a `Future` may when polled again (be pending, with or
without keeping the waker, return another value of its own, panic), since `poll` only
passes the call on.
**AsyncCall** is its abstract specification: a call that is not given up is answered
once.

**AsyncMethod** – `MaybeSync` composed with `DynObject`, as the generated `maybe_sync`
methods return it: the `Async` variant holds a `DynObject` in the slot where the
`MaybeSync` is. A call puts the future into a slot (`maybe_sync_impl`), a poll goes
through the vtable and takes time (`poll_begin`, `poll_end`), so does dropping
(`drop_begin`, `drop_end`, which includes a panicking destructor), and the result can
be moved until it is pinned. Receivers are left out: a result borrows its receiver only
as far as the signature captures its lifetime, so calls are made in any order.
`MaybeSync` is instantiated, not copied; handovers between tasks are left to it alone.

**Expansion** – the three attribute macros, as the compiler runs them. A program is a
trait declaration and the client's impl block; a step is one macro call, which removes
the outermost attribute and emits declarations that may carry attributes again.

| Code | Definitions |
|---|---|
| `dyn_trait_impl` | `dyn_trait_impl`: `declared_trait` with `trait_items`, `generated_trait` with `dyn_items`, `generated_impl` |
| `DynMethod` | `dyn_method`, `update_dyn_signature`, `sync_method`, `impl_method` |
| `extract_dyn_trait_attrs` | `extract_dyn_trait_attrs` (what stays), `dyn_trait_attrs` (what is passed on) |
| `CapturedLifetimes` | `CapturedLifetimes`, `visit_lifetime`, `visit_receiver`, `visit_type`, `outlives_dyn` |
| `dyn_object_impl` | `dyn_object_impl`: `object_impl` with `vtable_method`, `object_method` |
| `vtable_fn_pointer`, `VtableReceiver`, `ReplaceSelfWithDyn` | the same names |
| `sync_impl` | `sync_impl` |
| `bail!`, `to_compile_error` | `Fail` |

A type is the set of the lifetimes, `Self` paths and `impl Trait`s it mentions: what
the macros look at. What the generated code needs in order to compile and to be
right is stated as properties against the rules of the language (`DynSafe`,
`Outlives`, `InVtable` and `InImpl`), not with the definitions of the macros.
A declaration carries `attrs`, the macro calls that the compiler still has to make,
and `helpers`, the arguments of its `#[dyn_trait(..)]` attributes, which
`extract_dyn_trait_attrs` moves to the generated trait. `ProgramsAssumption` says what
a program is: well typed, with names that differ (also from the ones that `maybe_sync`
derives) and without `'__dyn`, `__Dyn` and `DynObject`. TLC evaluates it on the programs
of every run.

**MCDynObject**, **MCThreads**, **MCMaybeSync**, **MCAsyncMethod**, **MCExpansion** – the
instances for TLC.
**DynObjectProofs**, **ContainerProofs**, **ThreadsProofs**, **MaybeSyncProofs**,
**AsyncMethodProofs**, **ExpansionProofs**, **ExpansionImplProofs** – theorems.

## Runs

| Run | Instance | Shows |
|---|---|---|
| `any` | `dyn Any`; two `RawOrBox<4,4>` and a `Box` place; an object that fits exactly, one a byte too large, one over-aligned | memory safety, agreement of storage and vtable, single ownership, no other leak than after a panic, refinement of `Container` |
| `future` | `dyn Future`; same places; a zero-sized over-aligned object, one without destructor, one boxed | the same at the edges, one destructor call, pinned objects stay |
| `iterator` | `dyn Iterator` without `alloc`; three in-place storages at every admissible address | alignment of the buffer, destructor calls |
| `maybe_sync` | a `#[sync]` and an ordinary call, two tasks | outputs are in one place; the holder of an unanswered call is woken or will be; every call is answered |
| `threads` | `dyn Future + Send`, a generated `dyn Custom + Sync`, `dyn Any`; two threads | `Send` and `Sync` are sound |
| `async_method` | three calls, two slots, one block: a `#[sync]` method, an ordinary one with its future in place and one with a boxed future | the future is where its `MaybeSync` says and stays there once polled, is destroyed once and its memory given back; every call is answered |
| `expand` | some 2600 programs: a method of every combination of receiver, arguments, result and attribute; traits with several methods, associated types, filtered items and up to four attributes; impl blocks with `#[sync]`, also on an `async fn` that is declared `impl Future` | lifetimes, dyn compatibility, completeness of impls, types of erased pointers, agreement of generated names, and that expansion ends with all impls or an error (for these programs: not everything outside of the documented limits is refused by the macros, some of it only by the compiler) |
| `any_send` | `dyn Any + Send`, `dyn Any + Send + Sync` | violated: see Findings |
| `not_filtered` | a method returning `Self`, one taking `impl Trait` | `DynCompatible` violated |
| `generic_assoc` | `trait Trait<T> { type Item; }` | `ImplComplete` violated |
| `other_lifetimes` | `trait Trait<'t> { async fn m(&self); }` | `CapturesOutlive` violated |
| `sized_self` | `dyn_object` on methods that mention `Self` with `where Self: Sized` | `VtableTyped` violated |

Bounds. Three slots are what an `insert` (slot and temporary) and a concurrent
operation elsewhere need; three objects are an old one, a new one and a third owner;
two blocks let a block be reused while another leaks. `MaxAddr` = 8 has every
address class of the alignments 1, 2, 4 and 8. Blocks are symmetric in `any` and
`future`; they only occur in equalities, in states and in the refinement mapping,
and these runs have no liveness property. `MaxEvents` = 2 and `MaxMoves` = 2 give
a pending poll before and after each of two handovers. In `async_method` two slots
let two results be alive at once and be moved; one event per call gives a poll that
is pending and one that is not; handovers are left out (one task), since the waker
is passed through unchanged by `DynObject`. In `expand`, two lifetimes, two arguments
and two kinds of anonymous lifetime are what captures can tell apart; three
`dyn_object` attributes have a first, a middle and a last one. Deadlock is not
checked: a client may stop once it owns nothing, and expansion ends.

Fairness. In `MaybeSync`: a woken task is eventually run (`run_task`) and
events eventually happen (`fire`), which is what an executor and its event sources
promise. Calls, handovers and drops are not fair, and nothing is assumed of the
`MaybeSync` code itself, which only runs when polled. In `AsyncMethod` the same is
said in finer steps: a woken task pins and polls, a poll and a destructor that have
begun return or panic, events happen. In `Expansion`, the compiler expands macros
for as long as there are any (`WF_vars(Next)`).

### Findings

`any_impl!` asks only `core::any::Any` of the object (`src/src/impls.rs:26`),
also for `dyn Any + Send` and `dyn Any + Send + Sync`, while `Send` and `Sync` for
`DynObject` rely on `Dyn` (`src/src/object.rs:30-34`, "DynObject is just a wrapper
around `Dyn`"). The run `any_send` shows an object that is not `Send` in use by a
second thread. `SendSound` shows that this is the only gap in the model.

`is_dispatchable` (`src/macros/src/utils.rs:30`) looks at receiver and generic parameters
only: methods that return `Self` or take `impl Trait` stay in the generated trait,
although "Other non dyn-compatible items are filtered" (`src/src/macros.rs:58`). Run
`not_filtered`.

`parse_type` (`src/macros/src/dyn_trait.rs:143`) names the concrete trait without its
generic arguments, so a generic trait with an associated type does not compile. Run
`generic_assoc`.

`CapturedLifetimes` (`src/macros/src/dyn_trait.rs:367`) misses lifetime parameters of the
trait; the generated method does not type-check. Run `other_lifetimes`. Two rarer ways
to the same effect are not in a run, only excluded by `LifetimesWritten`: a lifetime
hidden in a path, as in `fn m(&self, s: Cow<str>) -> impl Future<Output = ()>`, and `use<'_>`
where the receiver's lifetime is written with a name.

`dyn_object` accepts a method with `where Self: Sized` that mentions `Self`; its vtable
entry is made for the erased type and called with `Self` = `DynObject`
(`src/macros/src/dyn_object.rs:221`). Unlike the two before it, this compiles. Run
`sized_self`.

The programs of `expand` leave these cases out, and so do the hypotheses of the theorems
about `Expansion`: outside of them the properties are proved for every program.

## Proofs

`DynObjectProofs` proves, for all types, sizes, alignments, storages, slots and
objects, `TypeCorrect`, `MemorySafe`, `StorageConsistent`, `SingleOwner`, `DropOnce`,
`NoOtherLeak` and `PinRespected`: the invariants that the runs check. They follow from
one inductive invariant `IInv` (`Invariance`). It adds to the properties:

- `BoxesOK`: a client's box has the block and layout that `from_box` relies on;
- `PhasesOK`: a callback in progress still has its object, and an insert its own
  temporary, which is neither pinned nor used by another insert;
- `LostOK`: leaked blocks stay allocated and belong to nobody, so that they are not
  freed or reused;
- `AddressesOK` and `PinsOK`: slots are aligned, pinned objects are in pinned slots.

None of the properties is inductive alone: that `dealloc` is right needs
`StorageMatchesVtable`, that needs no one else to free the block (`Separation`, from
`OwnedOnce`, `BoxesOK` and `LostOK`), and that needs the heap contents to identify the
owner. `AlignedWrite` is the arithmetic behind `repr(C)` and `_align`: a type admitted
by `can_store` is aligned at every address where the storage may be.
The assumptions are those of `Storage` and `DynObject`: alignments divide each other
when ordered (powers of two), the tables of types are well typed, and `None` and
`Dangling` are no objects, blocks or slots.

`ThreadsProofs` proves `SendSound` and `SyncSound` under `BoundsAsked`: every trait
object type over `Any` has no bounds. Its invariant says that objects that are not
`Send` are at home, that a slot is lent only if `Dyn` is `Sync`, that its object has
the bounds of `Dyn`, and that only the owner has exclusive access.

`ContainerProofs` proves `BehavesLikeBox`, the refinement of `Container`, from the same
`IInv`. The mapping sends a slot to its object and an object to what became of it
(`LifeOf`); there is one lemma per action of `DynObject`, which names the step of
`Container` that it is or shows that the mapped state does not change. `IInv` is needed
where the two differ in what they look at: an object is destroyed once because its slot
is its only owner, and a panicking destructor in `insert` leaves the new object because
the temporary is nobody else's.

`MaybeSyncProofs` proves `TypeCorrect`, `OutputUnique`, `HolderIsWoken` and
`AnswersAtMostOnce` for any number of calls, tasks, events and handovers. Its invariant
adds `VariantsOK` to the properties: which variant goes with which state of the body, of
the output and of the last poll; the `unimplemented!()` body never runs.
`HolderIsWoken` is the safety side of the liveness that TLC checks: no wake-up is lost
between an event, a handover and the poll that follows. `AnswersAtMostOnce` is the
refinement of `AsyncCall` without its fairness.

`AsyncMethodProofs` reuses both invariants by instantiation: a step of the composition
is a step of `DynObject`, so `IInv` is kept by the lemmas of `DynObjectProofs`, and a
step of `MaybeSync` or a stutter, so its invariant is kept by those of
`MaybeSyncProofs`. What connects them is `ResultsOK` (a live result has a slot of its
own) and `FuturesOK` (the slot of an `Async` holds the future of that call, pinned from
the first poll on; no other slot holds anything). From these follow `FutureStays`,
`FutureDroppedOnce`, `FutureMemoryFreed` and `ComposedAnswersAtMostOnce`.

`ExpansionProofs` and `ExpansionImplProofs` prove the six invariants of `Expansion` for
every set of programs, any number of attributes and every order of expansion. The lemmas
at the beginning say once what each operator on methods does to each field. All proofs
rest on `ExpInv`: a declaration has the items of the source, before or after `trait_items`;
a generated trait has `dyn_items` of one of the two. That `dyn_trait` gives its own
output back unchanged (`SettledItems`, `DynItemsFacts`) is what bounds them although
attributes repeat. On top of it:

| Theorem | Invariant | Hypothesis on programs |
|---|---|---|
| `UncapturedStaysFree` | `ExpInv` | none |
| `CapturesHold` | `ExpInv` | `LifetimesWritten`: no lifetime of the trait (`other_lifetimes`), no captured one hidden in a path, `use<'_>` only where the receiver's lifetime has no name |
| `DynCompatibleHolds` | `ExpInv` | `Dispatchable`: kept methods mention neither `Self` nor `impl Trait` (`not_filtered`) |
| `VtableTypedHolds` | `NamesInv`: the declaration is there once, names of attributes to come are not in use, an impl for `DynObject` was made from the items of the trait of its name | `Erasable`: no `Self` in methods with `where Self: Sized` (`sized_self`), `Pin<&mut Self>` as the only pinned receiver, names of generated traits differ |
| `ImplCompleteHolds` | `CompleteInv`: each impl has its generated trait and its concrete trait, and what is left of their attributes removes neither | `Completable`: no associated type in a generic trait (`generic_assoc`), no `maybe_sync` on a remote trait, after `dyn_trait` only attributes that keep the declaration |
| `ClientBodyRuns` | `ClientInv`: the constant is in the block only with the sync method, and the trait declares both or has a `dyn_trait` attribute left | `Implemented`: the client's impl has the methods of the trait, `#[sync]` is on methods declared `maybe_sync` |

The hypotheses are defined beside the properties; `MCExpansion` assumes them of all
programs of `expand`, so TLC shows that they are satisfied by those. `WordsAssumption`
says that the words the macros write are strings, which the provers do not know of
constant strings.

Only model-checked: what needs fairness (the liveness of `ImplementsAsyncCall` and
`AnsweredOnce`, and `ExpansionEnds`), which TLAPS does not prove.

## Not modelled

- The order of effects of several calls: a `#[sync]` body runs in the call, another one
  when it is polled, and whether calls on one receiver may overlap depends on what its
  signature captures. No document promises an order.
- The transmutes of function pointers in `impls.rs`, which are between types written side
  by side; those of generated code are `VtableTyped`.
- Arguments and results of vtable methods at run time. The lifetimes that the
  transmutes erase are those of the trait impl's signature, which the compiler checks.
- `mem::forget` and other leaks by the client: safe, and they only remove behaviour.
- A second panic during unwinding: the process aborts.
- Misuse of the `doc(hidden)` accessors (`storage_mut` and others): they are for
  generated code.
- `RawOrBox::new_raw` and storages used without a `DynObject`.
- `Debug`, parsing of attribute arguments and error messages, benches, examples.
- Of the macros: argument patterns (`PatternAsArg`), spans, default storages,
  supertraits, visibility, unsafe traits, where clauses and `#[cfg]` attributes, which
  are copied through or dropped without a decision. `self` by value or `self: &Self` is
  refused or filtered as in the code; `Pin<&Self>` is accepted by the code and then
  refused by the compiler, and is not among the programs.
- Collisions of derived names (`..._sync`, `..._IS_SYNC`, `__Storage...`), which the
  compiler reports, and raw identifiers.
- Elided lifetimes inside `Fn(..)` and `fn(..)` types, which `visit_type_reference_mut`
  rewrites too.
- `dyn_trait(remote = ..)` in combination with `maybe_sync`, which needs a remote trait
  that has the added items, or with a `dyn_object` attribute on the pasted declaration,
  which is dropped with it.
- `use<'_>` ties all anonymous lifetimes to `'__dyn`, those of arguments too, although it
  names the receiver's only; `UncapturedFree` does not object, the result is sound and
  stricter than it need be.

## Plan

1. Done: `Storage`, `DynObject`, `Container`, `MaybeSync`, `AsyncCall`, `Threads`, with
   proofs for `DynObject` and `Threads`.
2. Done: `Expansion`, the macros over abstract programs.
3. Done: `AsyncMethod`, the composition of `MaybeSync` and `DynObject`.
4. Done: proofs of all invariants and of the safety part of the refinements.
5. Left: the safety part of `ExpansionEnds` (once expanded, each attribute has had its
   effect, `ObjectsMade`), which counts impls and so needs the names of attributes in the
   invariant.
