----------------------------- MODULE Expansion -----------------------------
(***************************************************************************)
(* The attribute macros dyn_trait, dyn_object and sync (macros/src), as the*)
(* compiler runs them: it takes an item with a macro attribute, removes the*)
(* outermost one and replaces the item by what the macro returns, which may*)
(* carry attributes again.  A step is one macro call.                      *)
(*                                                                         *)
(* A program is a trait declaration and an impl block of that trait.  Names*)
(* are tuples of words.  A type is the set of what it mentions, in pairs:  *)
(*   <<"lt", l>>    a lifetime: named, "_", or "" in a reference without;  *)
(*                  one that a path hides has a name that is not declared  *)
(*   <<"Self", "">> and <<"Self", T>>   Self and Self::T                   *)
(*   <<"impl", "">> impl Trait in argument position                        *)
(* A method has a receiver, lifetime parameters, arguments and a result:   *)
(* plain, async or impl (return-position impl Trait), and in generated code*)
(* also DynObject and MaybeSync.                                           *)
(* A declaration carries attributes that are macro calls, outermost first, *)
(* and helpers: the arguments of its #[dyn_trait(..)] attributes, which are*)
(* found wherever they stand.                                              *)
(***************************************************************************)
EXTENDS Naturals, Sequences, FiniteSets

CONSTANT Programs   \* the programs that are compiled

VARIABLES
    source,  \* the program as it was written
    pending, \* trait declarations with attributes left to expand
    traits,  \* trait declarations that are final
    impls,   \* impls of generated traits for every __Dyn
    objects, \* impls for DynObject, with their vtables
    block,   \* the client's impl block
    err      \* compile errors that the macros reported

vars == <<source, pending, traits, impls, objects, block, err>>

Init ==
    /\ source \in Programs
    /\ pending = {source.decl}
    /\ traits = {} /\ impls = {} /\ objects = {}
    /\ block = source.block
    /\ err = {}

Lt(l) == <<"lt", l>>
SelfTy == <<"Self", "">>
DynLt == "__dyn"

Fns(items) == {i \in items : i.kind = "fn"}
AssocTypes(items) == {i \in items : i.kind = "type"}

(* The path of a trait: declared here, or in another crate. *)
Remote(name) == <<"remote">> \o name
path(tr, opts) == IF opts.remote THEN Remote(tr.name) ELSE tr.name

-----------------------------------------------------------------------------
(* utils.rs                                                                *)

is_not_generic(ty) == ~ty.generic /\ ~ty.where

(* Mutant of is_dispatchable: type parameters are not looked at. *)
is_dispatchable_generic(m) == m.recv.form \in {"ref", "pin"}

(* &self, &mut self or Pin<&Self>, and only lifetime parameters. *)
is_dispatchable(m) == m.recv.form \in {"ref", "pin"} /\ ~m.generic

has_rpit(m) == m.ret.form \in {"async", "impl"}

(* impl Future<Output = ..> *)
future_output(ret) == ret.form = "impl" /\ ret.bound = "Future" /\ ret.output

(* sync.rs: names of what #[sync] and maybe_sync add.  Upper-casing keeps  *)
(* snake-case names apart.                                                 *)
sync_fn(m) == Append(m.name, "sync")
is_sync_const(m) == Append(m.name, "IS_SYNC")

-----------------------------------------------------------------------------
(* dyn_trait: signatures                                                   *)

(* Mutants of CapturedLifetimes: use<..> is ignored; '_ is forgotten. *)
CapturedLifetimes_all(m) == m.lts \cup {"_"}
CapturedLifetimes_named(m) == IF m.ret.precise THEN m.ret.use ELSE m.lts

(* The lifetimes of use<..>, or all of the method with the anonymous one. *)
CapturedLifetimes(m) == IF m.ret.precise THEN m.ret.use ELSE m.lts \cup {"_"}

(* A reference without lifetime is given '_, a captured '_ becomes '__dyn. *)
visit_lifetime(C, l) ==
    LET named == IF l = "" THEN "_" ELSE l
    IN  IF named = "_" /\ "_" \in C THEN DynLt ELSE named

visit_receiver(C, recv) == [recv EXCEPT !.lt = visit_lifetime(C, @)]
visit_type(C, ty) == {IF a[1] = "lt" THEN Lt(visit_lifetime(C, a[2])) ELSE a : a \in ty}

(* impl Trait + use<..> becomes DynObject<dyn Trait + '__dyn, storage>. *)
dyn_object_result(C, ret) ==
    [ret EXCEPT !.form = "DynObject", !.ty = visit_type(C, @), !.precise = FALSE, !.use = {}]

(* Predicates `: '__dyn`: on captured lifetimes, the trait's type parameters*)
(* and Self.                                                               *)
outlives_dyn(tr, m, C) ==
    {Lt(l) : l \in m.lts \cap C} \cup {<<"T", t>> : t \in tr.tys} \cup {SelfTy}

update_dyn_signature(tr, m) ==
    LET C == CapturedLifetimes(m)
    IN  [m EXCEPT !.lts = m.lts \cup {DynLt},
                  !.outlives = m.outlives \cup outlives_dyn(tr, m, C),
                  !.recv = visit_receiver(C, m.recv),
                  !.args = [i \in DOMAIN m.args |-> visit_type(C, m.args[i])],
                  !.ret = dyn_object_result(C, m.ret)]

(* async fn is impl Future<Output = ..>. *)
desugared(m) ==
    IF m.ret.form = "async"
    THEN [m EXCEPT !.ret = [@ EXCEPT !.form = "impl", !.bound = "Future", !.output = TRUE]]
    ELSE m

(* DynMethod::new, after MethodAttrs::parse has taken the attributes. *)
unmarked(m) == [m EXCEPT !.attr = FALSE, !.maybe_sync = FALSE]
dyn_method(tr, m) ==
    LET d == unmarked(desugared(m))
    IN  IF d.ret.form = "impl" THEN update_dyn_signature(tr, d) ELSE d

maybe_sync_signature(tr, m) == [dyn_method(tr, m) EXCEPT !.ret.form = "MaybeSync"]

dyn_item(tr, m) == IF m.maybe_sync THEN maybe_sync_signature(tr, m) ELSE dyn_method(tr, m)

(* Each method with a DynObject result adds a storage parameter. *)
generic_storage(m) == IF has_rpit(m) THEN {m.name} ELSE {}

-----------------------------------------------------------------------------
(* dyn_trait: items                                                        *)

sync_method(m) ==
    [unmarked(m) EXCEPT !.name = sync_fn(m),
                        !.ret = [@ EXCEPT !.form = "plain", !.bound = "", !.output = FALSE,
                                          !.precise = FALSE, !.use = {}]]
const_item(name) == [kind |-> "const", name |-> name]

(* Mutant of additional_items: the constant is left out. *)
additional_items_sync_only(m) == IF m.maybe_sync THEN {sync_method(m)} ELSE {}

(* What maybe_sync adds to the declared trait. *)
additional_items(m) ==
    IF m.maybe_sync THEN {sync_method(m), const_item(is_sync_const(m))} ELSE {}

(* The method in the impl for __Dyn: its signature and the items of __Dyn  *)
(* that its body uses: the method, or the constant and both methods.       *)
impl_method(tr, m) ==
    [kind |-> "fn", name |-> m.name, sig |-> dyn_item(tr, m),
     uses |-> {m.name} \cup IF m.maybe_sync THEN {sync_fn(m), is_sync_const(m)} ELSE {}]

(* `type T = <__Dyn as #remote>::T`: the trait is named without arguments. *)
parse_type(ty) == [kind |-> "type", name |-> ty.name, uses |-> {ty.name}, args |-> FALSE]

(* bail! of MethodAttrs::parse and of sync_method. *)
method_errors(m) ==
    (IF m.attr /\ ~has_rpit(m) THEN {"attribute without impl Trait"} ELSE {})
    \cup IF m.maybe_sync /\ ~future_output(desugared(m).ret)
         THEN {"maybe_sync without Future"} ELSE {}

-----------------------------------------------------------------------------
(* dyn_trait                                                               *)

(* #[dyn_trait(..)] on the trait, written for the generated trait: taken   *)
(* from the declaration, their arguments become attributes.                *)
extract_dyn_trait_attrs(tr) == [tr EXCEPT !.attrs = Tail(@), !.helpers = <<>>]
dyn_trait_attrs(tr) == [tr EXCEPT !.attrs = tr.helpers, !.helpers = <<>>]

dyn_trait_name(tr, opts) == IF opts.rename = <<>> THEN <<"Dyn">> \o tr.name ELSE opts.rename

GenericParams(tr) == tr.lts \cup tr.tys

dyn_trait_types(tr) == {t \in AssocTypes(tr.items) : is_not_generic(t)}
dyn_trait_methods(tr) == {m \in Fns(tr.items) : is_dispatchable(m)}

dyn_trait_errors(tr) ==
    (IF /\ GenericParams(tr) # {}
        /\ \E i \in DOMAIN tr.helpers : tr.helpers[i].macro = "dyn_object"
     THEN {"generic parameters with dyn_object"} ELSE {})
    \cup UNION {method_errors(m) : m \in dyn_trait_methods(tr)}

(* The items of the declaration as it is emitted again, and of the         *)
(* generated trait.                                                        *)
trait_items(tr) ==
    LET ms == dyn_trait_methods(tr)
    IN  (tr.items \ ms) \cup {unmarked(m) : m \in ms} \cup UNION {additional_items(m) : m \in ms}
dyn_items(tr) == dyn_trait_types(tr) \cup {dyn_item(tr, m) : m \in dyn_trait_methods(tr)}

declared_trait(tr) == [extract_dyn_trait_attrs(tr) EXCEPT !.items = trait_items(tr)]

generated_trait(tr, opts) ==
    [dyn_trait_attrs(tr) EXCEPT !.name = dyn_trait_name(tr, opts), !.generated = TRUE,
                   !.storages = UNION {generic_storage(m) : m \in dyn_trait_methods(tr)},
                   !.items = dyn_items(tr)]

generated_impl(tr, opts) ==
    [trait |-> dyn_trait_name(tr, opts), of |-> path(tr, opts),
     items |-> {parse_type(t) : t \in dyn_trait_types(tr)}
               \cup {impl_method(tr, m) : m \in dyn_trait_methods(tr)}]

(* Emitted declarations stay pending while they carry attributes. *)
Emit(tr, ds) ==
    /\ pending' = (pending \ {tr}) \cup {d \in ds : d.attrs # <<>>}
    /\ traits' = traits \cup {d \in ds : d.attrs = <<>>}

(* A compile error takes the place of the item; which one, if there are    *)
(* several, does not matter.                                               *)
Fail(tr, es) ==
    /\ err' = err \cup es
    /\ pending' = pending \ {tr}
    /\ UNCHANGED <<source, traits, impls, objects, block>>

dyn_trait_impl(tr) ==
    LET opts == Head(tr.attrs)
    IN  /\ opts.macro = "dyn_trait"
        /\ IF dyn_trait_errors(tr) # {} THEN Fail(tr, dyn_trait_errors(tr))
           ELSE /\ Emit(tr, {generated_trait(tr, opts)}
                            \cup IF opts.remote THEN {} ELSE {declared_trait(tr)})
                /\ impls' = impls \cup {generated_impl(tr, opts)}
                /\ UNCHANGED <<source, objects, block, err>>

-----------------------------------------------------------------------------
(* dyn_object                                                              *)

(* Mutant of VtableReceiver: Pin<&mut Self> is told apart by mutability. *)
VtableReceiver_mutability(m) == IF m.recv.form = "ref" /\ m.recv.mut THEN "Mut" ELSE "Ref"

VtableReceiver(m) ==
    IF m.recv.form # "ref" THEN "Pinned" ELSE IF m.recv.mut THEN "Mut" ELSE "Ref"

ReplaceSelfWithDyn(ty) == {IF a[1] = "Self" THEN <<"__Dyn", a[2]>> ELSE a : a \in ty}

(* The type that the function pointer is erased from (new_vtable) and that *)
(* it is given back for the call.                                          *)
vtable_fn_pointer(m, new_vtable) ==
    LET visit(ty) == IF new_vtable THEN ReplaceSelfWithDyn(ty) ELSE ty
    IN  [unsafety |-> m.unsafety, storage |-> VtableReceiver(m),
         params |-> [i \in DOMAIN m.args |-> visit(m.args[i])],
         output |-> visit(m.ret.ty), wrapper |-> m.ret.form]

(* Storage methods called in the vtable and accessors of DynObject called  *)
(* in the impl.                                                            *)
self_as(m) == CASE VtableReceiver(m) = "Ref" -> <<"as_ref", "storage">>
                [] VtableReceiver(m) = "Mut" -> <<"as_mut", "storage_mut">>
                [] OTHER -> <<"as_pinned_mut", "storage_pinned_mut">>

vtable_method(m) == [name |-> m.name, ptr |-> vtable_fn_pointer(m, TRUE),
                     self_as |-> self_as(m)[1]]
object_method(m) == [name |-> m.name, ptr |-> vtable_fn_pointer(m, FALSE),
                     self_as |-> self_as(m)[2]]

(* One type parameter per associated type: declared by the impls, bound in *)
(* `dyn Trait<T = __TypeT>` and given to `type T` of the impl.             *)
type_names(tr) == {ty.name[1] : ty \in AssocTypes(tr.items)}
generics(tr) == {<<"__Type", t>> : t \in type_names(tr)}
dyn_trait(tr) == [t \in type_names(tr) |-> <<"__Type", t>>]
impl_type(tr) == [t \in type_names(tr) |-> <<"__Type", t>>]

dyn_object_errors(tr) ==
    (IF \E m \in Fns(tr.items) : ~is_dispatchable(m) THEN {"not dispatchable"} ELSE {})
    \cup (IF \E t \in AssocTypes(tr.items) : t.generic THEN {"generic associated type"} ELSE {})
    \cup (IF \E i \in tr.items : i.kind \notin {"fn", "type"} THEN {"unsupported item"} ELSE {})

(* Mutant of include_trait: another dyn_object attribute is not looked for. *)
include_trait_local(tr) == ~Head(tr.attrs).remote

(* The declaration is emitted unless it stands for a remote trait; also then*)
(* if it carries a dyn_object attribute that still has to be expanded.     *)
include_trait(tr) ==
    \/ ~Head(tr.attrs).remote
    \/ \E i \in 2..Len(tr.attrs) : tr.attrs[i].macro = "dyn_object"

object_impl(tr) ==
    LET ms == Fns(tr.items)
    IN  [trait |-> path(tr, Head(tr.attrs)), bounds |-> Head(tr.attrs).bounds,
         generics |-> generics(tr), dyn_trait |-> dyn_trait(tr), types |-> impl_type(tr),
         vtable |-> {vtable_method(m) : m \in ms}, methods |-> {object_method(m) : m \in ms}]

dyn_object_impl(tr) ==
    /\ Head(tr.attrs).macro = "dyn_object"
    /\ IF dyn_object_errors(tr) # {} THEN Fail(tr, dyn_object_errors(tr))
       ELSE /\ Emit(tr, IF include_trait(tr) THEN {[tr EXCEPT !.attrs = Tail(@)]} ELSE {})
            /\ objects' = objects \cup {object_impl(tr)}
            /\ UNCHANGED <<source, impls, block, err>>

-----------------------------------------------------------------------------
(* sync                                                                    *)

(* Mutant of sync_items: the sync method is not emitted. *)
sync_items_const(m) == {[m EXCEPT !.sync = FALSE],
                        [m EXCEPT !.kind = "const", !.name = is_sync_const(m), !.sync = FALSE]}

(* The method, a copy of it without async, and the constant set to true. *)
sync_items(m) ==
    {[m EXCEPT !.sync = FALSE],
     [m EXCEPT !.name = sync_fn(m), !.asyncness = FALSE, !.sync = FALSE],
     [m EXCEPT !.kind = "const", !.name = is_sync_const(m), !.sync = FALSE]}

sync_impl(m) ==
    /\ m \in block /\ m.sync
    /\ \/ m.asyncness /\ block' = (block \ {m}) \cup sync_items(m) /\ err' = err
       \/ ~m.asyncness /\ block' = block \ {m} /\ err' = err \cup {"sync without async"}
    /\ UNCHANGED <<source, pending, traits, impls, objects>>

-----------------------------------------------------------------------------
Next ==
    \/ \E tr \in pending : dyn_trait_impl(tr)
    \/ \E tr \in pending : dyn_object_impl(tr)
    \/ \E m \in block : sync_impl(m)

(* The compiler expands macros until none is left. *)
Spec == Init /\ [][Next]_vars /\ WF_vars(Next)

-----------------------------------------------------------------------------
(* Programs as they are written.                                           *)

(* Words that the macros write; the provers do not see that a constant     *)
(* string is a string.                                                     *)
ASSUME WordsAssumption ==
    {"", "_", DynLt, "lt", "Self", "T", "Future", "sync", "IS_SYNC", "Dyn", "remote"} \subseteq STRING

Mention == STRING \X STRING
Receiver == [form : {"none", "value", "ref", "pin"}, mut : BOOLEAN, lt : STRING]
Result ==
    [form : {"plain", "async", "impl", "DynObject", "MaybeSync"}, bound : STRING,
     output : BOOLEAN, ty : SUBSET Mention, precise : BOOLEAN, use : SUBSET STRING]
Method ==
    [kind : {"fn"}, name : Seq(STRING), unsafety : BOOLEAN, recv : Receiver, lts : SUBSET STRING,
     generic : BOOLEAN, sized : BOOLEAN, outlives : SUBSET Mention, args : Seq(SUBSET Mention),
     ret : Result, attr : BOOLEAN, maybe_sync : BOOLEAN]
AssocType == [kind : {"type"}, name : Seq(STRING) \ {<<>>}, generic : BOOLEAN, where : BOOLEAN]
Const == [kind : {"const"}, name : Seq(STRING)]
TraitItem == Method \cup AssocType \cup Const
Attribute == [macro : {"dyn_trait", "dyn_object"}, remote : BOOLEAN, bounds : SUBSET STRING,
              rename : Seq(STRING)]
Trait == [name : Seq(STRING), attrs : Seq(Attribute), helpers : Seq(Attribute),
          lts : SUBSET STRING, tys : SUBSET STRING, storages : SUBSET Seq(STRING),
          generated : BOOLEAN, items : SUBSET TraitItem]
BlockItem == [kind : {"fn", "type", "const"}, name : Seq(STRING), asyncness : BOOLEAN, sync : BOOLEAN]

Anonymous == {"", "_"}
LtsOf(ty) == {a[2] : a \in {x \in ty : x[1] = "lt"}}
InputLts(m) == {m.recv.lt} \cup UNION {LtsOf(m.args[i]) : i \in DOMAIN m.args}
Mentions(m) == m.ret.ty \cup UNION {m.args[k] : k \in DOMAIN m.args}
UniqueNames(tr) == \A i, j \in tr.items : i.name = j.name => i = j

(* The names of a trait differ, also from those that maybe_sync adds, and  *)
(* nothing that the macros make ('__dyn, __Dyn, DynObject) is in the source.*)
ASSUME ProgramsAssumption ==
    \A p \in Programs :
        /\ p.decl \in Trait /\ p.block \subseteq BlockItem
        /\ ~p.decl.generated /\ p.decl.attrs # <<>> /\ UniqueNames(p.decl)
        /\ \A m \in Fns(p.decl.items) :
              /\ m.ret.form \in {"plain", "async", "impl"}
              /\ m.outlives = {} /\ DynLt \notin m.lts \cup InputLts(m) /\ m.lts \cap Anonymous = {}
              /\ \A a \in Mentions(m) : a[1] # "__Dyn"
              /\ \A i \in p.decl.items : i.name \notin {sync_fn(m), is_sync_const(m)}

-----------------------------------------------------------------------------
(* Properties                                                              *)

Expanded == pending = {} /\ err = {} /\ \A m \in block : ~m.sync

(* The trait that stands behind `remote`, as the user pasted it. *)
RemoteTrait == [source.decl EXCEPT !.name = Remote(@), !.attrs = <<>>, !.helpers = <<>>]
Declared == traits \cup pending
Generated == {t \in Declared : t.generated}

Outlives(g, l) == l = DynLt \/ Lt(l) \in g.outlives

(* Every generated method g of a method m with impl Trait result. *)
ForRewritten(P(_, _, _)) ==
    \A t \in Generated, m \in Fns(source.decl.items) :
        \A g \in Fns(t.items) : g.name = m.name /\ has_rpit(m) => P(t, m, g)

(* The concrete result captures every lifetime in scope, those of the trait*)
(* and anonymous ones included, or what use<..> names, where '_ is that of *)
(* the receiver: all of them outlive '__dyn in the generated signature, or *)
(* DynObject::new of the result does not type-check.                       *)
CapturesOutlive ==
    LET Bounded(t, m, g) ==
            /\ \A l \in t.lts : Outlives(g, l)
            /\ m.ret.precise => \A l \in m.ret.use \ {"_"} : Outlives(g, l)
            /\ "_" \in m.ret.use => Outlives(g, g.recv.lt)
            /\ ~m.ret.precise => \A l \in InputLts(g) : Outlives(g, l)
            /\ LtsOf(g.ret.ty) \cap Anonymous = {}
    IN  ForRewritten(Bounded)

(* What that takes of the program: the trait has no lifetimes of its own   *)
(* and no captured one is hidden in a path; use<..> names what the bounds  *)
(* mention, as the compiler asks, and '_ only if the receiver's lifetime   *)
(* has no other name.                                                      *)
LifetimesWritten(p) ==
    /\ p.decl.lts = {}
    /\ \A m \in dyn_trait_methods(p.decl) : has_rpit(m) =>
          /\ ~m.ret.precise => InputLts(m) \subseteq m.lts \cup Anonymous
          /\ m.ret.precise =>
                /\ m.ret.use \subseteq m.lts \cup {"_"}
                /\ LtsOf(m.ret.ty) \subseteq
                      m.ret.use \cup IF "_" \in m.ret.use THEN Anonymous ELSE {}
          /\ "_" \in m.ret.use => m.recv.lt \in Anonymous

(* What use<..> leaves out is not tied to '__dyn: the caller of the        *)
(* generated method may end the borrow while it keeps the DynObject, as it *)
(* may with the concrete method.  (With '_ in use<..>, which is the        *)
(* receiver's, the macro ties the anonymous lifetimes of arguments too.)   *)
UncapturedFree ==
    LET Free(t, m, g) ==
            m.ret.precise =>
                /\ "_" \notin m.ret.use => DynLt \notin InputLts(g)
                /\ \A l \in m.lts \ m.ret.use : Lt(l) \notin g.outlives
    IN  ForRewritten(Free)

SelfOrImpl == {SelfTy, <<"impl", "">>}

(* The compiler's rules for items of a trait with trait objects. *)
DynSafe(i) ==
    CASE i.kind = "type" -> ~i.generic
      [] i.kind = "fn" ->
            \/ i.sized
            \/ /\ i.recv.form # "none" /\ ~i.generic
               /\ i.ret.form \notin {"async", "impl"}
               /\ Mentions(i) \cap SelfOrImpl = {}
      [] OTHER -> FALSE

(* dyn_trait generates a dyn-compatible trait: methods with impl Trait are *)
(* converted and other items that are not dyn-compatible are left out.     *)
DynCompatible == \A t \in Generated : \A i \in t.items : DynSafe(i)

(* What that takes of the program: dyn_trait does not look at the types. *)
Dispatchable(p) ==
    \A m \in dyn_trait_methods(p.decl) : m.sized \/ Mentions(m) \cap SelfOrImpl = {}

(* The generated impl has the items of the generated trait, with the same  *)
(* signatures, and refers only to what exists: the items of the concrete   *)
(* trait, the trait with its arguments, the declared storage parameters.   *)
ImplComplete ==
    \A im \in impls : \E t \in Generated, c \in Declared \cup {RemoteTrait} :
        /\ t.name = im.trait /\ c.name = im.of
        /\ UniqueNames(t) /\ UniqueNames(c)
        /\ {<<i.kind, i.name>> : i \in im.items} = {<<i.kind, i.name>> : i \in t.items}
        /\ \A i \in im.items :
              /\ i.uses \subseteq {x.name : x \in c.items}
              /\ i.kind = "fn" => i.sig \in t.items
              /\ i.kind = "type" => i.args \/ GenericParams(c) = {}
        /\ \A m \in Fns(t.items) :
              m.ret.form \in {"DynObject", "MaybeSync"} => m.name \in t.storages

(* What that takes of the program: no associated type in a generic trait;  *)
(* no maybe_sync in a remote one, which does not get the added items; after*)
(* a local dyn_trait only attributes that keep the declaration, and        *)
(* dyn_object alone passed on to the generated trait.                      *)
Completable(p) ==
    LET tr == p.decl
    IN  /\ \A k \in DOMAIN tr.helpers : tr.helpers[k].macro = "dyn_object" /\ ~tr.helpers[k].remote
        /\ \A k \in DOMAIN tr.attrs : tr.attrs[k].macro = "dyn_trait" =>
              /\ GenericParams(tr) # {} => dyn_trait_types(tr) = {}
              /\ IF tr.attrs[k].remote
                 THEN \A m \in dyn_trait_methods(tr) : ~m.maybe_sync
                 ELSE \A l \in DOMAIN tr.attrs : l > k =>
                         /\ ~tr.attrs[l].remote
                         /\ tr.attrs[l].macro = "dyn_object" => dyn_object_errors(declared_trait(tr)) = {}

(* What a type means in the Vtable impl, where __Dyn is the erased type, and*)
(* in the trait impl, where Self is the DynObject; lifetimes are erased.   *)
InVtable(o, ty) ==
    {CASE a = <<"__Dyn", "">> -> <<"erased", "">>
       [] a[1] = "__Dyn" /\ a[2] # "" -> o.dyn_trait[a[2]]
       [] OTHER -> a : a \in {x \in ty : x[1] # "lt"}}
InImpl(o, ty) ==
    {CASE a = SelfTy -> <<"DynObject", "">>
       [] a[1] = "Self" /\ a[2] # "" -> o.types[a[2]]
       [] OTHER -> a : a \in {x \in ty : x[1] # "lt"}}

Accessors(recv) ==
    CASE recv.form = "ref" /\ ~recv.mut -> <<"as_ref", "storage">>
      [] recv.form = "ref" /\ recv.mut -> <<"as_mut", "storage_mut">>
      [] recv.form = "pin" /\ recv.mut -> <<"as_pinned_mut", "storage_pinned_mut">>
      [] OTHER -> <<>>

(* A vtable field is an erased function pointer: it is called with the type*)
(* that it was made from (the SAFETY comment of impl_method), and on both  *)
(* sides the storage is accessed the way the receiver says.                *)
VtableTyped ==
    \A o \in objects : \A tr \in Declared \cup {RemoteTrait} :
        tr.name = o.trait /\ (\A i \in tr.items : DynSafe(i)) =>
            \A m \in Fns(tr.items) : \E f \in o.vtable, g \in o.methods :
                /\ f.name = m.name /\ g.name = m.name
                /\ f.ptr.unsafety = g.ptr.unsafety /\ f.ptr.storage = g.ptr.storage
                /\ f.ptr.wrapper = g.ptr.wrapper
                /\ InVtable(o, f.ptr.output) = InImpl(o, g.ptr.output)
                /\ \A k \in DOMAIN m.args :
                      InVtable(o, f.ptr.params[k]) = InImpl(o, g.ptr.params[k])
                /\ <<f.self_as, g.self_as>> = Accessors(m.recv)
                /\ \A t \in DOMAIN o.dyn_trait : o.dyn_trait[t] \in o.generics

(* What that takes of the program: Pin<&mut Self> is the only pinned       *)
(* receiver; what `where Self: Sized` keeps out of the trait object does   *)
(* not mention Self; generated traits have names of their own and are given*)
(* to dyn_object only.                                                     *)
Erasable(p) ==
    /\ \A m \in Fns(p.decl.items) :
          (m.recv.form = "pin" => m.recv.mut) /\ (m.sized => SelfTy \notin Mentions(m))
    /\ LET made == {k \in DOMAIN p.decl.attrs : p.decl.attrs[k].macro = "dyn_trait"}
           name(k) == dyn_trait_name(p.decl, p.decl.attrs[k])
       IN  /\ \A k \in made : name(k) \notin {p.decl.name, Remote(p.decl.name)}
           /\ \A k, l \in made : name(k) = name(l) => k = l
    /\ \A k \in DOMAIN p.decl.helpers :
          p.decl.helpers[k].macro = "dyn_object" /\ ~p.decl.helpers[k].remote

(* Three macros on two sides have to agree on generated names: the method  *)
(* that the generated dispatch ends in is one that the client has written, *)
(* never the unimplemented!() default, and #[sync] adds to the client's    *)
(* impl only what the trait declares.                                      *)
RunsClientBody ==
    Expanded => \A c \in traits : c.name = source.decl.name /\ ~c.generated =>
        /\ \A i \in block : \E x \in c.items : x.kind = i.kind /\ x.name = i.name
        /\ \A m \in Fns(source.decl.items) : m.maybe_sync =>
              LET is_sync == \E i \in block : i.kind = "const" /\ i.name = is_sync_const(m)
              IN  \E i \in block : i.kind = "fn" /\ i.name = IF is_sync THEN sync_fn(m) ELSE m.name

(* What that takes of the program: the compiler asks the client for an impl*)
(* of each method, and for no other item; #[sync] is for methods that are  *)
(* declared maybe_sync, in a trait with the dyn_trait attribute.           *)
Implemented(p) ==
    /\ \A i \in p.block : \E x \in p.decl.items : x.kind = i.kind /\ x.name = i.name
    /\ \A i \in p.block : i.sync => \E m \in Fns(p.decl.items) : m.maybe_sync /\ m.name = i.name
    /\ \A m \in Fns(p.decl.items) : m.maybe_sync =>
          /\ is_dispatchable(m)
          /\ \E i \in p.block : i.kind = "fn" /\ i.name = m.name
          /\ \E k \in DOMAIN p.decl.attrs : p.decl.attrs[k].macro = "dyn_trait"

OfMacro(as, macro) == {as[i] : i \in {k \in DOMAIN as : as[k].macro = macro}}
Attrs(macro) == OfMacro(source.decl.attrs, macro)
Helpers(macro) == OfMacro(source.decl.helpers, macro)

(* What the documentation of the macros asks of the program. *)
Supported ==
    /\ \A m \in Fns(source.decl.items) :
          /\ m.attr => m.ret.form # "plain"
          /\ m.maybe_sync => m.ret.form = "async" \/ (m.ret.bound = "Future" /\ m.ret.output)
    /\ Helpers("dyn_object") # {} => source.decl.lts = {} /\ source.decl.tys = {}
    /\ Attrs("dyn_object") # {} => \A i \in source.decl.items : DynSafe(i)
    /\ \A m \in source.block : m.sync => m.asyncness

(* For each dyn_object attribute, whether on the declaration or passed on  *)
(* to a generated trait, there is one impl, of a trait that is declared    *)
(* once; a pasted remote declaration is not left over.                     *)
ObjectsMade ==
    /\ \A d \in Attrs("dyn_trait") : \A a \in Helpers("dyn_object") :
          LET name == dyn_trait_name(source.decl, d)
          IN  /\ Cardinality({o \in objects : o.trait = name /\ o.bounds = a.bounds}) = 1
              /\ Cardinality({t \in traits : t.name = name}) = 1
    /\ \A a \in Attrs("dyn_object") :
          Cardinality({o \in objects : o.trait = path(source.decl, a) /\ o.bounds = a.bounds}) = 1
    /\ LET local == \E i \in DOMAIN source.decl.attrs : ~source.decl.attrs[i].remote
       IN  Cardinality({t \in traits : t.name = source.decl.name}) = IF local THEN 1 ELSE 0

(* Expansion ends, after several attributes on one declaration too: a      *)
(* program that respects the documented limits has all its impls, one that *)
(* dyn_trait, dyn_object or sync refuses has an error.  (Not everything    *)
(* outside of the limits is refused by the macros; the rest is left to the *)
(* compiler, and is not among the programs of the runs.)                   *)
ExpansionEnds == <>[](pending = {} /\ IF Supported THEN err = {} /\ ObjectsMade ELSE err # {})
=============================================================================
