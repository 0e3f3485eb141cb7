------------------------ MODULE ExpansionImplProofs ------------------------
(* Proofs about what Expansion generates for DynObject, for __Dyn and in   *)
(* the client's impl block.                                                *)
EXTENDS ExpansionProofs, SequenceTheorems

-----------------------------------------------------------------------------
(* Erased function pointers.                                               *)

LEMMA Pairs ==
    /\ \A w, v : <<w, v>>[1] = w /\ <<w, v>>[2] = v
    /\ \A a \in Mention : a = <<a[1], a[2]>>
    /\ SelfTy = <<"Self", "">> /\ SelfTy[1] = "Self"
BY DEF Mention, SelfTy

(* A type that does not mention Self by itself means the same on both sides*)
(* of a vtable field: ReplaceSelfWithDyn leads to the same associated types.*)
LEMMA SameType ==
    ASSUME NEW o, o.dyn_trait = o.types, NEW ty \in SUBSET Mention, SelfTy \notin ty,
           \A a \in ty : a[1] # "__Dyn"
    PROVE  InVtable(o, ReplaceSelfWithDyn(ty)) = InImpl(o, ty)
<1> DEFINE rep(a) == IF a[1] = "Self" THEN <<"__Dyn", a[2]>> ELSE a
           V(b) == CASE b = <<"__Dyn", "">> -> <<"erased", "">>
                     [] b[1] = "__Dyn" /\ b[2] # "" -> o.dyn_trait[b[2]]
                     [] OTHER -> b
           I(a) == CASE a = SelfTy -> <<"DynObject", "">>
                     [] a[1] = "Self" /\ a[2] # "" -> o.types[a[2]]
                     [] OTHER -> a
           tys == {a \in ty : a[1] # "lt"}
<1>1. \A a \in Mention : a[1] = "Self" /\ a # SelfTy => a[2] # ""
    BY Pairs
<1>2. ASSUME NEW a \in ty
      PROVE  V(rep(a)) = I(a) /\ (rep(a)[1] = "lt" <=> a[1] = "lt")
    <2>1. CASE a[1] = "Self"
        <3>1. a[2] # "" /\ a # SelfTy
            BY <1>1, <2>1
        <3>2. rep(a) = <<"__Dyn", a[2]>> /\ rep(a)[1] = "__Dyn" /\ rep(a)[2] = a[2]
            BY <2>1
        <3>3. rep(a) # <<"__Dyn", "">>
            BY <3>1, <3>2
        <3> HIDE DEF rep
        <3>4. V(rep(a)) = o.dyn_trait[a[2]]
            BY <3>1, <3>2, <3>3
        <3>5. I(a) = o.types[a[2]]
            BY <2>1, <3>1
        <3> QED
            BY <2>1, <3>2, <3>4, <3>5
    <2>2. CASE a[1] # "Self"
        <3>1. rep(a) = a /\ a[1] # "__Dyn" /\ a # <<"__Dyn", "">> /\ a # SelfTy
            <4>1. a[1] # "__Dyn" /\ rep(a) = a
                BY <2>2
            <4>2. <<"__Dyn", "">>[1] = "__Dyn" /\ SelfTy[1] = "Self"
                BY DEF SelfTy
            <4>3. a # <<"__Dyn", "">> /\ a # SelfTy
                BY <2>2, <4>1, <4>2
            <4> QED
                BY <4>1, <4>3
        <3> HIDE DEF rep
        <3>2. V(a) = a
            BY <3>1
        <3>3. I(a) = a
            BY <2>2, <3>1
        <3> QED
            BY <3>1, <3>2, <3>3
    <2> QED
        BY <2>1, <2>2
<1>3. InVtable(o, ReplaceSelfWithDyn(ty)) = {V(b) : b \in {x \in {rep(a) : a \in ty} : x[1] # "lt"}}
    BY DEF InVtable, ReplaceSelfWithDyn
<1>4. InImpl(o, ty) = {I(a) : a \in tys}
    BY DEF InImpl
<1> HIDE DEF rep, V, I
<1>5. {x \in {rep(a) : a \in ty} : x[1] # "lt"} = {rep(a) : a \in tys}
    BY <1>2
<1>6. {V(b) : b \in {rep(a) : a \in tys}} = {I(a) : a \in tys}
    BY <1>2
<1> QED
    BY <1>3, <1>4, <1>5, <1>6

(* Taking attributes from a method does not change its vtable field. *)
LEMMA SameVtable ==
    ASSUME NEW m \in Method
    PROVE  vtable_method(unmarked(m)) = vtable_method(m) /\ object_method(unmarked(m)) = object_method(m)
<1> DEFINE u == unmarked(m)
<1>1. /\ u.name = m.name /\ u.unsafety = m.unsafety /\ u.recv = m.recv
      /\ u.args = m.args /\ u.ret = m.ret
    BY UnmarkedFacts
<1> HIDE DEF u
<1>2. VtableReceiver(u) = VtableReceiver(m)
    BY <1>1 DEF VtableReceiver
<1>3. self_as(u) = self_as(m)
    BY <1>2 DEF self_as
<1>4. \A b : vtable_fn_pointer(u, b) = vtable_fn_pointer(m, b)
    BY <1>1, <1>2 DEF vtable_fn_pointer
<1> QED
    BY <1>1, <1>3, <1>4 DEF vtable_method, object_method, u

(* The two sides of a vtable field agree. *)
Agree(o, m) ==
    LET f == vtable_method(m)
        g == object_method(m)
    IN  /\ f.name = m.name /\ g.name = m.name
        /\ f.ptr.unsafety = g.ptr.unsafety /\ f.ptr.storage = g.ptr.storage
        /\ f.ptr.wrapper = g.ptr.wrapper
        /\ InVtable(o, f.ptr.output) = InImpl(o, g.ptr.output)
        /\ \A k \in DOMAIN m.args : InVtable(o, f.ptr.params[k]) = InImpl(o, g.ptr.params[k])
        /\ <<f.self_as, g.self_as>> = Accessors(m.recv)

LEMMA FieldAgrees ==
    ASSUME NEW o, o.dyn_trait = o.types, NEW m \in Method, is_dispatchable(m),
           m.recv.form = "pin" => m.recv.mut, SelfTy \notin Mentions(m),
           \A a \in Mentions(m) : a[1] # "__Dyn"
    PROVE  Agree(o, m)
<1> DEFINE p == vtable_fn_pointer(m, TRUE)
           q == vtable_fn_pointer(m, FALSE)
<1>1. /\ p.unsafety = q.unsafety /\ p.storage = q.storage /\ p.wrapper = q.wrapper
      /\ p.output = ReplaceSelfWithDyn(m.ret.ty) /\ q.output = m.ret.ty
      /\ \A k \in DOMAIN m.args : p.params[k] = ReplaceSelfWithDyn(m.args[k]) /\ q.params[k] = m.args[k]
    BY DEF vtable_fn_pointer
<1>2. m.ret.ty \in SUBSET Mention /\ \A k \in DOMAIN m.args : m.args[k] \in SUBSET Mention
    BY DEF Method, Result
<1> HIDE DEF p, q
<1>3. m.ret.ty \subseteq Mentions(m) /\ \A k \in DOMAIN m.args : m.args[k] \subseteq Mentions(m)
    BY DEF Mentions
<1>4. ASSUME NEW ty \in SUBSET Mention, ty \subseteq Mentions(m)
      PROVE  InVtable(o, ReplaceSelfWithDyn(ty)) = InImpl(o, ty)
    BY <1>4, SameType
<1>5. InVtable(o, p.output) = InImpl(o, q.output)
    BY <1>1, <1>2, <1>3, <1>4
<1>6. \A k \in DOMAIN m.args : InVtable(o, p.params[k]) = InImpl(o, q.params[k])
    BY <1>1, <1>2, <1>3, <1>4
<1>7. self_as(m) = Accessors(m.recv) /\ self_as(m) = <<self_as(m)[1], self_as(m)[2]>>
    <2>1. m.recv \in Receiver /\ m.recv.form \in {"ref", "pin"}
        BY DEF Method, is_dispatchable
    <2>2. CASE m.recv.form = "ref" /\ ~m.recv.mut
        BY <2>2 DEF self_as, VtableReceiver, Accessors
    <2>3. CASE m.recv.form = "ref" /\ m.recv.mut
        BY <2>3 DEF self_as, VtableReceiver, Accessors
    <2>4. CASE m.recv.form = "pin" /\ m.recv.mut
        BY <2>4 DEF self_as, VtableReceiver, Accessors
    <2> QED
        BY <2>1, <2>2, <2>3, <2>4
<1>8. /\ vtable_method(m) = [name |-> m.name, ptr |-> p, self_as |-> self_as(m)[1]]
      /\ object_method(m) = [name |-> m.name, ptr |-> q, self_as |-> self_as(m)[2]]
    BY DEF vtable_method, object_method, p, q
<1> QED
    BY <1>1, <1>5, <1>6, <1>7, <1>8 DEF Agree

-----------------------------------------------------------------------------
(* Names.  An attribute names the trait it generates; at any time the      *)
(* declaration is there once, and the names of attributes that are still to*)
(* be expanded are not in use.                                             *)

OwnNames == {source.decl.name, Remote(source.decl.name)}
DynTraits(d) == {k \in DOMAIN d.attrs : d.attrs[k].macro = "dyn_trait"}
NameAt(d, k) == dyn_trait_name(d, d.attrs[k])

NamesAhead(d) ==
    /\ \A k, l \in DynTraits(d) : NameAt(d, k) = NameAt(d, l) => k = l
    /\ \A k \in DynTraits(d) :
          /\ NameAt(d, k) \notin OwnNames
          /\ \A t \in Generated : t.name # NameAt(d, k)
          /\ \A o \in objects : o.trait # NameAt(d, k)

(* An impl for DynObject is made from a set of items. *)
MadeFrom(o, items) ==
    /\ o.vtable = {vtable_method(m) : m \in Fns(items)}
    /\ o.methods = {object_method(m) : m \in Fns(items)}
    /\ o.dyn_trait = o.types /\ \A t \in DOMAIN o.dyn_trait : o.dyn_trait[t] \in o.generics
    /\ \A m \in Fns(items) : is_dispatchable(m)

DeclaredOK ==
    /\ \A d \in traits : d.attrs = <<>>
    /\ \A d, e \in Declared : ~d.generated /\ ~e.generated => d = e
    /\ \A d \in Declared : ~d.generated =>
          /\ d.name = source.decl.name /\ d.helpers \in {source.decl.helpers, <<>>}
          /\ NamesAhead(d)

GeneratedOK ==
    /\ \A t \in Generated :
          /\ t.name \notin OwnNames
          /\ \A k \in DOMAIN t.attrs : t.attrs[k].macro = "dyn_object" /\ ~t.attrs[k].remote
    /\ \A t, u \in Generated : t.name = u.name => t.items = u.items

ObjectsOK ==
    \A o \in objects :
        \/ /\ o.trait \in OwnNames
           /\ \E items \in {source.decl.items, trait_items(source.decl)} : MadeFrom(o, items)
        \/ /\ o.trait \notin OwnNames
           /\ \A t \in Generated : t.name = o.trait => MadeFrom(o, t.items)

NamesInv == ExpInv /\ DeclaredOK /\ GeneratedOK /\ ObjectsOK

LEMMA TailFacts ==
    ASSUME NEW q \in Seq(Attribute), q # <<>>
    PROVE  /\ 1 \in DOMAIN q /\ Head(q) = q[1]
           /\ \A k \in DOMAIN Tail(q) : k + 1 \in DOMAIN q /\ k + 1 # 1 /\ Tail(q)[k] = q[k + 1]
           /\ \A k, l \in DOMAIN Tail(q) : k + 1 = l + 1 => k = l
<1>1. Len(q) \in Nat \ {0} /\ DOMAIN q = 1..Len(q) /\ Head(q) = q[1]
    BY EmptySeq, LenProperties
<1>2. Tail(q) \in Seq(Attribute) /\ Len(Tail(q)) = Len(q) - 1
    BY HeadTailProperties
<1>3. DOMAIN Tail(q) = 1..Len(q) - 1
    BY <1>2, LenProperties
<1>4. \A k \in 1..Len(q) - 1 : Tail(q)[k] = q[k + 1]
    BY <1>2, HeadTailProperties
<1>5. \A n \in Nat \ {0} : /\ 1 \in 1..n
                           /\ \A k \in 1..n - 1 : k + 1 \in 1..n /\ k + 1 # 1
                           /\ \A k, l \in 1..n - 1 : k + 1 = l + 1 => k = l
    OBVIOUS
<1> QED
    BY <1>1, <1>3, <1>4, <1>5

LEMMA MadeFromSelf ==
    ASSUME NEW tr, dyn_object_errors(tr) = {}
    PROVE  /\ MadeFrom(object_impl(tr), tr.items)
           /\ object_impl(tr).trait = path(tr, Head(tr.attrs))
<1>1. \A m \in Fns(tr.items) : is_dispatchable(m)
    BY DEF dyn_object_errors
<1>2. /\ dyn_trait(tr) = impl_type(tr)
      /\ \A t \in DOMAIN dyn_trait(tr) : dyn_trait(tr)[t] \in generics(tr)
    BY DEF dyn_trait, impl_type, generics
<1> QED
    BY <1>1, <1>2 DEF MadeFrom, object_impl

LEMMA InitNamesInv ==
    ASSUME \A p \in Programs : Erasable(p)
    PROVE  Init => NamesInv
<1> SUFFICES ASSUME Init PROVE NamesInv
    OBVIOUS
<1>1. ExpInv /\ source \in Programs
    BY InitExpInv DEF Init
<1>2. ~source.decl.generated
    BY <1>1, SourceFacts
<1>3. Declared = {source.decl} /\ Generated = {} /\ objects = {} /\ traits = {}
    BY <1>2 DEF Init, Declared, Generated
<1>4. NamesAhead(source.decl)
    BY <1>1, <1>3 DEF Erasable, NamesAhead, DynTraits, NameAt, OwnNames
<1> QED
    BY <1>1, <1>3, <1>4 DEF NamesInv, DeclaredOK, GeneratedOK, ObjectsOK

(* Declarations may go away. *)
LEMMA FewerNames ==
    ASSUME NamesInv, ExpInv', source' = source, traits' = traits, objects' = objects,
           pending' \subseteq pending
    PROVE  NamesInv'
<1>1. Declared' \subseteq Declared /\ Generated' \subseteq Generated /\ OwnNames' = OwnNames
    BY DEF Declared, Generated, OwnNames
<1>2. \A d \in Declared : NamesAhead(d) => NamesAhead(d)'
    BY <1>1 DEF NamesAhead, DynTraits, NameAt
<1>3. DeclaredOK'
    BY <1>1, <1>2 DEF NamesInv, DeclaredOK
<1>4. GeneratedOK'
    BY <1>1 DEF NamesInv, GeneratedOK
<1>5. ObjectsOK'
    BY <1>1 DEF NamesInv, ObjectsOK, MadeFrom
<1> QED
    BY <1>3, <1>4, <1>5 DEF NamesInv

(* dyn_trait: the generated trait takes the name of the attribute. *)
LEMMA DynTraitNames ==
    ASSUME \A p \in Programs : Erasable(p),
           NamesInv, NEW tr \in pending, dyn_trait_impl(tr)
    PROVE  NamesInv'
<1> DEFINE opts == Head(tr.attrs)
           g == generated_trait(tr, opts)
           d == declared_trait(tr)
           src == source.decl
<1>1. ExpInv' /\ source' = source /\ source \in Programs
    BY NextExpInv DEF NamesInv, ExpInv, Next, dyn_trait_impl, Fail
<1>2. /\ tr \in Trait /\ tr.attrs # <<>> /\ tr.attrs \in Seq(Attribute) /\ tr \in Declared
      /\ opts.macro = "dyn_trait" /\ opts = tr.attrs[1] /\ 1 \in DOMAIN tr.attrs
    BY TailFacts DEF NamesInv, ExpInv, Declared, Derived, Trait, dyn_trait_impl
<1>3. ~tr.generated /\ tr.name = src.name /\ tr.helpers \in {src.helpers, <<>>} /\ NamesAhead(tr)
    BY <1>2 DEF NamesInv, GeneratedOK, DeclaredOK, Generated
<1>4. CASE dyn_trait_errors(tr) # {}
    <2>1. pending' \subseteq pending /\ traits' = traits /\ objects' = objects
        BY <1>4 DEF dyn_trait_impl, Fail
    <2> QED
        BY <1>1, <2>1, FewerNames
<1>5. CASE dyn_trait_errors(tr) = {}
    <2>1. /\ Emit(tr, {g} \cup IF opts.remote THEN {} ELSE {d})
          /\ objects' = objects
        BY <1>5 DEF dyn_trait_impl
    <2>2. /\ g.name = NameAt(tr, 1) /\ g.attrs = tr.helpers /\ g.generated
          /\ d.name = tr.name /\ d.attrs = Tail(tr.attrs) /\ d.helpers = <<>> /\ ~d.generated
        <3>1. LET e == dyn_trait_attrs(tr) IN e \in Trait /\ e.attrs = tr.helpers
            <4>1. <<>> \in Seq(Attribute)
                OBVIOUS
            <4> QED
                BY <1>2, <4>1 DEF dyn_trait_attrs, Trait
        <3>2. LET e == extract_dyn_trait_attrs(tr)
              IN  /\ e \in Trait /\ e.attrs = Tail(tr.attrs) /\ e.helpers = <<>>
                  /\ e.name = tr.name /\ ~e.generated
            <4>1. <<>> \in Seq(Attribute) /\ Tail(tr.attrs) \in Seq(Attribute)
                BY <1>2
            <4> QED
                BY <1>2, <1>3, <4>1 DEF extract_dyn_trait_attrs, Trait
        <3>3. g.name = NameAt(tr, 1) /\ g.attrs = tr.helpers /\ g.generated
            BY <1>2, <3>1 DEF generated_trait, NameAt, Trait
        <3>4. d.name = tr.name /\ d.attrs = Tail(tr.attrs) /\ d.helpers = <<>> /\ ~d.generated
            BY <3>2 DEF declared_trait, Trait
        <3> QED
            BY <3>3, <3>4
    <2> HIDE DEF g, d, opts
    <2>3. /\ traits' = traits \cup {x \in {g} \cup (IF opts.remote THEN {} ELSE {d}) : x.attrs = <<>>}
          /\ pending' \subseteq (pending \ {tr}) \cup {g, d}
        BY <2>1 DEF Emit
    <2>4. \A x \in traits' : x.attrs = <<>>
        BY <2>3 DEF NamesInv, DeclaredOK
    <2>5. \A x \in Declared' : (x \in Declared /\ x # tr) \/ x = g \/ x = d
        BY <1>2, <2>3 DEF NamesInv, DeclaredOK, Declared
    <2>6. \A x \in Declared' : ~x.generated => x = d
        BY <1>2, <1>3, <2>2, <2>5 DEF NamesInv, DeclaredOK
    <2>7. \A x \in Generated' : x \in Generated \/ x = g
        BY <2>2, <2>5 DEF Generated
    <2>8. 1 \in DynTraits(tr)
        BY <1>2 DEF DynTraits
    <2>9. OwnNames' = OwnNames
        BY <1>1 DEF OwnNames
    <2>10. NamesAhead(d)'
        <3>1. \A k \in DynTraits(d) : /\ k + 1 \in DynTraits(tr) /\ k + 1 # 1
                                      /\ NameAt(d, k) = NameAt(tr, k + 1)
            BY <1>2, <2>2, TailFacts DEF DynTraits, NameAt, dyn_trait_name
        <3>2. \A k, l \in DynTraits(d) : k + 1 = l + 1 => k = l
            BY <1>2, <2>2, TailFacts DEF DynTraits
        <3>3. \A k, l \in DynTraits(d) : NameAt(d, k) = NameAt(d, l) => k = l
            BY <1>3, <3>1, <3>2 DEF NamesAhead
        <3>4. \A k \in DynTraits(d) : NameAt(d, k) # g.name
            BY <1>3, <2>2, <2>8, <3>1 DEF NamesAhead
        <3>5. \A k \in DynTraits(d) : /\ NameAt(d, k) \notin OwnNames
                                      /\ \A t \in Generated : t.name # NameAt(d, k)
                                      /\ \A o \in objects : o.trait # NameAt(d, k)
            BY <1>3, <3>1 DEF NamesAhead
        <3> QED
            BY <2>1, <2>7, <2>9, <3>3, <3>4, <3>5 DEF NamesAhead, DynTraits, NameAt
    <2>11. DeclaredOK'
        BY <1>1, <1>3, <2>2, <2>4, <2>6, <2>10 DEF DeclaredOK
    <2>12. GeneratedOK'
        <3>1. \A k \in DOMAIN tr.helpers : tr.helpers[k].macro = "dyn_object" /\ ~tr.helpers[k].remote
            BY <1>1, <1>3 DEF Erasable
        <3>2. g.name \notin OwnNames /\ \A t \in Generated : t.name # g.name
            BY <1>3, <2>2, <2>8 DEF NamesAhead
        <3> QED
            BY <2>2, <2>7, <2>9, <3>1, <3>2 DEF NamesInv, GeneratedOK
    <2>13. ObjectsOK'
        <3>1. \A o \in objects : o.trait # g.name
            BY <1>3, <2>2, <2>8 DEF NamesAhead
        <3> QED
            BY <1>1, <2>1, <2>7, <2>9, <3>1 DEF NamesInv, ObjectsOK, MadeFrom
    <2> QED
        BY <1>1, <2>11, <2>12, <2>13 DEF NamesInv
<1> QED
    BY <1>4, <1>5

(* dyn_object: the declaration loses an attribute, or goes away. *)
LEMMA DynObjectNames ==
    ASSUME NamesInv, NEW tr \in pending, dyn_object_impl(tr)
    PROVE  NamesInv'
<1> DEFINE d == [tr EXCEPT !.attrs = Tail(@)]
           o == object_impl(tr)
           src == source.decl
<1>1. ExpInv' /\ source' = source /\ source \in Programs
    BY NextExpInv DEF NamesInv, ExpInv, Next, dyn_object_impl, Fail
<1>2. /\ tr \in Trait /\ tr.attrs # <<>> /\ tr.attrs \in Seq(Attribute) /\ tr \in Declared
      /\ Head(tr.attrs) = tr.attrs[1] /\ 1 \in DOMAIN tr.attrs /\ Derived(src, tr)
    BY TailFacts DEF NamesInv, ExpInv, Declared, Derived, Trait, dyn_object_impl
<1>3. /\ d.name = tr.name /\ d.attrs = Tail(tr.attrs) /\ d.helpers = tr.helpers
      /\ d.generated = tr.generated /\ d.items = tr.items
    BY <1>2 DEF Trait
<1>4. CASE dyn_object_errors(tr) # {}
    <2>1. pending' \subseteq pending /\ traits' = traits /\ objects' = objects
        BY <1>4 DEF dyn_object_impl, Fail
    <2> QED
        BY <1>1, <2>1, FewerNames
<1>5. CASE dyn_object_errors(tr) = {}
    <2>1. /\ Emit(tr, IF include_trait(tr) THEN {d} ELSE {})
          /\ objects' = objects \cup {o}
        BY <1>5 DEF dyn_object_impl
    <2>2. MadeFrom(o, tr.items) /\ o.trait = path(tr, Head(tr.attrs))
        BY <1>5, MadeFromSelf
    <2> HIDE DEF d, o
    <2>3. /\ traits' = traits \cup {x \in (IF include_trait(tr) THEN {d} ELSE {}) : x.attrs = <<>>}
          /\ pending' \subseteq (pending \ {tr}) \cup {d}
        BY <2>1 DEF Emit
    <2>4. \A x \in traits' : x.attrs = <<>>
        BY <2>3 DEF NamesInv, DeclaredOK
    <2>5. \A x \in Declared' : (x \in Declared /\ x # tr) \/ x = d
        BY <1>2, <2>3 DEF NamesInv, DeclaredOK, Declared
    <2>6. OwnNames' = OwnNames
        BY <1>1 DEF OwnNames
    <2>7. \A x \in Declared' : \E y \in Declared :
            /\ y.name = x.name /\ y.helpers = x.helpers /\ y.items = x.items
            /\ y.generated = x.generated
            /\ x = y \/ (y = tr /\ x = d)
        BY <1>2, <1>3, <2>5
    <2>8. \A k \in DOMAIN d.attrs : /\ k + 1 \in DOMAIN tr.attrs /\ d.attrs[k] = tr.attrs[k + 1]
                                    /\ \A l \in DOMAIN d.attrs : k + 1 = l + 1 => k = l
        BY <1>2, <1>3, TailFacts
    <2>9. NamesAhead(tr) => NamesAhead(d)
        <3>1. \A k \in DynTraits(d) : k + 1 \in DynTraits(tr) /\ NameAt(d, k) = NameAt(tr, k + 1)
            BY <1>3, <2>8 DEF DynTraits, NameAt, dyn_trait_name
        <3>2. \A k, l \in DynTraits(d) : k + 1 = l + 1 => k = l
            BY <2>8 DEF DynTraits
        <3> QED
            BY <3>1, <3>2 DEF NamesAhead
    <2>10. o.trait \in OwnNames \/ \E t \in Generated : t.name = o.trait
        BY <1>2, <2>2 DEF NamesInv, GeneratedOK, DeclaredOK, Generated, path, OwnNames
    <2>11. \A x \in Declared' : ~x.generated => NamesAhead(x)
        BY <1>3, <2>5, <2>9, <1>2 DEF NamesInv, DeclaredOK
    <2>12. \A t \in Generated' : \E u \in Generated :
            /\ u.name = t.name /\ u.items = t.items /\ (t = u \/ (u = tr /\ t = d))
        BY <2>7 DEF Generated
    <2>13. \A x : NamesAhead(x) => NamesAhead(x)'
        BY <2>1, <2>6, <2>10, <2>12 DEF NamesAhead, DynTraits, NameAt
    <2>14. DeclaredOK'
        <3>1. \A x, y \in Declared' : ~x.generated /\ ~y.generated => x = y
            BY <1>2, <1>3, <2>5 DEF NamesInv, DeclaredOK
        <3>2. \A x \in Declared' : ~x.generated =>
                x.name = src.name /\ x.helpers \in {src.helpers, <<>>}
            BY <2>7 DEF NamesInv, DeclaredOK
        <3>3. \A x \in Declared' : ~x.generated => NamesAhead(x)'
            BY <2>11, <2>13
        <3> QED
            BY <1>1, <2>4, <3>1, <3>2, <3>3 DEF DeclaredOK
    <2>15. GeneratedOK'
        <3>1. \A t \in Generated' : t.name \notin OwnNames
            BY <2>12 DEF NamesInv, GeneratedOK
        <3>2. \A t, u \in Generated' : t.name = u.name => t.items = u.items
            BY <2>12 DEF NamesInv, GeneratedOK
        <3>3. \A t \in Generated' : \A k \in DOMAIN t.attrs :
                t.attrs[k].macro = "dyn_object" /\ ~t.attrs[k].remote
            BY <2>8, <2>12 DEF NamesInv, GeneratedOK
        <3> QED
            BY <2>6, <3>1, <3>2, <3>3 DEF GeneratedOK
    <2>16. ObjectsOK'
        <3>1. ASSUME NEW x \in objects
              PROVE \/ /\ x.trait \in OwnNames
                       /\ \E items \in {src.items, trait_items(src)} : MadeFrom(x, items)
                    \/ /\ x.trait \notin OwnNames
                       /\ \A t \in Generated' : t.name = x.trait => MadeFrom(x, t.items)
            BY <2>12 DEF NamesInv, ObjectsOK
        <3>2. CASE ~tr.generated
            <4>1. o.trait \in OwnNames /\ tr.items \in {src.items, trait_items(src)}
                BY <1>2, <2>2, <3>2 DEF NamesInv, DeclaredOK, path, OwnNames, Derived
            <4> QED
                BY <1>1, <2>1, <2>2, <2>6, <3>1, <4>1 DEF ObjectsOK, MadeFrom
        <3>3. CASE tr.generated
            <4>1. o.trait = tr.name /\ o.trait \notin OwnNames /\ tr \in Generated
                BY <1>2, <2>2, <3>3 DEF NamesInv, GeneratedOK, path, Generated
            <4>2. \A t \in Generated' : t.name = o.trait => MadeFrom(o, t.items)
                BY <2>2, <2>12, <4>1 DEF NamesInv, GeneratedOK
            <4> QED
                BY <1>1, <2>1, <2>6, <3>1, <4>1, <4>2 DEF ObjectsOK, MadeFrom
        <3> QED
            BY <3>2, <3>3
    <2> QED
        BY <1>1, <2>14, <2>15, <2>16 DEF NamesInv
<1> QED
    BY <1>4, <1>5

LEMMA NextNamesInv ==
    ASSUME \A p \in Programs : Erasable(p)
    PROVE  NamesInv /\ [Next]_vars => NamesInv'
<1> SUFFICES ASSUME NamesInv, [Next]_vars PROVE NamesInv'
    OBVIOUS
<1>1. ExpInv'
    BY NextExpInv DEF NamesInv
<1>2. ASSUME NEW m \in block, sync_impl(m) PROVE NamesInv'
    BY <1>1, <1>2, FewerNames DEF sync_impl
<1>3. CASE UNCHANGED vars
    BY <1>1, <1>3, FewerNames DEF vars
<1> QED
    BY <1>2, <1>3, DynTraitNames, DynObjectNames DEF Next

(* What a method of any declaration mentions was in the source, in a method*)
(* with the same receiver that is kept out of the trait object alike.      *)
LEMMA DeclaredMentions ==
    ASSUME ExpInv, NEW tr \in Declared \cup {RemoteTrait}, NEW m \in Fns(tr.items)
    PROVE  /\ m \in Method
           /\ \E n \in Fns(source.decl.items) :
                 /\ n.recv.form = m.recv.form /\ n.recv.mut = m.recv.mut /\ n.sized = m.sized
                 /\ \A a \in Mentions(m) : a \in Mentions(n) \/ a[1] = "lt"
<1> DEFINE src == source.decl
           full == Full(src)
           From(x, n) == /\ n.recv.form = x.recv.form /\ n.recv.mut = x.recv.mut
                         /\ n.sized = x.sized
                         /\ \A a \in Mentions(x) : a \in Mentions(n) \/ a[1] = "lt"
<1>1. /\ src \in Trait /\ src.items \in SUBSET TraitItem /\ src.tys \in SUBSET STRING
      /\ Fns(src.items) = src.items \cap Method /\ ~src.generated
    BY SourceFacts, ItemKinds DEF ExpInv
<1>2. /\ full.items = trait_items(src) /\ full.tys \in SUBSET STRING
      /\ full.items \in SUBSET TraitItem /\ Fns(full.items) = full.items \cap Method
    BY <1>1, FullFacts, ItemKinds DEF Trait
<1> HIDE DEF full
<1>3. ASSUME NEW x \in Fns(full.items)
      PROVE  x \in Method /\ \E n \in Fns(src.items) : From(x, n)
    <2>1. CASE x \in src.items
        BY <1>1, <1>2, <2>1
    <2>2. CASE \E k \in dyn_trait_methods(src) : x = unmarked(k) \/ x = sync_method(k)
        <3>1. PICK k \in dyn_trait_methods(src) : x = unmarked(k) \/ x = sync_method(k)
            BY <2>2
        <3>2. k \in Fns(src.items) /\ k \in Method
            BY <1>1 DEF dyn_trait_methods
        <3>3. x.recv = k.recv /\ x.sized = k.sized /\ x.args = k.args /\ x.ret.ty = k.ret.ty
            BY <3>1, <3>2, UnmarkedFacts, SyncMethodFacts
        <3>4. From(x, k)
            BY <3>3 DEF Mentions
        <3> QED
            BY <1>2, <3>2, <3>4
    <2> QED
        <3>1. is_dispatchable(x) => x \in dyn_trait_methods(full)
            BY DEF dyn_trait_methods
        <3>2. dyn_trait_methods(full) = {unmarked(k) : k \in dyn_trait_methods(src)}
                  \cup {sync_method(k) : k \in {n \in dyn_trait_methods(src) : n.maybe_sync}}
            BY <1>1, <1>2, TraitItemsFacts
        <3>3. \A u \in UNION {additional_items(k) : k \in dyn_trait_methods(src)} :
                \/ \E k \in dyn_trait_methods(src) : u = sync_method(k)
                \/ u.kind = "const"
            BY DEF additional_items, const_item
        <3>4. x.kind = "fn"
            BY DEF Fns
        <3> QED
            BY <1>2, <2>1, <2>2, <3>3, <3>4 DEF trait_items
<1>4. ASSUME NEW t \in {src, full}, NEW x \in Fns(t.items) PROVE x \in Method /\ \E n \in Fns(src.items) : From(x, n)
    BY <1>1, <1>3, <1>4
<1>5. ASSUME NEW t \in {src, full}, tr.items = dyn_items(t), tr.tys \in SUBSET STRING
      PROVE  m \in Method /\ \E n \in Fns(src.items) : From(m, n)
    <2>1. PICK k \in dyn_trait_methods(t) : m = dyn_item(t, k)
        BY <1>1, <1>2, <1>5, DynItemsFacts
    <2>2. k \in Fns(t.items) /\ k \in Method
        BY <1>4 DEF dyn_trait_methods
    <2>3. PICK n \in Fns(src.items) : From(k, n)
        BY <1>4, <2>2
    <2>4. m \in Method /\ SameMethod(k, m) /\ \A a \in Mentions(m) : a \in Mentions(k) \/ a[1] = "lt"
        BY <1>1, <1>2, <2>1, <2>2, DynItemFacts, DynItemMentions
    <2> QED
        BY <2>3, <2>4 DEF SameMethod
<1>6. CASE tr = RemoteTrait
    <2>1. tr.items = src.items
        BY <1>1, <1>6 DEF RemoteTrait, Trait
    <2> QED
        BY <1>4, <2>1
<1>7. CASE tr \in Declared
    <2>1. Derived(src, tr) /\ tr.tys \in SUBSET STRING
        BY <1>1, <1>7 DEF ExpInv, Derived
    <2>2. \/ tr.items \in {src.items, full.items}
          \/ tr.items \in {dyn_items(src), dyn_items(full)}
        BY <1>2, <2>1 DEF Derived, full
    <2> QED
        BY <1>4, <1>5, <2>1, <2>2
<1> QED
    BY <1>6, <1>7

(* Items of a dyn-compatible declaration of the source's trait are made    *)
(* into the fields of an impl for it, whichever of its two forms the impl  *)
(* was made from.                                                          *)
LEMMA SameFields ==
    ASSUME source \in Programs,
           NEW from \in {source.decl.items, trait_items(source.decl)},
           NEW to \in {source.decl.items, trait_items(source.decl)},
           \A i \in to : DynSafe(i), NEW m \in Fns(to)
    PROVE  \E n \in Fns(from) : vtable_method(n) = vtable_method(m) /\ object_method(n) = object_method(m)
                                /\ is_dispatchable(n) = is_dispatchable(m)
<1> DEFINE src == source.decl
           ms == dyn_trait_methods(src)
<1>1. /\ src.items \in SUBSET TraitItem /\ Fns(src.items) = src.items \cap Method
      /\ ms \subseteq Fns(src.items)
    BY SourceFacts, ItemKinds DEF dyn_trait_methods
<1>2. trait_items(src) = (src.items \ ms) \cup {unmarked(k) : k \in ms} \cup UNION {additional_items(k) : k \in ms}
    BY DEF trait_items
<1>3. \A k \in ms : /\ unmarked(k) \in Fns(trait_items(src))
                    /\ vtable_method(unmarked(k)) = vtable_method(k)
                    /\ object_method(unmarked(k)) = object_method(k)
                    /\ is_dispatchable(unmarked(k)) = is_dispatchable(k)
    <2> SUFFICES ASSUME NEW k \in ms
                 PROVE  /\ unmarked(k) \in Fns(trait_items(src))
                        /\ vtable_method(unmarked(k)) = vtable_method(k)
                        /\ object_method(unmarked(k)) = object_method(k)
                        /\ is_dispatchable(unmarked(k)) = is_dispatchable(k)
        OBVIOUS
    <2>1. k \in Method /\ unmarked(k) \in Method
        BY <1>1, UnmarkedFacts
    <2>2. unmarked(k).kind = "fn" /\ unmarked(k) \in trait_items(src)
        BY <1>2, <2>1 DEF Method
    <2>3. is_dispatchable(unmarked(k)) = is_dispatchable(k)
        BY <2>1, UnmarkedFacts DEF is_dispatchable
    <2> QED
        BY <2>1, <2>2, <2>3, SameVtable DEF Fns
<1>4. CASE from = to
    BY <1>4
<1>5. CASE from = trait_items(src) /\ to = src.items
    <2>1. CASE m \in ms
        BY <1>3, <1>5, <2>1
    <2>2. CASE m \notin ms
        BY <1>2, <1>5, <2>2 DEF Fns
    <2> QED
        BY <2>1, <2>2
<1>6. CASE from = src.items /\ to = trait_items(src)
    <2>1. \A k \in ms : ~k.maybe_sync
        <3> SUFFICES ASSUME NEW k \in ms, k.maybe_sync PROVE FALSE
            BY <1>1 DEF Method
        <3>1. const_item(is_sync_const(k)) \in to
            BY <1>2, <1>6 DEF additional_items
        <3>2. ~DynSafe(const_item(is_sync_const(k)))
            BY DEF const_item, DynSafe
        <3> QED
            BY <3>1, <3>2
    <2>2. UNION {additional_items(k) : k \in ms} = {}
        BY <2>1 DEF additional_items
    <2>3. m \in src.items \/ \E k \in ms : m = unmarked(k)
        BY <1>2, <1>6, <2>2 DEF Fns
    <2>4. CASE m \in src.items
        BY <1>6, <2>4 DEF Fns
    <2>5. CASE \E k \in ms : m = unmarked(k)
        BY <1>1, <1>3, <1>6, <2>5
    <2> QED
        BY <2>3, <2>4, <2>5
<1> QED
    BY <1>4, <1>5, <1>6

(* A vtable field is called with the type that it was made from, and the   *)
(* storage is accessed the way the receiver says (vtable_fn_pointer,       *)
(* VtableReceiver), for every program that Erasable describes.             *)
THEOREM VtableTypedHolds ==
    ASSUME \A p \in Programs : Erasable(p)
    PROVE  Spec => []VtableTyped
<1>1. NamesInv => VtableTyped
    <2> SUFFICES ASSUME NamesInv, NEW o \in objects, NEW tr \in Declared \cup {RemoteTrait},
                        tr.name = o.trait, \A i \in tr.items : DynSafe(i), NEW m \in Fns(tr.items)
                 PROVE  /\ vtable_method(m) \in o.vtable /\ object_method(m) \in o.methods
                        /\ Agree(o, m)
                        /\ \A t \in DOMAIN o.dyn_trait : o.dyn_trait[t] \in o.generics
        BY DEF VtableTyped, Agree
    <2> DEFINE src == source.decl
    <2>1. source \in Programs /\ src \in Trait /\ ExpInv
        BY SourceFacts DEF NamesInv, ExpInv
    <2>2. RemoteTrait.name = Remote(src.name) /\ RemoteTrait.items = src.items
        BY <2>1 DEF RemoteTrait, Trait
    <2>3. \E items : /\ MadeFrom(o, items)
                     /\ vtable_method(m) \in {vtable_method(n) : n \in Fns(items)}
                     /\ object_method(m) \in {object_method(n) : n \in Fns(items)}
                     /\ is_dispatchable(m)
        <3>1. CASE o.trait \in OwnNames
            <4>1. tr.items \in {src.items, trait_items(src)}
                <5>1. CASE tr = RemoteTrait
                    BY <2>2, <5>1
                <5>2. CASE tr \in Declared
                    BY <3>1, <5>2 DEF NamesInv, GeneratedOK, Generated, ExpInv, Derived
                <5> QED
                    BY <5>1, <5>2
            <4>2. PICK items \in {src.items, trait_items(src)} : MadeFrom(o, items)
                BY <3>1 DEF NamesInv, ObjectsOK
            <4>3. PICK n \in Fns(items) : /\ vtable_method(n) = vtable_method(m)
                                          /\ object_method(n) = object_method(m)
                                          /\ is_dispatchable(n) = is_dispatchable(m)
                BY <2>1, <4>1, SameFields
            <4>4. is_dispatchable(m)
                BY <4>2, <4>3 DEF MadeFrom
            <4> QED
                BY <4>2, <4>3, <4>4
        <3>2. CASE o.trait \notin OwnNames
            <4>1. tr \in Generated
                BY <2>2, <3>2 DEF NamesInv, DeclaredOK, Generated, OwnNames
            <4>2. MadeFrom(o, tr.items)
                BY <3>2, <4>1 DEF NamesInv, ObjectsOK
            <4> QED
                BY <4>2 DEF MadeFrom
        <3> QED
            BY <3>1, <3>2
    <2>4. /\ vtable_method(m) \in o.vtable /\ object_method(m) \in o.methods
          /\ is_dispatchable(m) /\ o.dyn_trait = o.types
          /\ \A t \in DOMAIN o.dyn_trait : o.dyn_trait[t] \in o.generics
        BY <2>3 DEF MadeFrom
    <2>5. m \in Method
        BY <2>1, DeclaredMentions
    <2>6. PICK n \in Fns(src.items) :
            /\ n.recv.form = m.recv.form /\ n.recv.mut = m.recv.mut /\ n.sized = m.sized
            /\ \A a \in Mentions(m) : a \in Mentions(n) \/ a[1] = "lt"
        BY <2>1, DeclaredMentions
    <2>7. /\ n.recv.form = "pin" => n.recv.mut
          /\ n.sized => SelfTy \notin Mentions(n)
          /\ \A a \in Mentions(n) : a[1] # "__Dyn"
        BY <2>1, SourceFacts DEF Erasable
    <2>8. SelfTy \notin Mentions(m)
        <3>1. m.sized \/ Mentions(m) \cap SelfOrImpl = {}
            BY <2>5 DEF DynSafe, Method, Fns
        <3>2. SelfTy \in SelfOrImpl /\ SelfTy[1] # "lt"
            BY Pairs DEF SelfOrImpl
        <3> QED
            BY <2>6, <2>7, <3>1, <3>2
    <2>9. \A a \in Mentions(m) : a[1] # "__Dyn"
        BY <2>6, <2>7
    <2>10. Agree(o, m)
        BY <2>4, <2>5, <2>6, <2>7, <2>8, <2>9, FieldAgrees
    <2> QED
        BY <2>4, <2>10
<1> QED
    BY <1>1, InitNamesInv, NextNamesInv, PTL DEF Spec


-----------------------------------------------------------------------------
(* The client's impl block.                                                *)

MaybeSyncMethods == {m \in Fns(source.decl.items) : m.maybe_sync}
InBlock(kind, name) == \E i \in block : i.kind = kind /\ i.name = name

(* Every item of the block is one of the source's trait, or one that       *)
(* #[sync] added for a maybe_sync method.                                  *)
BlockOK ==
    \A i \in block :
        /\ i \in BlockItem
        /\ i.sync => \E m \in MaybeSyncMethods : m.name = i.name
        /\ \/ \E x \in source.decl.items : x.kind = i.kind /\ x.name = i.name
           \/ \E m \in MaybeSyncMethods :
                 \/ i.kind = "fn" /\ i.name = sync_fn(m)
                 \/ i.kind = "const" /\ i.name = is_sync_const(m)

(* The constant is there only with the synchronous method. *)
BodiesOK ==
    err = {} => \A m \in MaybeSyncMethods :
        /\ InBlock("fn", m.name)
        /\ InBlock("const", is_sync_const(m)) => InBlock("fn", sync_fn(m))

(* A trait with maybe_sync methods declares what they add, or has a        *)
(* dyn_trait attribute left that will add it.                              *)
AddedOK ==
    /\ \A d \in traits : d.attrs = <<>>
    /\ MaybeSyncMethods # {} => \A d \in Declared : ~d.generated =>
          d.items = trait_items(source.decl) \/ DynTraits(d) # {}

ClientInv == ExpInv /\ BlockOK /\ BodiesOK /\ AddedOK

LEMMA InitClientInv ==
    ASSUME \A p \in Programs : Implemented(p)
    PROVE  Init => ClientInv
<1> SUFFICES ASSUME Init PROVE ClientInv
    OBVIOUS
<1>1. ExpInv /\ source \in Programs /\ block = source.block /\ traits = {} /\ Declared = {source.decl}
    BY InitExpInv DEF Init, Declared
<1>2. Implemented(source) /\ source.block \subseteq BlockItem
    BY <1>1, SourceFacts
<1>3. \A m \in Fns(source.decl.items), i \in source.decl.items : i.name # is_sync_const(m)
    BY <1>1, SourceFacts
<1>4. BlockOK
    BY <1>1, <1>2 DEF BlockOK, Implemented, MaybeSyncMethods
<1>5. BodiesOK
    <2>1. \A m \in MaybeSyncMethods : ~InBlock("const", is_sync_const(m))
        BY <1>1, <1>2, <1>3 DEF Implemented, InBlock, MaybeSyncMethods
    <2> QED
        BY <1>1, <1>2, <2>1 DEF BodiesOK, Implemented, InBlock, MaybeSyncMethods
<1>6. AddedOK
    BY <1>1, <1>2 DEF AddedOK, Implemented, MaybeSyncMethods, DynTraits
<1> QED
    BY <1>1, <1>4, <1>5, <1>6 DEF ClientInv

(* #[sync]: the items are replaced together. *)
LEMMA SyncClient ==
    ASSUME ClientInv, NEW i \in block, sync_impl(i)
    PROVE  BlockOK' /\ BodiesOK'
<1>1. /\ i \in BlockItem /\ i.sync /\ i.name \in Seq(STRING) /\ source' = source
      /\ MaybeSyncMethods' = MaybeSyncMethods
    BY DEF sync_impl, ClientInv, BlockOK, BlockItem, MaybeSyncMethods
<1>2. PICK n \in MaybeSyncMethods : n.name = i.name
    BY <1>1 DEF ClientInv, BlockOK
<1>3. \A m \in MaybeSyncMethods : m.name \in Seq(STRING)
    BY SourceFacts DEF MaybeSyncMethods, ClientInv, ExpInv, Method
<1>4. CASE i.asyncness /\ block' = (block \ {i}) \cup sync_items(i) /\ err' = err
    <2> DEFINE a == [i EXCEPT !.sync = FALSE]
               f == [i EXCEPT !.name = sync_fn(i), !.asyncness = FALSE, !.sync = FALSE]
               c == [i EXCEPT !.kind = "const", !.name = is_sync_const(i), !.sync = FALSE]
    <2>1. block' = (block \ {i}) \cup {a, f, c}
        BY <1>4 DEF sync_items
    <2>2. /\ a \in BlockItem /\ a.kind = i.kind /\ a.name = i.name /\ ~a.sync
          /\ f \in BlockItem /\ f.kind = i.kind /\ f.name = sync_fn(i) /\ ~f.sync
          /\ c \in BlockItem /\ c.kind = "const" /\ c.name = is_sync_const(i) /\ ~c.sync
        <3>1. sync_fn(i) \in Seq(STRING) /\ is_sync_const(i) \in Seq(STRING)
            BY <1>1, NameFacts
        <3> QED
            BY <1>1, <3>1 DEF BlockItem
    <2> HIDE DEF a, f, c
    <2>3. sync_fn(i) = sync_fn(n) /\ is_sync_const(i) = is_sync_const(n)
        BY <1>2 DEF sync_fn, is_sync_const
    <2>4. i.kind = "fn"
        <3>1. /\ UniqueNames(source.decl) /\ n \in source.decl.items /\ n.kind = "fn"
              /\ \A k \in Fns(source.decl.items), x \in source.decl.items :
                    x.name \notin {sync_fn(k), is_sync_const(k)}
            BY SourceFacts DEF ClientInv, ExpInv, MaybeSyncMethods, Fns
        <3>2. \A m \in MaybeSyncMethods : i.name # sync_fn(m) /\ i.name # is_sync_const(m)
            BY <1>2, <3>1 DEF MaybeSyncMethods
        <3>3. PICK x \in source.decl.items : x.kind = i.kind /\ x.name = i.name
            BY <3>2 DEF ClientInv, BlockOK
        <3> QED
            BY <1>2, <3>1, <3>3 DEF UniqueNames
    <2>5. BlockOK'
        <3>1. ASSUME NEW x \in {a, f, c}
              PROVE  /\ x \in BlockItem /\ ~x.sync
                     /\ \/ \E y \in source.decl.items : y.kind = x.kind /\ y.name = x.name
                        \/ \E m \in MaybeSyncMethods :
                              \/ x.kind = "fn" /\ x.name = sync_fn(m)
                              \/ x.kind = "const" /\ x.name = is_sync_const(m)
            <4>1. CASE x = a
                BY <2>2, <4>1 DEF ClientInv, BlockOK
            <4>2. CASE x = f
                BY <1>2, <2>2, <2>3, <2>4, <4>2
            <4>3. CASE x = c
                BY <1>2, <2>2, <2>3, <4>3
            <4> QED
                BY <4>1, <4>2, <4>3
        <3> QED
            BY <1>1, <2>1, <3>1 DEF ClientInv, BlockOK
    <2>6. \A kind, name : InBlock(kind, name) => InBlock(kind, name)'
        BY <2>1, <2>2 DEF InBlock
    <2>7. \A name : InBlock("const", name)' => InBlock("const", name) \/ name = is_sync_const(n)
        BY <2>1, <2>2, <2>3, <2>4 DEF InBlock
    <2>8. InBlock("fn", sync_fn(n))'
        BY <2>1, <2>2, <2>3, <2>4 DEF InBlock
    <2>9. \A m \in MaybeSyncMethods : is_sync_const(m) = is_sync_const(n) => sync_fn(m) = sync_fn(n)
        <3>1. "IS_SYNC" \in STRING
            BY WordsAssumption
        <3>2. ASSUME NEW m \in MaybeSyncMethods, is_sync_const(m) = is_sync_const(n)
              PROVE  m.name = n.name
            BY <1>3, <3>1, <3>2, AppendInjective DEF is_sync_const
        <3> QED
            BY <3>2 DEF sync_fn
    <2>10. BodiesOK'
        BY <1>1, <1>4, <2>6, <2>7, <2>8, <2>9 DEF ClientInv, BodiesOK
    <2> QED
        BY <2>5, <2>10
<1>5. CASE ~i.asyncness /\ block' = block \ {i} /\ err' = err \cup {"sync without async"}
    BY <1>1, <1>5 DEF ClientInv, BlockOK, BodiesOK
<1> QED
    BY <1>4, <1>5 DEF sync_impl

LEMMA NextClientInv == ClientInv /\ [Next]_vars => ClientInv'
<1> SUFFICES ASSUME ClientInv, [Next]_vars PROVE ClientInv'
    OBVIOUS
<1>1. ExpInv'
    BY NextExpInv DEF ClientInv
<1>2. ASSUME source' = source, block' = block, err \subseteq err' PROVE BlockOK' /\ BodiesOK'
    <2>1. MaybeSyncMethods' = MaybeSyncMethods /\ \A k, n : InBlock(k, n)' = InBlock(k, n)
        BY <1>2 DEF MaybeSyncMethods, InBlock
    <2> QED
        BY <1>2, <2>1 DEF ClientInv, BlockOK, BodiesOK
<1>3. ASSUME NEW tr \in pending, dyn_trait_impl(tr) PROVE ClientInv'
    <2> DEFINE opts == Head(tr.attrs)
               g == generated_trait(tr, opts)
               d == declared_trait(tr)
    <2>1. source' = source /\ block' = block /\ err \subseteq err'
        BY <1>3 DEF dyn_trait_impl, Fail
    <2>2. /\ tr.attrs # <<>> /\ Derived(source.decl, tr) /\ source.decl \in Trait /\ tr \in Trait
          /\ tr.generated \in BOOLEAN
        BY SourceFacts DEF ClientInv, ExpInv, Declared, Derived, Trait
    <2>3. d.items = trait_items(tr) /\ d.generated = tr.generated /\ g.generated
        <3>1. LET e == dyn_trait_attrs(tr) IN DOMAIN e = DOMAIN tr
            BY DEF dyn_trait_attrs
        <3>2. LET e == extract_dyn_trait_attrs(tr) IN DOMAIN e = DOMAIN tr /\ e.generated = tr.generated
            BY DEF extract_dyn_trait_attrs
        <3>3. "generated" \in DOMAIN tr /\ "items" \in DOMAIN tr
            BY <2>2 DEF Trait
        <3> QED
            BY <3>1, <3>2, <3>3 DEF generated_trait, declared_trait
    <2>4. ~tr.generated => d.items = trait_items(source.decl)
        BY <2>2, <2>3, DerivedStep
    <2> HIDE DEF g, d, opts
    <2>5. \A x \in Declared' : x \in Declared \/ x = g \/ x = d
        BY <1>3 DEF dyn_trait_impl, Fail, Emit, Declared, g, d, opts
    <2>6. \A x \in traits' : x.attrs = <<>>
        BY <1>3 DEF dyn_trait_impl, Fail, Emit, ClientInv, AddedOK
    <2>7. AddedOK'
        BY <2>1, <2>3, <2>4, <2>5, <2>6 DEF ClientInv, AddedOK, MaybeSyncMethods, DynTraits
    <2> QED
        BY <1>1, <1>2, <2>1, <2>7 DEF ClientInv
<1>4. ASSUME NEW tr \in pending, dyn_object_impl(tr) PROVE ClientInv'
    <2> DEFINE d == [tr EXCEPT !.attrs = Tail(@)]
    <2>1. source' = source /\ block' = block /\ err \subseteq err'
        BY <1>4 DEF dyn_object_impl, Fail
    <2>2. tr.attrs # <<>> /\ tr \in Trait /\ tr.attrs \in Seq(Attribute) /\ tr \in Declared
        BY DEF ClientInv, ExpInv, Declared, Derived, Trait
    <2>3. d.items = tr.items /\ d.generated = tr.generated /\ d.attrs = Tail(tr.attrs)
        BY <2>2 DEF Trait
    <2> HIDE DEF d
    <2>4. DynTraits(tr) # {} => DynTraits(d) # {}
        <3>1. tr.attrs[1].macro = "dyn_object"
            BY <1>4, <2>2, TailFacts DEF dyn_object_impl
        <3>2. \A k \in DOMAIN tr.attrs : k # 1 => k - 1 \in DOMAIN d.attrs /\ d.attrs[k - 1] = tr.attrs[k]
            BY <2>2, <2>3, LenProperties, HeadTailProperties
        <3> QED
            BY <3>1, <3>2 DEF DynTraits
    <2>5. \A x \in Declared' : x \in Declared \/ x = d
        BY <1>4 DEF dyn_object_impl, Fail, Emit, Declared, d
    <2>6. \A x \in traits' : x.attrs = <<>>
        BY <1>4 DEF dyn_object_impl, Fail, Emit, ClientInv, AddedOK
    <2>7. AddedOK'
        BY <2>1, <2>2, <2>3, <2>4, <2>5, <2>6 DEF ClientInv, AddedOK, MaybeSyncMethods, DynTraits
    <2> QED
        BY <1>1, <1>2, <2>1, <2>7 DEF ClientInv
<1>5. ASSUME UNCHANGED <<source, pending, traits>> PROVE AddedOK'
    BY <1>5 DEF ClientInv, AddedOK, MaybeSyncMethods, Declared
<1>6. ASSUME NEW i \in block, sync_impl(i) PROVE ClientInv'
    BY <1>1, <1>5, <1>6, SyncClient DEF ClientInv, sync_impl
<1>7. CASE UNCHANGED vars
    BY <1>1, <1>2, <1>5, <1>7 DEF vars, ClientInv
<1> QED
    BY <1>3, <1>4, <1>6, <1>7 DEF Next

(* dyn_trait keeps every item of the declaration, under its kind and name, *)
(* and adds the two items of a maybe_sync method.                          *)
LEMMA ItemsKept ==
    ASSUME NEW tr, tr.items \in SUBSET TraitItem
    PROVE  /\ \A x \in tr.items : \E y \in trait_items(tr) : y.kind = x.kind /\ y.name = x.name
           /\ \A m \in dyn_trait_methods(tr) : m.maybe_sync =>
                 /\ \E y \in trait_items(tr) : y.kind = "fn" /\ y.name = sync_fn(m)
                 /\ \E y \in trait_items(tr) : y.kind = "const" /\ y.name = is_sync_const(m)
<1>1. \A m \in dyn_trait_methods(tr) : m \in Method
    BY ItemKinds DEF dyn_trait_methods
<1>2. ASSUME NEW x \in tr.items
      PROVE  \E y \in trait_items(tr) : y.kind = x.kind /\ y.name = x.name
    <2>1. CASE x \in dyn_trait_methods(tr)
        <3>1. unmarked(x) \in trait_items(tr)
            BY <2>1 DEF trait_items
        <3>2. unmarked(x).kind = x.kind /\ unmarked(x).name = x.name
            BY <1>1, <2>1, UnmarkedFacts DEF Method
        <3> QED
            BY <3>1, <3>2
    <2>2. CASE x \notin dyn_trait_methods(tr)
        BY <2>2 DEF trait_items
    <2> QED
        BY <2>1, <2>2
<1>3. ASSUME NEW m \in dyn_trait_methods(tr), m.maybe_sync
      PROVE  /\ \E y \in trait_items(tr) : y.kind = "fn" /\ y.name = sync_fn(m)
             /\ \E y \in trait_items(tr) : y.kind = "const" /\ y.name = is_sync_const(m)
    <2>1. sync_method(m) \in trait_items(tr) /\ const_item(is_sync_const(m)) \in trait_items(tr)
        BY <1>3 DEF trait_items, additional_items
    <2>2. sync_method(m).kind = "fn" /\ sync_method(m).name = sync_fn(m)
        BY <1>1, SyncMethodFacts DEF Method
    <2>3. \A n : const_item(n).kind = "const" /\ const_item(n).name = n
        BY DEF const_item
    <2> QED
        BY <2>1, <2>2, <2>3
<1> QED
    BY <1>2, <1>3

(* The three macros agree on the generated names: #[sync] adds to the impl *)
(* what dyn_trait has added to the trait, so the block has only items of   *)
(* the trait, and where it has the constant that dispatch looks at it also *)
(* has the synchronous method: a call ends in a body that the client wrote.*)
THEOREM ClientBodyRuns ==
    ASSUME \A p \in Programs : Implemented(p)
    PROVE  Spec => []RunsClientBody
<1>1. ClientInv => RunsClientBody
    <2> SUFFICES ASSUME ClientInv, Expanded, NEW c \in traits, ~c.generated
                 PROVE  /\ \A i \in block : \E x \in c.items : x.kind = i.kind /\ x.name = i.name
                        /\ \A m \in MaybeSyncMethods :
                              LET is_sync == InBlock("const", is_sync_const(m))
                              IN  InBlock("fn", IF is_sync THEN sync_fn(m) ELSE m.name)
        BY DEF RunsClientBody, MaybeSyncMethods, InBlock
    <2> DEFINE src == source.decl
    <2>1. source \in Programs /\ src.items \in SUBSET TraitItem /\ Derived(src, c) /\ c \in Declared
        BY SourceFacts DEF ClientInv, ExpInv, Declared
    <2>2. DynTraits(c) = {}
        <3>1. c.attrs = <<>> /\ DOMAIN <<>> = {}
            BY DEF ClientInv, AddedOK
        <3> QED
            BY <3>1 DEF DynTraits
    <2>3. c.items \in {src.items, trait_items(src)} /\ (MaybeSyncMethods # {} => c.items = trait_items(src))
        BY <2>1, <2>2 DEF Derived, ClientInv, AddedOK
    <2>4. \A m \in MaybeSyncMethods : m \in dyn_trait_methods(src) /\ m.maybe_sync
        BY <2>1 DEF Implemented, MaybeSyncMethods, dyn_trait_methods
    <2>5. \A x \in src.items : \E y \in c.items : y.kind = x.kind /\ y.name = x.name
        BY <2>1, <2>3, ItemsKept
    <2>6. \A m \in MaybeSyncMethods :
              /\ \E y \in c.items : y.kind = "fn" /\ y.name = sync_fn(m)
              /\ \E y \in c.items : y.kind = "const" /\ y.name = is_sync_const(m)
        BY <2>1, <2>3, <2>4, ItemsKept
    <2>7. \A i \in block : \E x \in c.items : x.kind = i.kind /\ x.name = i.name
        BY <2>5, <2>6 DEF ClientInv, BlockOK
    <2>8. ASSUME NEW m \in MaybeSyncMethods
          PROVE  LET is_sync == InBlock("const", is_sync_const(m))
                 IN  InBlock("fn", IF is_sync THEN sync_fn(m) ELSE m.name)
        BY DEF ClientInv, BodiesOK, Expanded
    <2> QED
        BY <2>7, <2>8
<1> QED
    BY <1>1, InitClientInv, NextClientInv, PTL DEF Spec

-----------------------------------------------------------------------------
(* The impl of the generated trait for every __Dyn.                        *)

(* The names that maybe_sync adds are new. *)
FreshNames(tr) ==
    \A m \in dyn_trait_methods(tr) : m.maybe_sync =>
        \A i \in tr.items : i.name \notin {sync_fn(m), is_sync_const(m)}

(* They stay apart from each other and from the names that are kept. *)
LEMMA UniqueItems ==
    ASSUME NEW tr, tr.items \in SUBSET TraitItem, UniqueNames(tr), FreshNames(tr),
           NEW t, t.items = trait_items(tr)
    PROVE  UniqueNames(t)
<1> DEFINE ms == dyn_trait_methods(tr)
           marked == {m \in ms : m.maybe_sync}
           kept(x) == IF x \in ms THEN unmarked(x) ELSE x
           Kept(y) == \E x \in tr.items : y = kept(x)
           Sync(y) == \E m \in marked : y = sync_method(m)
           Flag(y) == \E m \in marked : y = const_item(is_sync_const(m))
<1>1. \A m \in ms : m \in Method /\ m \in tr.items /\ m.name \in Seq(STRING)
    BY ItemKinds DEF dyn_trait_methods
<1>2. \A x \in tr.items : kept(x).name = x.name
    BY <1>1, UnmarkedFacts
<1>3. \A m \in marked : sync_method(m).name = sync_fn(m)
    BY <1>1, SyncMethodFacts
<1>4. \A n : const_item(n).name = n
    BY DEF const_item
<1>5. "sync" \in STRING /\ "IS_SYNC" \in STRING
    BY WordsAssumption
<1>6. \A m, n \in ms : sync_fn(m) # is_sync_const(n)
    BY <1>1, <1>5, AppendInjective DEF sync_fn, is_sync_const
<1>7. \A m, n \in ms : sync_fn(m) = sync_fn(n) => m = n
    <2>1. \A a, b \in Seq(STRING) : Append(a, "sync") = Append(b, "sync") => a = b
        BY <1>5, AppendInjective
    <2>2. \A m, n \in ms : sync_fn(m) = sync_fn(n) => m.name = n.name
        BY <1>1, <2>1 DEF sync_fn
    <2> QED
        BY <1>1, <2>2 DEF UniqueNames
<1>8. \A x \in tr.items, m \in marked : x.name # sync_fn(m) /\ x.name # is_sync_const(m)
    BY DEF FreshNames
<1>9. ASSUME NEW y \in t.items PROVE Kept(y) \/ Sync(y) \/ Flag(y)
    <2>1. \/ y \in tr.items \ ms \/ (\E m \in ms : y = unmarked(m))
          \/ (\E m \in ms : y \in additional_items(m))
        BY DEF trait_items
    <2>2. \A m \in ms : y \in additional_items(m) =>
              m \in marked /\ y \in {sync_method(m), const_item(is_sync_const(m))}
        BY DEF additional_items
    <2> QED
        BY <1>1, <2>1, <2>2
<1> HIDE DEF kept, marked, ms
<1>10. ASSUME NEW y, NEW z, y.name = z.name, Kept(y), Kept(z) PROVE y = z
    BY <1>2, <1>10 DEF UniqueNames
<1>11. ASSUME NEW y, NEW z, y.name = z.name, Sync(y) PROVE ~Kept(z) /\ ~Flag(z) /\ (Sync(z) => y = z)
    BY <1>2, <1>3, <1>4, <1>6, <1>7, <1>8, <1>11 DEF marked
<1>12. ASSUME NEW y, NEW z, y.name = z.name, Flag(y) PROVE ~Kept(z) /\ (Flag(z) => y = z)
    BY <1>2, <1>4, <1>8, <1>12
<1> QED
    BY <1>9, <1>10, <1>11, <1>12 DEF UniqueNames

(* The items of the generated trait keep the names. *)
LEMMA UniqueDynItems ==
    ASSUME NEW tr, tr.items \in SUBSET TraitItem, tr.tys \in SUBSET STRING, UniqueNames(tr),
           NEW t, t.items = dyn_items(tr)
    PROVE  UniqueNames(t)
<1>1. \A m \in dyn_trait_methods(tr) : m \in tr.items /\ m \in Method /\ dyn_item(tr, m).name = m.name
    BY ItemKinds, DynItemFacts DEF dyn_trait_methods, SameMethod
<1>2. \A y \in dyn_trait_types(tr) : y \in tr.items /\ y.kind = "type"
    BY DEF dyn_trait_types, AssocTypes
<1>3. \A m \in Method : m.kind # "type"
    BY DEF Method
<1>4. \A y \in t.items : y \in dyn_trait_types(tr) \/ \E m \in dyn_trait_methods(tr) : y = dyn_item(tr, m)
    BY DEF dyn_items
<1> QED
    BY <1>1, <1>2, <1>3, <1>4 DEF UniqueNames

(* im is an impl of t for every __Dyn that implements c: the body of       *)
(* ImplComplete.                                                           *)
Complete(im, t, c) ==
    /\ t.name = im.trait /\ c.name = im.of
    /\ UniqueNames(t) /\ UniqueNames(c)
    /\ {<<i.kind, i.name>> : i \in im.items} = {<<i.kind, i.name>> : i \in t.items}
    /\ \A i \in im.items :
          /\ i.uses \subseteq {x.name : x \in c.items}
          /\ i.kind = "fn" => i.sig \in t.items
          /\ i.kind = "type" => i.args \/ GenericParams(c) = {}
    /\ \A m \in Fns(t.items) : m.ret.form \in {"DynObject", "MaybeSync"} => m.name \in t.storages

(* It does not depend on attributes. *)
Alike(d, e) ==
    /\ d.name = e.name /\ d.items = e.items /\ d.lts = e.lts /\ d.tys = e.tys
    /\ d.storages = e.storages /\ d.generated = e.generated

LEMMA CompleteAlike ==
    ASSUME NEW im, NEW t, NEW u, NEW c, NEW d, Complete(im, t, c), Alike(t, u), Alike(c, d)
    PROVE  Complete(im, u, d)
BY DEF Complete, Alike, UniqueNames, GenericParams

(* What dyn_trait generates together is complete, given that the concrete  *)
(* trait has the items that the bodies use.                                *)
LEMMA MadeComplete ==
    ASSUME NEW tr \in Trait, NEW opts, dyn_trait_errors(tr) = {}, UniqueNames(tr),
           \A m \in dyn_trait_methods(tr) : m.ret.form \in {"plain", "async", "impl"},
           NEW c, c.name = path(tr, opts), UniqueNames(c),
           GenericParams(c) # {} => dyn_trait_types(tr) = {},
           \A x \in tr.items : \E y \in c.items : y.name = x.name,
           \A m \in dyn_trait_methods(tr) : m.maybe_sync =>
               {sync_fn(m), is_sync_const(m)} \subseteq {y.name : y \in c.items}
    PROVE  Complete(generated_impl(tr, opts), generated_trait(tr, opts), c)
<1> DEFINE im == generated_impl(tr, opts)
           t == generated_trait(tr, opts)
           ms == dyn_trait_methods(tr)
           ts == dyn_trait_types(tr)
<1>1. tr.items \in SUBSET TraitItem /\ tr.tys \in SUBSET STRING
    BY DEF Trait
<1>2. /\ t.name = dyn_trait_name(tr, opts) /\ t.items = dyn_items(tr)
      /\ t.storages = UNION {generic_storage(m) : m \in ms}
    <2>1. LET e == dyn_trait_attrs(tr) IN DOMAIN e = DOMAIN tr
        BY DEF dyn_trait_attrs
    <2>2. {"name", "items", "storages", "generated"} \subseteq DOMAIN tr
        BY DEF Trait
    <2> QED
        BY <2>1, <2>2 DEF generated_trait
<1>3. /\ im.trait = dyn_trait_name(tr, opts) /\ im.of = path(tr, opts)
      /\ im.items = {parse_type(y) : y \in ts} \cup {impl_method(tr, m) : m \in ms}
    BY DEF generated_impl
<1>4. \A m \in ms : /\ m \in tr.items /\ m \in Method
                    /\ dyn_item(tr, m).kind = "fn" /\ dyn_item(tr, m).name = m.name
                    /\ dyn_item(tr, m) \in t.items
    <2>1. \A m \in ms : m \in tr.items /\ m \in Method
        BY <1>1, ItemKinds DEF dyn_trait_methods
    <2>2. \A m \in ms : dyn_item(tr, m) \in Method /\ dyn_item(tr, m).name = m.name
        BY <1>1, <2>1, DynItemFacts DEF SameMethod
    <2> QED
        BY <1>2, <2>1, <2>2 DEF Method, dyn_items
<1>5. \A y \in ts : y \in tr.items /\ y \in t.items /\ y.kind = "type"
    BY <1>2 DEF dyn_trait_types, AssocTypes, dyn_items
<1>6. /\ \A y : /\ parse_type(y).kind = "type" /\ parse_type(y).name = y.name
                /\ parse_type(y).uses = {y.name}
      /\ \A m : /\ impl_method(tr, m).kind = "fn" /\ impl_method(tr, m).name = m.name
                /\ impl_method(tr, m).sig = dyn_item(tr, m)
                /\ impl_method(tr, m).uses =
                       {m.name} \cup IF m.maybe_sync THEN {sync_fn(m), is_sync_const(m)} ELSE {}
    BY DEF parse_type, impl_method
<1>7. UniqueNames(t)
    BY <1>1, <1>2, UniqueDynItems
<1>8. \A y \in t.items : y \in ts \/ \E m \in ms : y = dyn_item(tr, m)
    BY <1>2 DEF dyn_items
<1>9. \A i \in im.items : (\E y \in ts : i = parse_type(y)) \/ (\E m \in ms : i = impl_method(tr, m))
    BY <1>3
<1>10. \A m \in Fns(t.items) : m.ret.form \in {"DynObject", "MaybeSync"} => m.name \in t.storages
    <2> SUFFICES ASSUME NEW g \in Fns(t.items), g.ret.form \in {"DynObject", "MaybeSync"}
                 PROVE  g.name \in t.storages
        OBVIOUS
    <2>1. PICK m \in ms : g = dyn_item(tr, m)
        BY <1>5, <1>8 DEF Fns
    <2>2. m.maybe_sync => has_rpit(m)
        <3>1. method_errors(m) = {}
            BY DEF dyn_trait_errors
        <3>2. m.maybe_sync => future_output(desugared(m).ret)
            BY <3>1 DEF method_errors
        <3> QED
            BY <3>2 DEF future_output, desugared, has_rpit
    <2>3. has_rpit(m)
        BY <1>1, <1>4, <2>1, <2>2, DynItemFacts
    <2> QED
        BY <1>2, <1>4, <2>1, <2>3 DEF generic_storage
<1> HIDE DEF im, t, ms, ts
<1>11. {<<i.kind, i.name>> : i \in im.items} = {<<i.kind, i.name>> : i \in t.items}
    <2>1. ASSUME NEW i \in im.items PROVE \E y \in t.items : <<y.kind, y.name>> = <<i.kind, i.name>>
        BY <1>4, <1>5, <1>6, <1>9
    <2>2. ASSUME NEW y \in t.items PROVE \E i \in im.items : <<i.kind, i.name>> = <<y.kind, y.name>>
        BY <1>3, <1>4, <1>5, <1>6, <1>8
    <2> QED
        BY <2>1, <2>2
<1>12. ASSUME NEW i \in im.items
       PROVE  /\ i.uses \subseteq {x.name : x \in c.items}
              /\ i.kind = "fn" => i.sig \in t.items
              /\ i.kind = "type" => i.args \/ GenericParams(c) = {}
    <2>1. CASE \E y \in ts : i = parse_type(y)
        BY <1>5, <1>6, <2>1 DEF ts
    <2>2. CASE \E m \in ms : i = impl_method(tr, m)
        BY <1>4, <1>6, <2>2 DEF ms
    <2> QED
        BY <1>9, <2>1, <2>2
<1> QED
    BY <1>2, <1>3, <1>7, <1>10, <1>11, <1>12 DEF Complete, im, t

(* Attributes that may stand after a dyn_trait that kept the declaration. *)
Late(a) ==
    /\ ~a.remote
    /\ a.macro = "dyn_object" => dyn_object_errors(declared_trait(source.decl)) = {}

LocalObject(a) == a.macro = "dyn_object" /\ ~a.remote

(* What lies ahead of a declaration with dyn_trait attributes. *)
Ahead(d) ==
    /\ \A k \in DOMAIN d.helpers : LocalObject(d.helpers[k])
    /\ \A k \in DynTraits(d) :
          /\ GenericParams(source.decl) # {} => dyn_trait_types(source.decl) = {}
          /\ d.attrs[k].remote => /\ d.items = source.decl.items
                                  /\ \A m \in dyn_trait_methods(source.decl) : ~m.maybe_sync
          /\ ~d.attrs[k].remote => \A l \in DOMAIN d.attrs : l > k => Late(d.attrs[l])

(* A declaration as dyn_trait emitted it: no macro removes it any more. *)
Emitted(c) ==
    /\ ~c.generated /\ c.helpers = <<>> /\ c.items = trait_items(source.decl)
    /\ \A k \in DOMAIN c.attrs : Late(c.attrs[k])

AheadOK ==
    /\ \A d \in Declared : ~d.generated => d.name = source.decl.name /\ Ahead(d)
    /\ \A t \in Generated : \A k \in DOMAIN t.attrs : LocalObject(t.attrs[k])

Concrete == {c \in Declared : Emitted(c)} \cup {RemoteTrait}

ImplsOK == \A im \in impls : \E t \in Generated, c \in Concrete : Complete(im, t, c)

CompleteInv == ExpInv /\ AheadOK /\ ImplsOK

LEMMA InitCompleteInv ==
    ASSUME \A p \in Programs : Completable(p)
    PROVE  Init => CompleteInv
<1> SUFFICES ASSUME Init PROVE CompleteInv
    OBVIOUS
<1>1. ExpInv /\ source \in Programs /\ Declared = {source.decl} /\ impls = {}
    BY InitExpInv DEF Init, Declared
<1>2. ~source.decl.generated /\ Completable(source)
    BY <1>1, SourceFacts
<1>3. Ahead(source.decl)
    BY <1>2 DEF Completable, Ahead, DynTraits, LocalObject, Late
<1> QED
    BY <1>1, <1>2, <1>3 DEF CompleteInv, AheadOK, ImplsOK, Generated

(* The concrete trait before and after dyn_trait. *)
LEMMA SourceItems ==
    ASSUME source \in Programs, NEW tr, Derived(source.decl, tr), ~tr.generated
    PROVE  /\ UniqueNames(tr) /\ FreshNames(tr)
           /\ dyn_trait_types(tr) = dyn_trait_types(source.decl)
           /\ \A m \in dyn_trait_methods(tr) : m.ret.form \in {"plain", "async", "impl"}
<1> DEFINE src == source.decl
<1>1. src \in Trait /\ UniqueNames(src) /\ src.items \in SUBSET TraitItem /\ FreshNames(src)
    BY SourceFacts DEF FreshNames, dyn_trait_methods
<1>2. \A m \in dyn_trait_methods(src) : m \in Method /\ m.ret.form \in {"plain", "async", "impl"}
    BY SourceFacts DEF dyn_trait_methods
<1>3. CASE tr.items = src.items
    BY <1>1, <1>2, <1>3 DEF UniqueNames, FreshNames, dyn_trait_types, dyn_trait_methods
<1>4. CASE tr.items = trait_items(src)
    <2>1. /\ Settled(tr) /\ AssocTypes(tr.items) = AssocTypes(src.items)
          /\ dyn_trait_methods(tr) = {unmarked(m) : m \in dyn_trait_methods(src)}
                \cup {sync_method(m) : m \in {n \in dyn_trait_methods(src) : n.maybe_sync}}
        BY <1>1, <1>4, TraitItemsFacts
    <2>2. \A m \in dyn_trait_methods(src) :
              unmarked(m).ret = m.ret /\ sync_method(m).ret.form = "plain"
        BY <1>2, UnmarkedFacts, SyncMethodFacts
    <2>3. UniqueNames(tr)
        BY <1>1, <1>4, UniqueItems
    <2>4. \A m \in dyn_trait_methods(tr) : m.ret.form \in {"plain", "async", "impl"}
        BY <1>2, <2>1, <2>2
    <2> QED
        BY <2>1, <2>3, <2>4 DEF Settled, FreshNames, dyn_trait_types
<1> QED
    BY <1>3, <1>4 DEF Derived

(* dyn_object accepts every generated trait. *)
LEMMA GeneratedAccepted ==
    ASSUME source \in Programs, NEW t, Derived(source.decl, t), t.generated
    PROVE  dyn_object_errors(t) = {}
<1> DEFINE src == source.decl
<1>1. src \in Trait /\ Full(src) \in Trait
    BY SourceFacts, FullFacts
<1>2. PICK tr \in {src, Full(src)} : t.items = dyn_items(tr)
    BY DEF Derived
<1>3. tr.items \in SUBSET TraitItem /\ tr.tys \in SUBSET STRING /\ t.tys \in SUBSET STRING
    BY <1>1, <1>2 DEF Trait, Derived
<1>4. /\ \A g \in Fns(t.items) : is_dispatchable(g)
      /\ AssocTypes(t.items) = dyn_trait_types(tr)
      /\ t.items = Fns(t.items) \cup AssocTypes(t.items)
    BY <1>2, <1>3, DynItemsFacts
<1>5. \A y \in dyn_trait_types(tr) : ~y.generic
    BY DEF dyn_trait_types, is_not_generic
<1> QED
    BY <1>4, <1>5 DEF dyn_object_errors, Fns, AssocTypes

(* Impls stay complete while the traits that they name stay. *)
LEMMA ImplsStay ==
    ASSUME ImplsOK, source' = source,
           \A t \in Generated : \E u \in Generated' : Alike(t, u),
           \A c \in Declared : Emitted(c) => \E d \in Declared' : Emitted(d) /\ Alike(c, d)
    PROVE  \A im \in impls : \E t \in Generated', c \in Concrete' : Complete(im, t, c)
<1>1. RemoteTrait' = RemoteTrait /\ \A d : Emitted(d)' <=> Emitted(d)
    BY DEF RemoteTrait, Emitted, Late
<1>2. \A c \in Concrete : \E d \in Concrete' : Alike(c, d)
    BY <1>1 DEF Concrete, Alike
<1> QED
    BY <1>2, CompleteAlike DEF ImplsOK

(* dyn_trait: the impl comes with the trait it is for and, unless remote,  *)
(* with the declaration that has the added items.                          *)
LEMMA DynTraitComplete ==
    ASSUME CompleteInv, NEW tr \in pending, dyn_trait_impl(tr)
    PROVE  AheadOK' /\ ImplsOK'
<1> DEFINE opts == Head(tr.attrs)
           g == generated_trait(tr, opts)
           d == declared_trait(tr)
           src == source.decl
<1>1. source' = source /\ source \in Programs /\ src \in Trait
    BY SourceFacts DEF CompleteInv, ExpInv, dyn_trait_impl, Fail
<1>2. /\ tr \in Trait /\ tr.attrs # <<>> /\ tr.attrs \in Seq(Attribute) /\ tr \in Declared
      /\ opts.macro = "dyn_trait" /\ opts = tr.attrs[1] /\ 1 \in DOMAIN tr.attrs
      /\ Derived(src, tr) /\ 1 \in DynTraits(tr)
    BY TailFacts DEF CompleteInv, ExpInv, Declared, Derived, Trait, dyn_trait_impl, DynTraits
<1>3. ~tr.generated /\ tr.name = src.name /\ Ahead(tr)
    BY <1>2 DEF CompleteInv, AheadOK, Generated, LocalObject
<1>4. /\ \A x : Ahead(x)' <=> Ahead(x)
      /\ \A x : Emitted(x)' <=> Emitted(x)
      /\ \A x : Alike(x, x)
    BY <1>1 DEF Ahead, Emitted, Late, Alike, DynTraits
<1>5. Emitted(tr) => dyn_trait_errors(tr) = {} /\ ~opts.remote
    <2> SUFFICES ASSUME Emitted(tr) PROVE dyn_trait_errors(tr) = {} /\ ~opts.remote
        OBVIOUS
    <2>1. Settled(tr)
        BY <1>1, TraitItemsFacts DEF Emitted, Trait
    <2>2. \A m \in dyn_trait_methods(tr) : method_errors(m) = {}
        BY <2>1 DEF Settled, method_errors
    <2>3. tr.helpers = <<>> /\ DOMAIN <<>> = {}
        BY DEF Emitted
    <2> QED
        BY <1>2, <2>2, <2>3 DEF dyn_trait_errors, Emitted, Late
<1>6. CASE dyn_trait_errors(tr) # {}
    <2>1. pending' = pending \ {tr} /\ traits' = traits /\ impls' = impls
        BY <1>6 DEF dyn_trait_impl, Fail
    <2>2. Declared' \subseteq Declared /\ \A x \in Declared : x # tr => x \in Declared'
        BY <2>1 DEF Declared
    <2>3. Generated' = Generated
        BY <1>3, <2>2 DEF Generated
    <2>4. ImplsOK'
        BY <1>1, <1>4, <1>5, <1>6, <2>1, <2>2, <2>3, ImplsStay DEF CompleteInv, ImplsOK
    <2> QED
        BY <1>1, <1>4, <2>2, <2>3, <2>4 DEF CompleteInv, AheadOK
<1>7. CASE dyn_trait_errors(tr) = {}
    <2>1. /\ Emit(tr, {g} \cup IF opts.remote THEN {} ELSE {d})
          /\ impls' = impls \cup {generated_impl(tr, opts)}
        BY <1>7 DEF dyn_trait_impl
    <2>2. /\ g.attrs = tr.helpers /\ g.generated
          /\ d.attrs = Tail(tr.attrs) /\ d.helpers = <<>> /\ d.items = trait_items(tr)
          /\ d.name = tr.name /\ d.lts = tr.lts /\ d.tys = tr.tys
          /\ d.storages = tr.storages /\ d.generated = tr.generated
        <3>1. LET e == dyn_trait_attrs(tr) IN e \in Trait /\ e.attrs = tr.helpers
            <4>1. <<>> \in Seq(Attribute)
                OBVIOUS
            <4> QED
                BY <1>2, <4>1 DEF dyn_trait_attrs, Trait
        <3>2. LET e == extract_dyn_trait_attrs(tr)
              IN  /\ e \in Trait /\ e.attrs = Tail(tr.attrs) /\ e.helpers = <<>>
                  /\ e.name = tr.name /\ e.lts = tr.lts /\ e.tys = tr.tys
                  /\ e.storages = tr.storages /\ e.generated = tr.generated
            <4>1. <<>> \in Seq(Attribute) /\ Tail(tr.attrs) \in Seq(Attribute)
                BY <1>2
            <4> QED
                BY <1>2, <4>1 DEF extract_dyn_trait_attrs, Trait
        <3>3. g.attrs = tr.helpers /\ g.generated
            BY <3>1 DEF generated_trait, Trait
        <3> QED
            BY <3>2, <3>3 DEF declared_trait, Trait
    <2>3. Complete(generated_impl(tr, opts), g, IF opts.remote THEN RemoteTrait ELSE d)
        <3>1. /\ UniqueNames(tr) /\ FreshNames(tr) /\ dyn_trait_types(tr) = dyn_trait_types(src)
              /\ \A m \in dyn_trait_methods(tr) : m.ret.form \in {"plain", "async", "impl"}
            BY <1>1, <1>2, <1>3, SourceItems
        <3>2. GenericParams(src) # {} => dyn_trait_types(tr) = {}
            BY <1>2, <1>3, <3>1 DEF Ahead
        <3>3. CASE opts.remote
            <4>1. tr.items = src.items /\ \A m \in dyn_trait_methods(tr) : ~m.maybe_sync
                BY <1>2, <1>3, <3>3 DEF Ahead, dyn_trait_methods
            <4>2. /\ RemoteTrait.items = src.items /\ RemoteTrait.name = path(tr, opts)
                  /\ GenericParams(RemoteTrait) = GenericParams(src)
                BY <1>1, <1>3, <3>3 DEF RemoteTrait, Trait, path, GenericParams
            <4>3. UniqueNames(RemoteTrait)
                BY <3>1, <4>1, <4>2 DEF UniqueNames
            <4>4. Complete(generated_impl(tr, opts), g, RemoteTrait)
                BY <1>2, <1>7, <3>1, <3>2, <4>1, <4>2, <4>3, MadeComplete
            <4> QED
                BY <3>3, <4>4
        <3>4. CASE ~opts.remote
            <4>1. tr.items \in SUBSET TraitItem
                BY <1>2 DEF Trait
            <4>2. d.name = path(tr, opts) /\ GenericParams(d) = GenericParams(src)
                BY <1>2, <2>2, <3>4 DEF path, GenericParams, Derived
            <4>3. UniqueNames(d)
                BY <2>2, <3>1, <4>1, UniqueItems
            <4>4. /\ \A x \in tr.items : \E y \in d.items : y.name = x.name
                  /\ \A m \in dyn_trait_methods(tr) : m.maybe_sync =>
                        {sync_fn(m), is_sync_const(m)} \subseteq {y.name : y \in d.items}
                BY <2>2, <4>1, ItemsKept
            <4> HIDE DEF d
            <4>5. Complete(generated_impl(tr, opts), g, d)
                BY <1>2, <1>7, <3>1, <3>2, <4>2, <4>3, <4>4, MadeComplete
            <4> QED
                BY <3>4, <4>5
        <3> QED
            BY <3>3, <3>4
    <2>4. ~tr.generated => trait_items(tr) = trait_items(src)
        BY <1>1, <1>2, DerivedStep
    <2> HIDE DEF g, d
    <2>5. ~opts.remote => Emitted(d) /\ Ahead(d)
        <3> SUFFICES ASSUME ~opts.remote PROVE Emitted(d) /\ Ahead(d)
            OBVIOUS
        <3>1. \A k \in DOMAIN d.attrs : k + 1 \in DOMAIN tr.attrs /\ k + 1 > 1 /\ d.attrs[k] = tr.attrs[k + 1]
            <4>1. \A k \in DOMAIN Tail(tr.attrs) : k + 1 > 1
                BY <1>2, LenProperties
            <4> QED
                BY <1>2, <2>2, <4>1, TailFacts
        <3>2. \A k \in DOMAIN d.attrs : Late(d.attrs[k])
            BY <1>2, <1>3, <3>1 DEF Ahead
        <3>3. DOMAIN <<>> = {}
            OBVIOUS
        <3> QED
            BY <1>2, <1>3, <2>2, <2>4, <3>2, <3>3 DEF Emitted, Ahead, Late, DynTraits
    <2>6. /\ \A x \in Declared' : x \in Declared \/ x = g \/ (x = d /\ ~opts.remote)
          /\ \A x \in Declared : x # tr => x \in Declared'
          /\ g \in Declared' /\ (~opts.remote => d \in Declared')
        BY <2>1 DEF Emit, Declared
    <2>7. AheadOK'
        <3>1. \A x \in Declared' : ~x.generated => x.name = src.name /\ Ahead(x)
            BY <1>3, <2>2, <2>5, <2>6 DEF CompleteInv, AheadOK
        <3>2. \A x \in Generated' : \A k \in DOMAIN x.attrs : LocalObject(x.attrs[k])
            BY <1>3, <2>2, <2>6 DEF CompleteInv, AheadOK, Generated, Ahead
        <3> QED
            BY <1>1, <1>4, <3>1, <3>2 DEF AheadOK
    <2>8. ImplsOK'
        <3>1. \A t \in Generated : t \in Generated'
            BY <1>3, <2>6 DEF Generated
        <3>2. Emitted(tr) => Alike(tr, d)
            BY <1>3, <2>2, <2>4 DEF Alike, Emitted
        <3>3. \A c \in Declared : Emitted(c) => \E x \in Declared' : Emitted(x) /\ Alike(c, x)
            BY <1>4, <1>5, <2>5, <2>6, <3>2
        <3>4. \A im \in impls : \E t \in Generated', c \in Concrete' : Complete(im, t, c)
            BY <1>1, <1>4, <3>1, <3>3, ImplsStay DEF CompleteInv
        <3>5. g \in Generated' /\ (IF opts.remote THEN RemoteTrait ELSE d) \in Concrete'
            BY <1>1, <1>4, <2>2, <2>5, <2>6 DEF Generated, Concrete, RemoteTrait
        <3> QED
            BY <2>1, <2>3, <3>4, <3>5 DEF ImplsOK
    <2> QED
        BY <2>7, <2>8
<1> QED
    BY <1>6, <1>7

(* dyn_object: a generated or emitted declaration is kept. *)
LEMMA DynObjectComplete ==
    ASSUME CompleteInv, NEW tr \in pending, dyn_object_impl(tr)
    PROVE  AheadOK' /\ ImplsOK'
<1> DEFINE d == [tr EXCEPT !.attrs = Tail(@)]
           opts == Head(tr.attrs)
           src == source.decl
<1>1. source' = source /\ impls' = impls /\ source \in Programs /\ src \in Trait
    BY SourceFacts DEF CompleteInv, ExpInv, dyn_object_impl, Fail
<1>2. /\ tr \in Trait /\ tr.attrs # <<>> /\ tr.attrs \in Seq(Attribute) /\ tr \in Declared
      /\ opts.macro = "dyn_object" /\ opts = tr.attrs[1] /\ 1 \in DOMAIN tr.attrs /\ Derived(src, tr)
    BY TailFacts DEF CompleteInv, ExpInv, Declared, Derived, Trait, dyn_object_impl
<1>3. /\ \A x : Ahead(x)' <=> Ahead(x)
      /\ \A x : Emitted(x)' <=> Emitted(x)
      /\ \A x : Alike(x, x)
    BY <1>1 DEF Ahead, Emitted, Late, Alike, DynTraits
<1>4. d.attrs = Tail(tr.attrs) /\ d.helpers = tr.helpers /\ Alike(tr, d)
    BY <1>2 DEF Trait, Alike
<1>5. tr.generated \/ Emitted(tr) => dyn_object_errors(tr) = {} /\ include_trait(tr)
    <2>1. CASE tr.generated
        BY <1>1, <1>2, <2>1, GeneratedAccepted DEF CompleteInv, AheadOK, Generated, LocalObject, include_trait
    <2>2. CASE Emitted(tr)
        <3>1. ~opts.remote /\ dyn_object_errors(declared_trait(src)) = {}
            BY <1>2, <2>2 DEF Emitted, Late
        <3>2. declared_trait(src).items = tr.items
            <4>1. LET e == extract_dyn_trait_attrs(src) IN DOMAIN e = DOMAIN src
                BY DEF extract_dyn_trait_attrs
            <4> QED
                BY <1>1, <2>2, <4>1 DEF declared_trait, Trait, Emitted
        <3> QED
            BY <3>1, <3>2 DEF dyn_object_errors, include_trait
    <2> QED
        BY <2>1, <2>2
<1> HIDE DEF d
<1>6. /\ \A x \in Declared' : x \in Declared \/ x = d
      /\ \A x \in Declared : x # tr => x \in Declared'
      /\ dyn_object_errors(tr) = {} /\ include_trait(tr) => d \in Declared'
    BY DEF dyn_object_impl, Fail, Emit, Declared, d
<1>7. \A k \in DOMAIN d.attrs : k + 1 \in DOMAIN tr.attrs /\ k \in Nat /\ d.attrs[k] = tr.attrs[k + 1]
    <2>1. \A k \in DOMAIN Tail(tr.attrs) : k \in Nat
        BY <1>2, LenProperties
    <2> QED
        BY <1>2, <1>4, <2>1, TailFacts
<1>8. Ahead(tr) => Ahead(d)
    <2>1. \A k \in DynTraits(d) : k + 1 \in DynTraits(tr) /\ d.attrs[k] = tr.attrs[k + 1]
        BY <1>7 DEF DynTraits
    <2>2. \A k, l \in DOMAIN d.attrs : l > k => l + 1 > k + 1
        BY <1>7
    <2>3. DynTraits(d) \subseteq DOMAIN d.attrs
        BY DEF DynTraits
    <2> QED
        BY <1>4, <1>7, <2>1, <2>2, <2>3 DEF Ahead, Alike
<1>9. Emitted(tr) => Emitted(d)
    BY <1>4, <1>7 DEF Emitted, Alike
<1>10. AheadOK'
    <2>1. \A x \in Declared' : ~x.generated => x.name = src.name /\ Ahead(x)
        BY <1>2, <1>4, <1>6, <1>8 DEF CompleteInv, AheadOK, Alike
    <2>2. \A x \in Generated' : \A k \in DOMAIN x.attrs : LocalObject(x.attrs[k])
        <3>1. tr.generated => \A k \in DOMAIN tr.attrs : LocalObject(tr.attrs[k])
            BY <1>2 DEF CompleteInv, AheadOK, Generated
        <3>2. tr.generated => \A k \in DOMAIN d.attrs : LocalObject(d.attrs[k])
            BY <1>7, <3>1
        <3>3. d.generated = tr.generated /\ \A x \in Generated' : x.generated /\ (x \in Declared \/ x = d)
            BY <1>4, <1>6 DEF Generated, Alike
        <3> QED
            BY <3>2, <3>3 DEF CompleteInv, AheadOK, Generated
    <2> QED
        BY <1>1, <1>3, <2>1, <2>2 DEF AheadOK
<1>11. ImplsOK'
    <2>1. \A t \in Generated : \E u \in Generated' : Alike(t, u)
        BY <1>3, <1>4, <1>5, <1>6 DEF Generated, Alike
    <2>2. \A c \in Declared : Emitted(c) => \E x \in Declared' : Emitted(x) /\ Alike(c, x)
        BY <1>3, <1>4, <1>5, <1>6, <1>9
    <2> QED
        BY <1>1, <2>1, <2>2, ImplsStay DEF CompleteInv, ImplsOK
<1> QED
    BY <1>10, <1>11

LEMMA NextCompleteInv == CompleteInv /\ [Next]_vars => CompleteInv'
<1> SUFFICES ASSUME CompleteInv, [Next]_vars PROVE CompleteInv'
    OBVIOUS
<1>1. ExpInv'
    BY NextExpInv DEF CompleteInv
<1>2. ASSUME NEW tr \in pending, dyn_trait_impl(tr) PROVE CompleteInv'
    BY <1>1, <1>2, DynTraitComplete DEF CompleteInv
<1>3. ASSUME NEW tr \in pending, dyn_object_impl(tr) PROVE CompleteInv'
    BY <1>1, <1>3, DynObjectComplete DEF CompleteInv
<1>4. ASSUME UNCHANGED <<source, pending, traits, impls>> PROVE CompleteInv'
    <2>1. Declared' = Declared /\ Generated' = Generated /\ Concrete' = Concrete
        BY <1>4 DEF Declared, Generated, Concrete, Emitted, Late, RemoteTrait
    <2> QED
        BY <1>1, <1>4, <2>1 DEF CompleteInv, AheadOK, ImplsOK, Ahead, Late, DynTraits
<1> QED
    BY <1>2, <1>3, <1>4 DEF Next, sync_impl, vars

(* A generated impl has every item of its trait with the same signature,   *)
(* calls only what the concrete trait declares, the items that maybe_sync  *)
(* adds included, and names only storage parameters that exist; the traits *)
(* on both sides stay declared whatever the remaining attributes do.       *)
THEOREM ImplCompleteHolds ==
    ASSUME \A p \in Programs : Completable(p)
    PROVE  Spec => []ImplComplete
<1>1. CompleteInv => ImplComplete
    <2>1. Concrete \subseteq Declared \cup {RemoteTrait}
        BY DEF Concrete
    <2> QED
        BY <2>1 DEF CompleteInv, ImplsOK, Complete, ImplComplete
<1> QED
    BY <1>1, InitCompleteInv, NextCompleteInv, PTL DEF Spec

=============================================================================
