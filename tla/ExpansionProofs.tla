-------------------------- MODULE ExpansionProofs --------------------------
(* Proofs about Expansion.                                                 *)
EXTENDS Expansion, TLAPS

(* Taking the attributes of a method changes nothing else (MethodAttrs::parse). *)
LEMMA UnmarkedFacts ==
    ASSUME NEW m \in Method
    PROVE  LET u == unmarked(m)
           IN  /\ u \in Method /\ ~u.attr /\ ~u.maybe_sync
               /\ u.name = m.name /\ u.unsafety = m.unsafety /\ u.recv = m.recv
               /\ u.lts = m.lts /\ u.generic = m.generic /\ u.sized = m.sized
               /\ u.outlives = m.outlives /\ u.args = m.args /\ u.ret = m.ret
               /\ ~m.attr /\ ~m.maybe_sync => u = m
BY DEF unmarked, Method

(* async fn is desugared to impl Future, other results are left alone. *)
LEMMA DesugaredFacts ==
    ASSUME NEW m \in Method
    PROVE  LET u == desugared(m)
           IN  /\ u \in Method /\ u.attr = m.attr /\ u.maybe_sync = m.maybe_sync
               /\ u.name = m.name /\ u.unsafety = m.unsafety /\ u.recv = m.recv
               /\ u.lts = m.lts /\ u.generic = m.generic /\ u.sized = m.sized
               /\ u.outlives = m.outlives /\ u.args = m.args
               /\ u.ret.ty = m.ret.ty /\ u.ret.precise = m.ret.precise /\ u.ret.use = m.ret.use
               /\ has_rpit(m) => u.ret.form = "impl"
               /\ ~has_rpit(m) => u = m
<1>1. CASE m.ret.form = "async"
    <2> DEFINE r == [m.ret EXCEPT !.form = "impl", !.bound = "Future", !.output = TRUE]
    <2>0. m.ret \in Result
        BY DEF Method
    <2>1. /\ r \in Result
          /\ r.form = "impl" /\ r.ty = m.ret.ty /\ r.precise = m.ret.precise /\ r.use = m.ret.use
        BY <2>0, WordsAssumption DEF Result
    <2>2. desugared(m) = [m EXCEPT !.ret = r]
        BY <1>1 DEF desugared
    <2> QED
        BY <1>1, <2>1, <2>2 DEF has_rpit, Method
<1>2. CASE m.ret.form # "async"
    BY <1>2 DEF desugared, has_rpit, Method
<1> QED
    BY <1>1, <1>2

(* Names of items are sequences of words. *)
LEMMA NameFacts ==
    ASSUME NEW m, m.name \in Seq(STRING)
    PROVE  sync_fn(m) \in Seq(STRING) /\ is_sync_const(m) \in Seq(STRING) /\ sync_fn(m) # is_sync_const(m)
<1>1. \A w \in STRING : /\ Append(m.name, w) \in Seq(STRING)
                        /\ Append(m.name, w)[Len(m.name) + 1] = w
    OBVIOUS
<1> QED
    BY <1>1, WordsAssumption DEF sync_fn, is_sync_const

(* The synchronous twin of a maybe_sync method: plain, with a name of its own. *)
LEMMA SyncMethodFacts ==
    ASSUME NEW m \in Method
    PROVE  LET u == sync_method(m)
           IN  /\ u \in Method /\ ~u.attr /\ ~u.maybe_sync
               /\ u.name = sync_fn(m) /\ u.unsafety = m.unsafety /\ u.recv = m.recv
               /\ u.lts = m.lts /\ u.generic = m.generic /\ u.sized = m.sized
               /\ u.outlives = m.outlives /\ u.args = m.args
               /\ u.ret.form = "plain" /\ u.ret.ty = m.ret.ty
<1> DEFINE n == unmarked(m)
           r == [n.ret EXCEPT !.form = "plain", !.bound = "", !.output = FALSE,
                              !.precise = FALSE, !.use = {}]
<1>0. n \in Method /\ n.ret \in Result /\ n.ret = m.ret
    BY UnmarkedFacts DEF Method
<1>1. r \in Result /\ r.form = "plain" /\ r.ty = m.ret.ty
    BY <1>0, WordsAssumption DEF Result
<1>2. sync_fn(m) \in Seq(STRING)
    BY NameFacts DEF Method
<1>3. sync_method(m) = [n EXCEPT !.name = sync_fn(m), !.ret = r]
    BY DEF sync_method
<1>4. [n EXCEPT !.name = sync_fn(m), !.ret = r] \in Method
    BY <1>0, <1>1, <1>2 DEF Method
<1>5. LET u == [n EXCEPT !.name = sync_fn(m), !.ret = r]
      IN  /\ u.attr = n.attr /\ u.maybe_sync = n.maybe_sync /\ u.name = sync_fn(m)
          /\ u.unsafety = n.unsafety /\ u.recv = n.recv /\ u.lts = n.lts
          /\ u.generic = n.generic /\ u.sized = n.sized /\ u.outlives = n.outlives
          /\ u.args = n.args /\ u.ret = r
    <2> HIDE DEF r, n
    <2> QED
        BY <1>0 DEF Method
<1> HIDE DEF r
<1> QED
    BY <1>1, <1>3, <1>4, <1>5, UnmarkedFacts

(* Lifetimes and types after the visit of CapturedLifetimes. *)
LEMMA VisitFacts ==
    ASSUME NEW C
    PROVE  /\ \A l \in STRING : visit_lifetime(C, l) \in STRING
           /\ \A ty \in SUBSET Mention : visit_type(C, ty) \in SUBSET Mention
<1>1. \A l \in STRING : visit_lifetime(C, l) \in STRING
    BY WordsAssumption DEF visit_lifetime
<1>2. ASSUME NEW ty \in SUBSET Mention, NEW a \in ty
      PROVE  (IF a[1] = "lt" THEN Lt(visit_lifetime(C, a[2])) ELSE a) \in Mention
    BY <1>1, WordsAssumption DEF Mention, Lt
<1> QED
    BY <1>1, <1>2 DEF visit_type

(* The signature in the generated trait of a method with impl Trait result. *)
LEMMA UpdateFacts ==
    ASSUME NEW tr, tr.tys \in SUBSET STRING, NEW m \in Method
    PROVE  LET C == CapturedLifetimes(m)
               u == update_dyn_signature(tr, m)
           IN  /\ u \in Method /\ u.attr = m.attr /\ u.maybe_sync = m.maybe_sync
               /\ u.name = m.name /\ u.unsafety = m.unsafety
               /\ u.recv.form = m.recv.form /\ u.recv.mut = m.recv.mut
               /\ u.recv.lt = visit_lifetime(C, m.recv.lt)
               /\ u.generic = m.generic /\ u.sized = m.sized
               /\ u.outlives = m.outlives \cup outlives_dyn(tr, m, C)
               /\ u.args = [i \in DOMAIN m.args |-> visit_type(C, m.args[i])]
               /\ u.ret.form = "DynObject" /\ u.ret.ty = visit_type(C, m.ret.ty)
<1> DEFINE C == CapturedLifetimes(m)
           rv == visit_receiver(C, m.recv)
           as == [i \in DOMAIN m.args |-> visit_type(C, m.args[i])]
           r == dyn_object_result(C, m.ret)
           lts == m.lts \cup {DynLt}
           out == m.outlives \cup outlives_dyn(tr, m, C)
<1>0. /\ m.recv \in Receiver /\ m.ret \in Result /\ m.args \in Seq(SUBSET Mention)
      /\ m.lts \in SUBSET STRING /\ m.outlives \in SUBSET Mention
    BY DEF Method
<1>1. /\ rv \in Receiver /\ rv.form = m.recv.form /\ rv.mut = m.recv.mut
      /\ rv.lt = visit_lifetime(C, m.recv.lt)
    BY <1>0, VisitFacts DEF Receiver, visit_receiver
<1>2. r \in Result /\ r.form = "DynObject" /\ r.ty = visit_type(C, m.ret.ty)
    BY <1>0, VisitFacts DEF Result, dyn_object_result
<1>3. as \in Seq(SUBSET Mention)
    BY <1>0, VisitFacts
<1>4. lts \in SUBSET STRING
    BY <1>0, WordsAssumption
<1>5. out \in SUBSET Mention
    <2>1. \A l \in STRING : Lt(l) \in Mention /\ <<"T", l>> \in Mention
        BY WordsAssumption DEF Mention, Lt
    <2>2. SelfTy \in Mention
        BY WordsAssumption DEF Mention, SelfTy
    <2> QED
        BY <1>0, <2>1, <2>2 DEF outlives_dyn
<1>6. update_dyn_signature(tr, m) =
        [m EXCEPT !.lts = lts, !.outlives = out, !.recv = rv, !.args = as, !.ret = r]
    BY DEF update_dyn_signature
<1> HIDE DEF rv, as, r, lts, out
<1>7. [m EXCEPT !.lts = lts, !.outlives = out, !.recv = rv, !.args = as, !.ret = r] \in Method
    BY <1>1, <1>2, <1>3, <1>4, <1>5 DEF Method
<1>8. LET u == [m EXCEPT !.lts = lts, !.outlives = out, !.recv = rv, !.args = as, !.ret = r]
      IN  /\ u.attr = m.attr /\ u.maybe_sync = m.maybe_sync /\ u.name = m.name
          /\ u.unsafety = m.unsafety /\ u.generic = m.generic /\ u.sized = m.sized
          /\ u.outlives = out /\ u.recv = rv /\ u.args = as /\ u.ret = r
    BY DEF Method
<1> QED
    BY <1>1, <1>2, <1>6, <1>7, <1>8 DEF out, as

(* What a generated method has in common with the method m it is made from. *)
SameMethod(m, g) ==
    /\ g.name = m.name /\ g.unsafety = m.unsafety
    /\ g.recv.form = m.recv.form /\ g.recv.mut = m.recv.mut
    /\ g.generic = m.generic /\ g.sized = m.sized
    /\ ~g.attr /\ ~g.maybe_sync

(* How its lifetimes are rewritten. *)
Rewritten(tr, m, g) ==
    LET C == CapturedLifetimes(m)
    IN  /\ g.outlives = m.outlives \cup outlives_dyn(tr, m, C)
        /\ g.recv.lt = visit_lifetime(C, m.recv.lt)
        /\ g.args = [i \in DOMAIN m.args |-> visit_type(C, m.args[i])]
        /\ g.ret.ty = visit_type(C, m.ret.ty)

(* DynMethod::new on a method with impl Trait result, and on any other. *)
LEMMA DynMethodFacts ==
    ASSUME NEW tr, tr.tys \in SUBSET STRING, NEW m \in Method
    PROVE  LET g == dyn_method(tr, m)
           IN  /\ g \in Method /\ SameMethod(m, g)
               /\ has_rpit(m) => Rewritten(tr, m, g) /\ g.ret.form = "DynObject"
               /\ ~has_rpit(m) => g = unmarked(m)
<1> DEFINE d == unmarked(desugared(m))
<1>1. /\ desugared(m) \in Method
      /\ d \in Method /\ ~d.attr /\ ~d.maybe_sync
      /\ d.name = m.name /\ d.unsafety = m.unsafety /\ d.recv = m.recv
      /\ d.lts = m.lts /\ d.generic = m.generic /\ d.sized = m.sized
      /\ d.outlives = m.outlives /\ d.args = m.args
      /\ d.ret.ty = m.ret.ty /\ d.ret.precise = m.ret.precise /\ d.ret.use = m.ret.use
      /\ has_rpit(m) => d.ret.form = "impl"
      /\ ~has_rpit(m) => d = unmarked(m)
    BY DesugaredFacts, UnmarkedFacts
<1> HIDE DEF d
<1>2. CapturedLifetimes(d) = CapturedLifetimes(m)
    BY <1>1 DEF CapturedLifetimes
<1>3. \A C : outlives_dyn(tr, d, C) = outlives_dyn(tr, m, C)
    BY <1>1 DEF outlives_dyn
<1>4. CASE has_rpit(m)
    <2>1. dyn_method(tr, m) = update_dyn_signature(tr, d)
        BY <1>1, <1>4 DEF dyn_method, d
    <2> QED
        BY <1>1, <1>2, <1>3, <1>4, <2>1, UpdateFacts DEF SameMethod, Rewritten
<1>5. CASE ~has_rpit(m)
    <2>1. unmarked(m) \in Method /\ unmarked(m).ret.form # "impl"
        BY <1>5, UnmarkedFacts DEF has_rpit
    <2>2. dyn_method(tr, m) = unmarked(m)
        BY <1>1, <1>5, <2>1 DEF dyn_method, d
    <2> QED
        BY <1>5, <2>1, <2>2, UnmarkedFacts DEF SameMethod
<1> QED
    BY <1>4, <1>5

(* The method of the generated trait (DynTrait::parse_method). *)
LEMMA DynItemFacts ==
    ASSUME NEW tr, tr.tys \in SUBSET STRING, NEW m \in Method
    PROVE  LET g == dyn_item(tr, m)
           IN  /\ g \in Method /\ SameMethod(m, g) /\ ~has_rpit(g)
               /\ has_rpit(m) => Rewritten(tr, m, g)
               /\ ~has_rpit(m) => g.args = m.args /\ g.ret.ty = m.ret.ty
               /\ ~has_rpit(m) /\ ~m.maybe_sync => g = unmarked(m)
               /\ g.ret.form \in {"DynObject", "MaybeSync"} =>
                      has_rpit(m) \/ m.maybe_sync \/ m.ret.form \in {"DynObject", "MaybeSync"}
<1> DEFINE d == dyn_method(tr, m)
           r == [d.ret EXCEPT !.form = "MaybeSync"]
<1>1. /\ d \in Method /\ SameMethod(m, d)
      /\ has_rpit(m) => Rewritten(tr, m, d) /\ d.ret.form = "DynObject"
      /\ ~has_rpit(m) => d = unmarked(m)
    BY DynMethodFacts
<1>2. unmarked(m).args = m.args /\ unmarked(m).ret = m.ret
    BY UnmarkedFacts
<1> HIDE DEF d
<1>3. CASE m.maybe_sync
    <2>1. d.ret \in Result
        BY <1>1 DEF Method
    <2>2. r \in Result /\ r.form = "MaybeSync" /\ r.ty = d.ret.ty
        BY <2>1 DEF Result
    <2>3. dyn_item(tr, m) = [d EXCEPT !.ret = r]
        BY <1>3 DEF dyn_item, maybe_sync_signature, d
    <2> HIDE DEF r
    <2>4. [d EXCEPT !.ret = r] \in Method
        BY <1>1, <2>2 DEF Method
    <2>5. LET u == [d EXCEPT !.ret = r]
          IN  /\ u.attr = d.attr /\ u.maybe_sync = d.maybe_sync /\ u.name = d.name
              /\ u.unsafety = d.unsafety /\ u.generic = d.generic /\ u.sized = d.sized
              /\ u.outlives = d.outlives /\ u.recv = d.recv /\ u.args = d.args /\ u.ret = r
        BY <1>1 DEF Method
    <2> QED
        BY <1>1, <1>2, <1>3, <2>2, <2>3, <2>4, <2>5 DEF SameMethod, Rewritten, has_rpit
<1>4. CASE ~m.maybe_sync
    <2>1. dyn_item(tr, m) = d
        BY <1>4 DEF dyn_item, d
    <2> QED
        BY <1>1, <1>2, <1>4, <2>1 DEF has_rpit
<1> QED
    BY <1>3, <1>4

-----------------------------------------------------------------------------
(* Items.                                                                  *)

(* Items are told apart by their kind. *)
LEMMA ItemKinds ==
    ASSUME NEW items \in SUBSET TraitItem
    PROVE  /\ Fns(items) = items \cap Method /\ AssocTypes(items) = items \cap AssocType
           /\ \A i \in items : i.kind \in {"fn", "type", "const"} /\ i.name \in Seq(STRING)
BY DEF TraitItem, Method, AssocType, Const, Fns, AssocTypes

(* The macros write the same for two declarations with the same items. *)
LEMMA SameItems ==
    ASSUME NEW tr, NEW t, tr.items = t.items, tr.tys = t.tys
    PROVE  /\ trait_items(tr) = trait_items(t) /\ dyn_items(tr) = dyn_items(t)
           /\ dyn_trait_methods(tr) = dyn_trait_methods(t)
           /\ dyn_trait_types(tr) = dyn_trait_types(t)
           /\ \A m : dyn_item(tr, m) = dyn_item(t, m)
<1>1. \A m, C : outlives_dyn(tr, m, C) = outlives_dyn(t, m, C)
    BY DEF outlives_dyn
<1>2. \A m : update_dyn_signature(tr, m) = update_dyn_signature(t, m)
    BY <1>1 DEF update_dyn_signature
<1>3. \A m : dyn_method(tr, m) = dyn_method(t, m)
    BY <1>2 DEF dyn_method
<1>4. \A m : dyn_item(tr, m) = dyn_item(t, m)
    BY <1>3 DEF dyn_item, maybe_sync_signature
<1>5. dyn_trait_methods(tr) = dyn_trait_methods(t) /\ dyn_trait_types(tr) = dyn_trait_types(t)
    BY DEF dyn_trait_methods, dyn_trait_types
<1> QED
    BY <1>4, <1>5 DEF trait_items, dyn_items

(* No method is left for maybe_sync to add anything for. *)
Settled(tr) == \A m \in dyn_trait_methods(tr) : ~m.attr /\ ~m.maybe_sync

(* Then dyn_trait gives the items back as they are. *)
LEMMA SettledItems ==
    ASSUME NEW tr, tr.items \in SUBSET TraitItem, Settled(tr)
    PROVE  trait_items(tr) = tr.items
<1>1. dyn_trait_methods(tr) \subseteq tr.items \cap Method
    BY ItemKinds DEF dyn_trait_methods
<1>2. \A m \in dyn_trait_methods(tr) : unmarked(m) = m /\ additional_items(m) = {}
    BY <1>1, UnmarkedFacts DEF Settled, additional_items
<1>3. {unmarked(m) : m \in dyn_trait_methods(tr)} = dyn_trait_methods(tr)
    BY <1>2
<1>4. UNION {additional_items(m) : m \in dyn_trait_methods(tr)} = {}
    BY <1>2
<1> QED
    BY <1>1, <1>3, <1>4 DEF trait_items

(* The items of the declaration after dyn_trait: the fields that a method  *)
(* had stay, but for its attributes, and what maybe_sync adds is new.      *)
LEMMA TraitItemsFacts ==
    ASSUME NEW tr, tr.items \in SUBSET TraitItem, NEW t, t.items = trait_items(tr)
    PROVE  /\ t.items \in SUBSET TraitItem /\ Settled(t)
           /\ dyn_trait_methods(t) = {unmarked(m) : m \in dyn_trait_methods(tr)}
                  \cup {sync_method(m) : m \in {n \in dyn_trait_methods(tr) : n.maybe_sync}}
           /\ AssocTypes(t.items) = AssocTypes(tr.items)
<1> DEFINE ms == dyn_trait_methods(tr)
           us == {unmarked(m) : m \in ms}
           marked == {n \in ms : n.maybe_sync}
           ss == {sync_method(m) : m \in marked}
           cs == {const_item(is_sync_const(m)) : m \in marked}
<1>0. ms = {m \in tr.items \cap Method : is_dispatchable(m)}
    BY ItemKinds DEF dyn_trait_methods
<1>1. UNION {additional_items(m) : m \in ms} = ss \cup cs
    BY DEF additional_items
<1>2. t.items = (tr.items \ ms) \cup us \cup ss \cup cs
    BY <1>1 DEF trait_items
<1>3. us \subseteq Method /\ \A u \in us : is_dispatchable(u) /\ ~u.attr /\ ~u.maybe_sync
    BY <1>0, UnmarkedFacts DEF is_dispatchable
<1>4. ss \subseteq Method /\ \A u \in ss : is_dispatchable(u) /\ ~u.attr /\ ~u.maybe_sync
    BY <1>0, SyncMethodFacts DEF is_dispatchable
<1>5. cs \subseteq Const
    BY <1>0, NameFacts DEF const_item, Const, Method
<1>6. Method \cap AssocType = {} /\ Method \cap Const = {} /\ AssocType \cap Const = {}
    BY DEF Method, AssocType, Const
<1> HIDE DEF ms, us, ss, cs, marked
<1>7. t.items \in SUBSET TraitItem
    BY <1>2, <1>3, <1>4, <1>5 DEF TraitItem
<1>8. dyn_trait_methods(t) = {m \in t.items \cap Method : is_dispatchable(m)}
    BY <1>7, ItemKinds DEF dyn_trait_methods
<1>9. dyn_trait_methods(t) = us \cup ss
    BY <1>0, <1>2, <1>3, <1>4, <1>5, <1>6, <1>8
<1>10. t.items \cap AssocType = tr.items \cap AssocType
    BY <1>0, <1>2, <1>3, <1>4, <1>5, <1>6
<1>11. AssocTypes(t.items) = AssocTypes(tr.items)
    BY <1>7, <1>10, ItemKinds
<1> QED
    BY <1>3, <1>4, <1>7, <1>9, <1>11 DEF Settled, us, ss, ms, marked

(* The items of the generated trait: dispatchable methods without impl     *)
(* Trait or attributes, and types without parameters.  dyn_trait gives them*)
(* back as they are.                                                       *)
LEMMA DynItemsFacts ==
    ASSUME NEW tr, tr.items \in SUBSET TraitItem, tr.tys \in SUBSET STRING,
           NEW t, t.items = dyn_items(tr), t.tys \in SUBSET STRING
    PROVE  /\ t.items \in SUBSET TraitItem
           /\ Fns(t.items) = {dyn_item(tr, m) : m \in dyn_trait_methods(tr)}
           /\ AssocTypes(t.items) = dyn_trait_types(tr)
           /\ t.items = Fns(t.items) \cup AssocTypes(t.items)
           /\ dyn_trait_methods(t) = Fns(t.items) /\ dyn_trait_types(t) = AssocTypes(t.items)
           /\ Settled(t) /\ dyn_items(t) = t.items
           /\ \A g \in Fns(t.items) : is_dispatchable(g) /\ ~has_rpit(g)
<1> DEFINE ms == dyn_trait_methods(tr)
           gs == {dyn_item(tr, m) : m \in ms}
           ts == dyn_trait_types(tr)
<1>0. /\ ms = {m \in tr.items \cap Method : is_dispatchable(m)}
      /\ ts = {ty \in tr.items \cap AssocType : is_not_generic(ty)}
    BY ItemKinds DEF dyn_trait_methods, dyn_trait_types
<1>1. \A g \in gs : /\ g \in Method /\ is_dispatchable(g) /\ ~has_rpit(g)
                    /\ ~g.attr /\ ~g.maybe_sync
    BY <1>0, DynItemFacts DEF is_dispatchable, SameMethod
<1>2. Method \cap AssocType = {}
    BY DEF Method, AssocType
<1>3. t.items = ts \cup gs
    BY DEF dyn_items
<1> HIDE DEF ms, gs, ts
<1>4. t.items \in SUBSET TraitItem
    BY <1>0, <1>1, <1>3 DEF TraitItem
<1>5. Fns(t.items) = gs /\ AssocTypes(t.items) = ts
    BY <1>0, <1>1, <1>2, <1>3, <1>4, ItemKinds
<1>6. dyn_trait_methods(t) = gs
    BY <1>1, <1>5 DEF dyn_trait_methods
<1>7. dyn_trait_types(t) = ts
    BY <1>0, <1>5 DEF dyn_trait_types
<1>8. \A g \in gs : dyn_item(t, g) = g
    BY <1>1, DynItemFacts, UnmarkedFacts
<1>9. {dyn_item(t, g) : g \in gs} = gs
    BY <1>8
<1>10. dyn_items(t) = t.items
    BY <1>3, <1>6, <1>7, <1>9 DEF dyn_items
<1> QED
    BY <1>1, <1>3, <1>4, <1>5, <1>6, <1>7, <1>10 DEF Settled, ms, gs, ts

-----------------------------------------------------------------------------
(* The inductive invariant: every declaration that exists at some point has*)
(* the items of the source, or those after dyn_trait; every generated trait*)
(* has what dyn_trait makes of one of the two.                             *)

Full(src) == [src EXCEPT !.items = trait_items(src)]

Derived(src, d) ==
    /\ d \in Trait /\ d.lts = src.lts /\ d.tys = src.tys
    /\ ~d.generated => d.items \in {src.items, trait_items(src)}
    /\ d.generated => d.items \in {dyn_items(src), dyn_items(Full(src))}

ExpInv ==
    /\ source \in Programs
    /\ \A d \in pending : d.attrs # <<>>
    /\ \A d \in Declared : Derived(source.decl, d)

LEMMA FullFacts ==
    ASSUME NEW src \in Trait
    PROVE  /\ Full(src) \in Trait /\ Full(src).items = trait_items(src) /\ Full(src).tys = src.tys
           /\ Settled(Full(src))
<1>1. \A t : t.items = trait_items(src) => t.items \in SUBSET TraitItem /\ Settled(t)
    BY TraitItemsFacts DEF Trait
<1>2. Full(src).items = trait_items(src) /\ Full(src).tys = src.tys
    BY DEF Full, Trait
<1>3. trait_items(src) \in SUBSET TraitItem
    BY <1>1, <1>2
<1> QED
    BY <1>1, <1>2, <1>3 DEF Full, Trait

(* The two declarations that dyn_trait emits. *)
LEMMA DerivedStep ==
    ASSUME NEW src \in Trait, NEW tr, Derived(src, tr), tr.attrs # <<>>
    PROVE  /\ Head(tr.attrs) \in Attribute
           /\ \A opts \in Attribute : Derived(src, generated_trait(tr, opts))
           /\ Derived(src, declared_trait(tr))
           /\ Derived(src, [tr EXCEPT !.attrs = Tail(@)])
           /\ ~tr.generated => trait_items(tr) = trait_items(src)
<1> DEFINE full == Full(src)
<1>0. /\ tr \in Trait /\ tr.lts = src.lts /\ tr.tys = src.tys
      /\ ~tr.generated => tr.items \in {src.items, trait_items(src)}
      /\ tr.generated => tr.items \in {dyn_items(src), dyn_items(full)}
    BY DEF Derived
<1>1. /\ tr.items \in SUBSET TraitItem /\ tr.tys \in SUBSET STRING
      /\ src.items \in SUBSET TraitItem /\ src.tys \in SUBSET STRING
      /\ tr.attrs \in Seq(Attribute) /\ tr.helpers \in Seq(Attribute) /\ tr.name \in Seq(STRING)
      /\ tr.generated \in BOOLEAN
    BY <1>0 DEF Trait
<1>2. /\ full \in Trait /\ full.items = trait_items(src) /\ full.tys = src.tys /\ Settled(full)
      /\ full.items \in SUBSET TraitItem
    BY FullFacts DEF Trait
<1> HIDE DEF full
<1>3. Head(tr.attrs) \in Attribute /\ Tail(tr.attrs) \in Seq(Attribute)
    BY <1>0, <1>1
<1>4. trait_items(full) = full.items
    BY <1>2, SettledItems
<1>5. ~tr.generated => /\ trait_items(tr) = trait_items(src)
                       /\ dyn_items(tr) \in {dyn_items(src), dyn_items(full)}
    <2>1. tr.items = src.items => trait_items(tr) = trait_items(src) /\ dyn_items(tr) = dyn_items(src)
        BY <1>0, SameItems
    <2>2. tr.items = full.items => trait_items(tr) = trait_items(full) /\ dyn_items(tr) = dyn_items(full)
        BY <1>0, <1>2, SameItems
    <2> QED
        BY <1>0, <1>2, <1>4, <2>1, <2>2
<1>6. tr.generated => trait_items(tr) = tr.items /\ dyn_items(tr) = tr.items
    <2>1. \A t \in {src, full} : tr.items = dyn_items(t) => Settled(tr) /\ dyn_items(tr) = tr.items
        BY <1>1, <1>2, DynItemsFacts
    <2> QED
        BY <1>0, <1>1, <2>1, SettledItems
<1>7. trait_items(tr) \in SUBSET TraitItem /\ dyn_items(tr) \in SUBSET TraitItem
    <2>1. \A t : t.items = trait_items(tr) => t.items \in SUBSET TraitItem
        BY <1>1, TraitItemsFacts
    <2>2. \A t : t.items = dyn_items(tr) /\ t.tys \in SUBSET STRING => t.items \in SUBSET TraitItem
        BY <1>1, DynItemsFacts
    <2>3. /\ [tr EXCEPT !.items = trait_items(tr)].items = trait_items(tr)
          /\ [tr EXCEPT !.items = dyn_items(tr)].items = dyn_items(tr)
          /\ [tr EXCEPT !.items = dyn_items(tr)].tys = tr.tys
        BY <1>0 DEF Trait
    <2> QED
        BY <1>1, <2>1, <2>2, <2>3
<1>8. ASSUME NEW opts \in Attribute
      PROVE  Derived(src, generated_trait(tr, opts))
    <2> DEFINE g == generated_trait(tr, opts)
               st == UNION {generic_storage(m) : m \in dyn_trait_methods(tr)}
    <2>1. dyn_trait_name(tr, opts) \in Seq(STRING)
        <3>1. \A w \in STRING, n \in Seq(STRING) : <<w>> \o n \in Seq(STRING)
            OBVIOUS
        <3>2. <<"Dyn">> \o tr.name \in Seq(STRING)
            BY <1>1, <3>1, WordsAssumption
        <3> QED
            BY <3>2 DEF dyn_trait_name, Attribute
    <2>2. st \in SUBSET Seq(STRING)
        BY <1>1, ItemKinds DEF dyn_trait_methods, generic_storage, Method
    <2>3. /\ g \in Trait /\ g.lts = tr.lts /\ g.tys = tr.tys /\ g.generated /\ g.items = dyn_items(tr)
        <3> DEFINE e == dyn_trait_attrs(tr)
                   n == dyn_trait_name(tr, opts)
                   is == dyn_items(tr)
        <3>0. <<>> \in Seq(Attribute)
            OBVIOUS
        <3>1. e \in Trait /\ e.lts = tr.lts /\ e.tys = tr.tys
            BY <1>0, <1>1, <3>0 DEF dyn_trait_attrs, Trait
        <3>2. g = [e EXCEPT !.name = n, !.generated = TRUE, !.storages = st, !.items = is]
            BY DEF generated_trait
        <3> HIDE DEF e, n, st, is, g
        <3>3. g \in Trait
            BY <1>7, <2>1, <2>2, <3>1, <3>2 DEF Trait, n, is
        <3>4. g.lts = e.lts /\ g.tys = e.tys /\ g.generated /\ g.items = is
            BY <3>1, <3>2 DEF Trait
        <3> QED
            BY <3>1, <3>3, <3>4 DEF is
    <2>4. dyn_items(tr) \in {dyn_items(src), dyn_items(full)}
        BY <1>0, <1>1, <1>5, <1>6
    <2> QED
        BY <1>0, <2>3, <2>4 DEF Derived, full
<1>9. Derived(src, declared_trait(tr))
    <2> DEFINE d == declared_trait(tr)
    <2>1. /\ d \in Trait /\ d.lts = tr.lts /\ d.tys = tr.tys /\ d.generated = tr.generated
          /\ d.items = trait_items(tr)
        <3> DEFINE e == extract_dyn_trait_attrs(tr)
        <3>1. e \in Trait /\ e.lts = tr.lts /\ e.tys = tr.tys /\ e.generated = tr.generated
            <4>1. <<>> \in Seq(Attribute)
                OBVIOUS
            <4> QED
                BY <1>0, <1>1, <1>3, <4>1 DEF extract_dyn_trait_attrs, Trait
        <3>2. d = [e EXCEPT !.items = trait_items(tr)]
            BY DEF declared_trait
        <3> HIDE DEF e, d
        <3> QED
            BY <1>7, <3>1, <3>2 DEF Trait
    <2> QED
        BY <1>0, <1>1, <1>5, <1>6, <2>1 DEF Derived, full
<1>10. Derived(src, [tr EXCEPT !.attrs = Tail(@)])
    <2> DEFINE d == [tr EXCEPT !.attrs = Tail(@)]
    <2>1. /\ d \in Trait /\ d.lts = tr.lts /\ d.tys = tr.tys /\ d.generated = tr.generated
          /\ d.items = tr.items
        BY <1>0, <1>1, <1>3 DEF Trait
    <2> HIDE DEF d
    <2>2. Derived(src, d)
        BY <1>0, <1>1, <2>1 DEF Derived, full
    <2> QED
        BY <2>2 DEF d
<1> QED
    BY <1>3, <1>5, <1>8, <1>9, <1>10

(* Facts about the program that is compiled. *)
LEMMA SourceFacts ==
    ASSUME source \in Programs
    PROVE  /\ source.decl \in Trait /\ source.block \subseteq BlockItem
           /\ ~source.decl.generated /\ source.decl.attrs # <<>> /\ UniqueNames(source.decl)
           /\ source.decl.items \in SUBSET TraitItem /\ source.decl.tys \in SUBSET STRING
           /\ Derived(source.decl, source.decl)
           /\ \A m \in Fns(source.decl.items) :
                 /\ m \in Method /\ m.ret.form \in {"plain", "async", "impl"}
                 /\ m.outlives = {} /\ DynLt \notin m.lts \cup InputLts(m) /\ m.lts \cap Anonymous = {}
                 /\ \A a \in Mentions(m) : a[1] # "__Dyn"
                 /\ \A i \in source.decl.items : i.name \notin {sync_fn(m), is_sync_const(m)}
<1>1. source.decl \in Trait /\ ~source.decl.generated
    BY ProgramsAssumption
<1>2. source.decl.items \in SUBSET TraitItem /\ source.decl.tys \in SUBSET STRING
    BY <1>1 DEF Trait
<1> QED
    BY <1>1, <1>2, ProgramsAssumption, ItemKinds DEF Derived

LEMMA InitExpInv == Init => ExpInv
BY SourceFacts DEF Init, ExpInv, Declared

LEMMA NextExpInv == ExpInv /\ [Next]_vars => ExpInv'
<1> SUFFICES ASSUME ExpInv, [Next]_vars PROVE ExpInv'
    OBVIOUS
<1>0. source.decl \in Trait
    BY SourceFacts DEF ExpInv
<1>1. ASSUME NEW tr \in pending, dyn_trait_impl(tr) PROVE ExpInv'
    <2> DEFINE opts == Head(tr.attrs)
               ds == {generated_trait(tr, opts)} \cup IF opts.remote THEN {} ELSE {declared_trait(tr)}
    <2>1. Derived(source.decl, tr) /\ tr.attrs # <<>>
        BY DEF ExpInv, Declared
    <2>2. \A d \in ds : Derived(source.decl, d)
        BY <1>0, <2>1, DerivedStep
    <2>3. CASE dyn_trait_errors(tr) # {}
        BY <1>1, <2>3 DEF dyn_trait_impl, Fail, ExpInv, Declared
    <2>4. CASE dyn_trait_errors(tr) = {}
        <3>1. Emit(tr, ds) /\ source' = source
            BY <1>1, <2>4 DEF dyn_trait_impl
        <3> QED
            BY <2>2, <3>1 DEF Emit, ExpInv, Declared
    <2> QED
        BY <2>3, <2>4
<1>2. ASSUME NEW tr \in pending, dyn_object_impl(tr) PROVE ExpInv'
    <2> DEFINE ds == IF include_trait(tr) THEN {[tr EXCEPT !.attrs = Tail(@)]} ELSE {}
    <2>1. Derived(source.decl, tr) /\ tr.attrs # <<>>
        BY DEF ExpInv, Declared
    <2>2. \A d \in ds : Derived(source.decl, d)
        BY <1>0, <2>1, DerivedStep
    <2>3. CASE dyn_object_errors(tr) # {}
        BY <1>2, <2>3 DEF dyn_object_impl, Fail, ExpInv, Declared
    <2>4. CASE dyn_object_errors(tr) = {}
        <3>1. Emit(tr, ds) /\ source' = source
            BY <1>2, <2>4 DEF dyn_object_impl
        <3> QED
            BY <2>2, <3>1 DEF Emit, ExpInv, Declared
    <2> QED
        BY <2>3, <2>4
<1>3. ASSUME NEW m \in block, sync_impl(m) PROVE ExpInv'
    BY <1>3 DEF sync_impl, ExpInv, Declared
<1>4. CASE UNCHANGED vars
    BY <1>4 DEF vars, ExpInv, Declared
<1> QED
    BY <1>1, <1>2, <1>3, <1>4 DEF Next

(* The method of a generated trait with the name of a method of the source *)
(* is made from that method: names do not collide, whichever attribute the *)
(* trait was generated for.                                                *)
LEMMA Origin ==
    ASSUME ExpInv, NEW t \in Generated, NEW g \in Fns(t.items),
           NEW m \in Fns(source.decl.items), g.name = m.name
    PROVE  /\ m \in dyn_trait_methods(source.decl) /\ SameMethod(m, g)
           /\ has_rpit(m) => Rewritten(source.decl, m, g)
<1> DEFINE src == source.decl
           full == Full(src)
<1>1. /\ src \in Trait /\ UniqueNames(src) /\ src.items \in SUBSET TraitItem
      /\ src.tys \in SUBSET STRING /\ m \in Method
      /\ \A k \in Fns(src.items), i \in src.items : i.name # sync_fn(k)
    BY SourceFacts DEF ExpInv
<1>2. /\ full \in Trait /\ full.items = trait_items(src) /\ full.tys = src.tys
      /\ full.items \in SUBSET TraitItem
    BY <1>1, FullFacts DEF Trait
<1>3. t.items \in {dyn_items(src), dyn_items(full)} /\ t.tys \in SUBSET STRING
    BY <1>1 DEF ExpInv, Generated, Derived
<1>4. dyn_trait_methods(src) \subseteq Fns(src.items) /\ Fns(src.items) = src.items \cap Method
    BY <1>1, ItemKinds DEF dyn_trait_methods
<1>5. CASE t.items = dyn_items(src)
    <2>1. PICK n \in dyn_trait_methods(src) : g = dyn_item(src, n)
        BY <1>1, <1>3, <1>5, DynItemsFacts
    <2>2. SameMethod(n, g) /\ (has_rpit(n) => Rewritten(src, n, g))
        BY <1>1, <1>4, <2>1, DynItemFacts
    <2>3. n = m
        BY <1>1, <1>4, <2>2 DEF UniqueNames, SameMethod
    <2> QED
        BY <2>2, <2>3
<1>6. CASE t.items = dyn_items(full)
    <2> HIDE DEF full
    <2>1. PICK n \in dyn_trait_methods(full) : g = dyn_item(full, n)
        BY <1>2, <1>1, <1>3, <1>6, DynItemsFacts
    <2>2. n \in Method /\ SameMethod(n, g) /\ (has_rpit(n) => Rewritten(full, n, g))
        BY <1>1, <1>2, <2>1, DynItemFacts, ItemKinds DEF dyn_trait_methods
    <2>3. PICK k \in dyn_trait_methods(src) : n = unmarked(k) \/ n = sync_method(k)
        BY <1>1, <1>2, <2>1, TraitItemsFacts
    <2>4. n # sync_method(k)
        <3>1. k \in Method /\ sync_method(k).name = sync_fn(k)
            BY <1>4, SyncMethodFacts
        <3>2. m \in src.items /\ n.name = m.name /\ k \in Fns(src.items)
            BY <1>4, <2>2 DEF SameMethod
        <3> QED
            BY <1>1, <3>1, <3>2
    <2>5. k = m
        <3>1. k \in Method /\ unmarked(k).name = k.name
            BY <1>4, UnmarkedFacts
        <3>2. m \in src.items /\ n.name = m.name /\ k \in src.items
            BY <1>4, <2>2 DEF SameMethod
        <3> QED
            BY <1>1, <2>3, <2>4, <3>1, <3>2 DEF UniqueNames
    <2>6. /\ n = unmarked(m) /\ n.name = m.name /\ n.unsafety = m.unsafety /\ n.recv = m.recv
          /\ n.lts = m.lts /\ n.generic = m.generic /\ n.sized = m.sized
          /\ n.outlives = m.outlives /\ n.args = m.args /\ n.ret = m.ret
        BY <1>1, <2>3, <2>4, <2>5, UnmarkedFacts
    <2>7. has_rpit(n) = has_rpit(m) /\ CapturedLifetimes(n) = CapturedLifetimes(m)
        BY <2>6 DEF has_rpit, CapturedLifetimes
    <2>8. \A C : outlives_dyn(full, n, C) = outlives_dyn(src, m, C)
        BY <1>2, <2>6 DEF outlives_dyn
    <2>9. has_rpit(m) => Rewritten(src, m, g)
        BY <2>2, <2>6, <2>7, <2>8 DEF Rewritten
    <2> QED
        BY <2>2, <2>3, <2>5, <2>6, <2>9 DEF SameMethod
<1> QED
    BY <1>3, <1>5, <1>6

-----------------------------------------------------------------------------
(* Lifetimes.                                                              *)

LEMMA VisitedLts ==
    ASSUME NEW C, NEW ty \in SUBSET Mention
    PROVE  LtsOf(visit_type(C, ty)) = {visit_lifetime(C, l) : l \in LtsOf(ty)}
<1>1. \A l, k : Lt(l)[1] = "lt" /\ Lt(l)[2] = l
    BY DEF Lt
<1>2. \A a \in Mention : a[1] = "lt" => a = Lt(a[2])
    BY DEF Mention, Lt
<1>3. \A l : l \in LtsOf(ty) <=> Lt(l) \in ty
    BY <1>1, <1>2 DEF LtsOf
<1>4. ASSUME NEW l \in LtsOf(ty) PROVE visit_lifetime(C, l) \in LtsOf(visit_type(C, ty))
    <2>1. Lt(l) \in ty
        BY <1>3, <1>4
    <2>2. Lt(visit_lifetime(C, l)) \in visit_type(C, ty)
        BY <1>1, <2>1 DEF visit_type
    <2> QED
        BY <1>1, <2>2 DEF LtsOf
<1>5. ASSUME NEW v \in LtsOf(visit_type(C, ty)) PROVE \E l \in LtsOf(ty) : v = visit_lifetime(C, l)
    <2>1. PICK b \in visit_type(C, ty) : b[1] = "lt" /\ v = b[2]
        BY DEF LtsOf
    <2>2. PICK a \in ty : b = IF a[1] = "lt" THEN Lt(visit_lifetime(C, a[2])) ELSE a
        BY DEF visit_type
    <2>3. a[1] = "lt" /\ v = visit_lifetime(C, a[2])
        BY <1>1, <2>1, <2>2
    <2>4. a[2] \in LtsOf(ty)
        BY <2>3 DEF LtsOf
    <2> QED
        BY <2>3, <2>4
<1> QED
    BY <1>4, <1>5

(* The inputs of a rewritten method mention the visited lifetimes. *)
LEMMA VisitedInputs ==
    ASSUME NEW tr, NEW m \in Method, NEW g, Rewritten(tr, m, g)
    PROVE  InputLts(g) = {visit_lifetime(CapturedLifetimes(m), l) : l \in InputLts(m)}
<1> DEFINE C == CapturedLifetimes(m)
<1>1. /\ g.recv.lt = visit_lifetime(C, m.recv.lt)
      /\ g.args = [i \in DOMAIN m.args |-> visit_type(C, m.args[i])]
    BY DEF Rewritten
<1>2. DOMAIN g.args = DOMAIN m.args /\ \A i \in DOMAIN m.args : g.args[i] = visit_type(C, m.args[i])
    BY <1>1
<1>3. \A i \in DOMAIN m.args : m.args[i] \in SUBSET Mention
    BY DEF Method
<1>4. \A i \in DOMAIN m.args : LtsOf(g.args[i]) = {visit_lifetime(C, l) : l \in LtsOf(m.args[i])}
    BY <1>2, <1>3, VisitedLts
<1> HIDE DEF C
<1>5. \A v : v \in InputLts(g) <=>
            v = g.recv.lt \/ \E i \in DOMAIN m.args : v \in LtsOf(g.args[i])
    BY <1>2 DEF InputLts
<1>6. \A l : l \in InputLts(m) <=>
            l = m.recv.lt \/ \E i \in DOMAIN m.args : l \in LtsOf(m.args[i])
    BY DEF InputLts
<1>7. \A v : v \in InputLts(g) <=> \E l \in InputLts(m) : v = visit_lifetime(C, l)
    <2>1. ASSUME NEW v \in InputLts(g) PROVE \E l \in InputLts(m) : v = visit_lifetime(C, l)
        <3>1. CASE v = g.recv.lt
            BY <1>1, <1>6, <3>1
        <3>2. CASE \E i \in DOMAIN m.args : v \in LtsOf(g.args[i])
            BY <1>4, <1>6, <3>2
        <3> QED
            BY <1>5, <2>1, <3>1, <3>2
    <2>2. ASSUME NEW l \in InputLts(m) PROVE visit_lifetime(C, l) \in InputLts(g)
        <3>1. CASE l = m.recv.lt
            BY <1>1, <1>5, <3>1
        <3>2. CASE \E i \in DOMAIN m.args : l \in LtsOf(m.args[i])
            BY <1>4, <1>5, <3>2
        <3> QED
            BY <1>6, <2>2, <3>1, <3>2
    <2> QED
        BY <2>1, <2>2
<1> QED
    BY <1>7 DEF C

(* What the concrete result captures outlives '__dyn in the generated      *)
(* signature (CapturedLifetimes), for every program without lifetimes on   *)
(* the trait, captured ones hidden in arguments, or use<'_> where the      *)
(* receiver's lifetime has a name.                                         *)
THEOREM CapturesHold ==
    ASSUME \A p \in Programs : LifetimesWritten(p)
    PROVE  Spec => []CapturesOutlive
<1>1. ExpInv => CapturesOutlive
    <2> SUFFICES ASSUME ExpInv, NEW t \in Generated, NEW m \in Fns(source.decl.items),
                        NEW g \in Fns(t.items), g.name = m.name, has_rpit(m)
                 PROVE  /\ \A l \in t.lts : Outlives(g, l)
                        /\ m.ret.precise => \A l \in m.ret.use \ {"_"} : Outlives(g, l)
                        /\ "_" \in m.ret.use => Outlives(g, g.recv.lt)
                        /\ ~m.ret.precise => \A l \in InputLts(g) : Outlives(g, l)
                        /\ LtsOf(g.ret.ty) \cap Anonymous = {}
        BY DEF CapturesOutlive, ForRewritten
    <2> DEFINE C == CapturedLifetimes(m)
    <2>1. m \in dyn_trait_methods(source.decl) /\ Rewritten(source.decl, m, g)
        BY Origin
    <2>2. m \in Method /\ m.lts \cap Anonymous = {} /\ m.lts \in SUBSET STRING /\ m.ret \in Result
        BY SourceFacts DEF ExpInv, Method
    <2>3. /\ source.decl.lts = {} /\ t.lts = source.decl.lts
          /\ ~m.ret.precise => InputLts(m) \subseteq m.lts \cup Anonymous
          /\ m.ret.precise =>
                /\ m.ret.use \subseteq m.lts \cup {"_"}
                /\ LtsOf(m.ret.ty) \subseteq
                      m.ret.use \cup IF "_" \in m.ret.use THEN Anonymous ELSE {}
          /\ "_" \in m.ret.use => m.recv.lt \in Anonymous
        BY <2>1 DEF ExpInv, LifetimesWritten, Generated, Derived
    <2>4. \A l \in m.lts \cap C : Outlives(g, l)
        BY <2>1 DEF Rewritten, outlives_dyn, Outlives
    <2>5. m.ret.precise => \A l \in m.ret.use \ {"_"} : Outlives(g, l)
        BY <2>3, <2>4 DEF CapturedLifetimes
    <2>6. ASSUME "_" \in m.ret.use PROVE Outlives(g, g.recv.lt)
        <3>1. "_" \in C
            BY <2>6 DEF CapturedLifetimes
        <3>2. g.recv.lt = visit_lifetime(C, m.recv.lt) /\ m.recv.lt \in Anonymous
            BY <2>1, <2>3, <2>6 DEF Rewritten
        <3> HIDE DEF C
        <3>3. g.recv.lt = DynLt
            BY <3>1, <3>2 DEF visit_lifetime, Anonymous
        <3> QED
            BY <3>3 DEF Outlives
    <2>7. ~m.ret.precise => \A l \in InputLts(g) : Outlives(g, l)
        <3>1. ~m.ret.precise => m.lts \subseteq C /\ "_" \in C
            BY DEF CapturedLifetimes
        <3> HIDE DEF C
        <3>2. ~m.ret.precise => \A l \in m.lts \cup Anonymous : Outlives(g, visit_lifetime(C, l))
            BY <2>2, <2>4, <3>1 DEF visit_lifetime, Outlives, Anonymous
        <3>3. InputLts(g) = {visit_lifetime(C, l) : l \in InputLts(m)}
            BY <2>1, <2>2, VisitedInputs DEF C
        <3> QED
            BY <2>3, <3>2, <3>3
    <2>8. LtsOf(g.ret.ty) \cap Anonymous = {}
        <3>1. m.ret.ty \in SUBSET Mention
            BY <2>2 DEF Result
        <3>2. LtsOf(g.ret.ty) = {visit_lifetime(C, l) : l \in LtsOf(m.ret.ty)}
            BY <2>1, <3>1, VisitedLts DEF Rewritten
        <3>3. CASE ~m.ret.precise
            <4>1. "_" \in C
                BY <3>3 DEF CapturedLifetimes
            <4> HIDE DEF C
            <4>2. \A l : visit_lifetime(C, l) \notin Anonymous
                BY <4>1 DEF visit_lifetime, Anonymous, DynLt
            <4> QED
                BY <3>2, <4>2
        <3>4. CASE m.ret.precise
            <4>1. C = m.ret.use
                BY <3>4 DEF CapturedLifetimes
            <4>2. \A l \in LtsOf(m.ret.ty) : l \in Anonymous => "_" \in C
                BY <2>2, <2>3, <3>4, <4>1 DEF Anonymous
            <4> HIDE DEF C
            <4>3. \A l : (l \in Anonymous => "_" \in C) => visit_lifetime(C, l) \notin Anonymous
                BY DEF visit_lifetime, Anonymous, DynLt
            <4> QED
                BY <3>2, <4>2, <4>3
        <3> QED
            BY <3>3, <3>4
    <2> QED
        BY <2>3, <2>5, <2>7, <2>8, <2>6
<1> QED
    BY <1>1, InitExpInv, NextExpInv, PTL DEF Spec

(* What use<..> leaves out is not tied to '__dyn (CapturedLifetimes), for  *)
(* every program.                                                          *)
THEOREM UncapturedStaysFree == Spec => []UncapturedFree
<1>1. ExpInv => UncapturedFree
    <2> SUFFICES ASSUME ExpInv, NEW t \in Generated, NEW m \in Fns(source.decl.items),
                        NEW g \in Fns(t.items), g.name = m.name, has_rpit(m), m.ret.precise
                 PROVE  /\ "_" \notin m.ret.use => DynLt \notin InputLts(g)
                        /\ \A l \in m.lts \ m.ret.use : Lt(l) \notin g.outlives
        BY DEF UncapturedFree, ForRewritten
    <2> DEFINE C == CapturedLifetimes(m)
    <2>1. Rewritten(source.decl, m, g) /\ C = m.ret.use
        BY Origin DEF CapturedLifetimes
    <2>2. m \in Method /\ m.outlives = {} /\ DynLt \notin InputLts(m)
        BY SourceFacts DEF ExpInv
    <2>3. "_" \notin m.ret.use => DynLt \notin InputLts(g)
        <3>1. InputLts(g) = {visit_lifetime(C, l) : l \in InputLts(m)}
            BY <2>1, <2>2, VisitedInputs
        <3> HIDE DEF C
        <3>2. \A l : "_" \notin C /\ l # DynLt => visit_lifetime(C, l) # DynLt
            BY DEF visit_lifetime, DynLt
        <3> QED
            BY <2>1, <2>2, <3>1, <3>2
    <2>4. ASSUME NEW l \in m.lts \ m.ret.use PROVE Lt(l) \notin g.outlives
        <3>1. g.outlives = outlives_dyn(source.decl, m, m.ret.use)
            BY <2>1, <2>2 DEF Rewritten
        <3>2. \A k, a : Lt(l) = Lt(k) => l = k
            BY DEF Lt
        <3>3. \A a : Lt(l) # <<"T", a>> /\ Lt(l) # SelfTy
            BY DEF Lt, SelfTy
        <3> QED
            BY <3>1, <3>2, <3>3 DEF outlives_dyn
    <2> QED
        BY <2>3, <2>4
<1> QED
    BY <1>1, InitExpInv, NextExpInv, PTL DEF Spec

-----------------------------------------------------------------------------
(* Dyn-compatibility.                                                      *)

LEMMA NotLifetimes == \A a \in SelfOrImpl : a[1] # "lt"
<1>1. SelfTy[1] = "Self"
    BY DEF SelfTy
<1>2. \A w, v : <<w, v>>[1] = w
    OBVIOUS
<1>3. ASSUME NEW a \in SelfOrImpl PROVE a = SelfTy \/ a = <<"impl", "">>
    BY DEF SelfOrImpl
<1> QED
    BY <1>1, <1>2, <1>3

(* The visit of lifetimes adds no mention but of lifetimes. *)
LEMMA VisitMentions ==
    ASSUME NEW tr, NEW m \in Method, NEW g, Rewritten(tr, m, g), NEW a \in Mentions(g)
    PROVE  a \in Mentions(m) \/ a[1] = "lt"
<1> DEFINE C == CapturedLifetimes(m)
<1>1. /\ g.args = [i \in DOMAIN m.args |-> visit_type(C, m.args[i])]
      /\ g.ret.ty = visit_type(C, m.ret.ty)
    BY DEF Rewritten
<1>2. /\ DOMAIN g.args = DOMAIN m.args
      /\ \A i \in DOMAIN m.args : g.args[i] = visit_type(C, m.args[i])
    BY <1>1
<1> HIDE DEF C
<1>3. \A ty : a \in visit_type(C, ty) => a \in ty \/ a[1] = "lt"
    BY DEF visit_type, Lt
<1>4. CASE a \in g.ret.ty
    BY <1>1, <1>3, <1>4 DEF Mentions
<1>5. CASE \E k \in DOMAIN g.args : a \in g.args[k]
    BY <1>2, <1>3, <1>5 DEF Mentions
<1> QED
    BY <1>4, <1>5 DEF Mentions

(* A method that dyn_trait generates mentions what its method mentions. *)
LEMMA DynItemMentions ==
    ASSUME NEW tr, tr.tys \in SUBSET STRING, NEW m \in Method, NEW a \in Mentions(dyn_item(tr, m))
    PROVE  a \in Mentions(m) \/ a[1] = "lt"
<1>1. CASE has_rpit(m)
    BY <1>1, DynItemFacts, VisitMentions
<1>2. CASE ~has_rpit(m)
    <2>1. dyn_item(tr, m).args = m.args /\ dyn_item(tr, m).ret.ty = m.ret.ty
        BY <1>2, DynItemFacts
    <2> QED
        BY <2>1 DEF Mentions
<1> QED
    BY <1>1, <1>2

(* What dyn_trait generates from methods that mention neither is           *)
(* dyn-compatible.                                                         *)
LEMMA DynItemsSafe ==
    ASSUME NEW tr, tr.items \in SUBSET TraitItem, tr.tys \in SUBSET STRING,
           \A m \in dyn_trait_methods(tr) : m.sized \/ Mentions(m) \cap SelfOrImpl = {},
           NEW i \in dyn_items(tr)
    PROVE  DynSafe(i)
<1>1. /\ dyn_trait_methods(tr) = {m \in tr.items \cap Method : is_dispatchable(m)}
      /\ dyn_trait_types(tr) = {ty \in tr.items \cap AssocType : is_not_generic(ty)}
    BY ItemKinds DEF dyn_trait_methods, dyn_trait_types
<1>2. CASE i \in dyn_trait_types(tr)
    <2>1. i.kind = "type" /\ ~i.generic
        BY <1>1, <1>2 DEF is_not_generic, AssocType
    <2> QED
        BY <2>1 DEF DynSafe
<1>3. CASE \E m \in dyn_trait_methods(tr) : i = dyn_item(tr, m)
    <2>1. PICK m \in dyn_trait_methods(tr) : i = dyn_item(tr, m)
        BY <1>3
    <2>2. m \in Method /\ is_dispatchable(m)
        BY <1>1
    <2>3. /\ i \in Method /\ SameMethod(m, i) /\ ~has_rpit(i)
        BY <2>1, <2>2, DynItemFacts
    <2>4. i.sized \/ Mentions(i) \cap SelfOrImpl = {}
        <3>1. \A a \in SelfOrImpl : a[1] # "lt"
            BY NotLifetimes
        <3>2. i.sized = m.sized
            BY <2>3 DEF SameMethod
        <3> QED
            BY <2>1, <2>2, <3>1, <3>2, DynItemMentions
    <2>5. i.kind = "fn" /\ i.recv.form # "none" /\ ~i.generic /\ i.ret.form \notin {"async", "impl"}
        BY <2>2, <2>3 DEF Method, is_dispatchable, SameMethod, has_rpit
    <2> QED
        BY <2>4, <2>5 DEF DynSafe
<1> QED
    BY <1>2, <1>3 DEF dyn_items

(* Generated traits are dyn-compatible (is_dispatchable, is_not_generic and*)
(* the conversion of impl Trait), for every program whose methods do not   *)
(* mention Self or impl Trait where dyn_trait does not look.               *)
THEOREM DynCompatibleHolds ==
    ASSUME \A p \in Programs : Dispatchable(p)
    PROVE  Spec => []DynCompatible
<1>1. ExpInv => DynCompatible
    <2> SUFFICES ASSUME ExpInv, NEW t \in Generated, NEW i \in t.items PROVE DynSafe(i)
        BY DEF DynCompatible
    <2> DEFINE src == source.decl
               full == Full(src)
    <2>1. /\ src \in Trait /\ src.items \in SUBSET TraitItem /\ src.tys \in SUBSET STRING
          /\ \A m \in dyn_trait_methods(src) : m.sized \/ Mentions(m) \cap SelfOrImpl = {}
        BY SourceFacts DEF ExpInv, Dispatchable
    <2>2. /\ full.items = trait_items(src) /\ full.tys \in SUBSET STRING
          /\ full.items \in SUBSET TraitItem
        BY <2>1, FullFacts DEF Trait
    <2>3. ASSUME NEW n \in dyn_trait_methods(full) PROVE n.sized \/ Mentions(n) \cap SelfOrImpl = {}
        <3>1. PICK k \in dyn_trait_methods(src) : n = unmarked(k) \/ n = sync_method(k)
            BY <2>1, <2>2, TraitItemsFacts
        <3>2. k \in Method
            BY <2>1, ItemKinds DEF dyn_trait_methods
        <3>3. n.sized = k.sized /\ n.args = k.args /\ n.ret.ty = k.ret.ty
            BY <3>1, <3>2, UnmarkedFacts, SyncMethodFacts
        <3> QED
            BY <2>1, <3>3 DEF Mentions
    <2>4. i \in dyn_items(src) \/ i \in dyn_items(full)
        BY DEF ExpInv, Generated, Derived
    <2> HIDE DEF full
    <2> QED
        BY <2>1, <2>2, <2>3, <2>4, DynItemsSafe
<1> QED
    BY <1>1, InitExpInv, NextExpInv, PTL DEF Spec

=============================================================================
