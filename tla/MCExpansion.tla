---------------------------- MODULE MCExpansion ----------------------------
(* Small programs for Expansion.                                           *)
EXTENDS Expansion

Recv(form, mut, lt) == [form |-> form, mut |-> mut, lt |-> lt]
Ref == Recv("ref", FALSE, "")
Mut == Recv("ref", TRUE, "")
PinMut == Recv("pin", TRUE, "")
NoRecv == Recv("none", FALSE, "_")

Ret(form, bound, output, ty) ==
    [form |-> form, bound |-> bound, output |-> output, ty |-> ty, precise |-> FALSE, use |-> {}]
Plain(ty) == Ret("plain", "", FALSE, ty)
Async(ty) == Ret("async", "", FALSE, ty)
ImplFuture(ty) == Ret("impl", "Future", TRUE, ty)
ImplIterator(ty) == Ret("impl", "Iterator", FALSE, ty)
Use(ret, lts) == [ret EXCEPT !.precise = TRUE, !.use = lts]

NamedLts(recv, args, ret) ==
    ({recv.lt} \cup UNION {LtsOf(args[i]) : i \in DOMAIN args} \cup LtsOf(ret.ty)) \ Anonymous

Fn(name, recv, args, ret) ==
    [kind |-> "fn", name |-> name, unsafety |-> FALSE, recv |-> recv,
     lts |-> NamedLts(recv, args, ret), generic |-> FALSE, sized |-> FALSE, outlives |-> {},
     args |-> args, ret |-> ret, attr |-> FALSE, maybe_sync |-> FALSE]
MaybeSyncFn(m) == [m EXCEPT !.attr = TRUE, !.maybe_sync = TRUE]
Attr(m) == [m EXCEPT !.attr = TRUE]
Type(name, generic, where) ==
    [kind |-> "type", name |-> <<name>>, generic |-> generic, where |-> where]
Item == Type("Item", FALSE, FALSE)

Decl(attrs, helpers, lts, tys, items) ==
    [name |-> <<"Trait">>, attrs |-> attrs, helpers |-> helpers, lts |-> lts, tys |-> tys, storages |-> {},
     generated |-> FALSE, items |-> items]

(* The client implements every method that has no body of its own; marks   *)
(* are the names marked #[sync], asyncs those that are declared impl Future*)
(* and implemented as async fn.                                            *)
BlockOf(decl, marks, asyncs) ==
    {[kind |-> i.kind, name |-> i.name,
      asyncness |-> i.kind = "fn" /\ (i.ret.form = "async" \/ i.name \in asyncs),
      sync |-> i.name \in marks] : i \in decl.items}
Program(decl, marks, asyncs) == [decl |-> decl, block |-> BlockOf(decl, marks, asyncs)]
Unmarked(decls) == {Program(d, {}, {}) : d \in decls}

A(macro, remote, bounds) ==
    [macro |-> macro, remote |-> remote, bounds |-> bounds, rename |-> <<>>]
DT == A("dyn_trait", FALSE, {})
DTRemote == A("dyn_trait", TRUE, {})
DTRenamed == [DT EXCEPT !.rename = <<"Other">>]
DO(bounds) == A("dyn_object", FALSE, bounds)
DORemote(bounds) == A("dyn_object", TRUE, bounds)

-----------------------------------------------------------------------------
(* One method of every shape, in a trait with or without type parameter.   *)
Recvs == {Ref, Mut, PinMut, Recv("ref", FALSE, "_"), Recv("ref", TRUE, "a")}
ArgLists ==
    {<<>>, <<{Lt("")}>>, <<{Lt("a")}>>, <<{Lt("_")}, {Lt("b")}>>, <<{Lt("a"), Lt("b")}>>}
Outputs == {{}, {Lt("")}, {Lt("a")}}
Rets ==
    UNION {{Plain(o), Async(o), ImplFuture(o), ImplIterator(o)} : o \in Outputs}
    \cup {Use(ImplFuture({}), {}), Use(ImplFuture({}), {"a"}), Use(ImplFuture({Lt("a")}), {"a"}),
          Use(ImplFuture({}), {"a", "b"}), Use(ImplFuture({}), {"_"}),
          Use(ImplFuture({Lt("")}), {"_"}), Use(ImplFuture({}), {"_", "a"})}

(* Elided lifetimes of the result are the receiver's. *)
ValidFn(m) ==
    /\ m.ret.use \subseteq m.lts \cup {"_"}
    /\ "_" \in m.ret.use => m.recv.lt \in Anonymous
Methods == {m \in {Fn(<<"m">>, r, as, o) : r \in Recvs, as \in ArgLists, o \in Rets} : ValidFn(m)}
Marked == Methods \cup {Attr(m) : m \in Methods} \cup {MaybeSyncFn(m) : m \in Methods}

(* Items that are filtered out, next to one that is kept. *)
Filtered ==
    {[Fn(<<"gen">>, Ref, <<>>, Plain({})) EXCEPT !.generic = TRUE],
     Fn(<<"make">>, NoRecv, <<>>, Plain({SelfTy})),
     Fn(<<"consume">>, Recv("value", FALSE, "_"), <<>>, Plain({})),
     Type("Gat", TRUE, FALSE), Type("Sized", FALSE, TRUE),
     [kind |-> "const", name |-> <<"N">>]}

Signatures ==
    Unmarked({Decl(<<DT>>, <<>>, {}, tys, {m}) : tys \in {{}, {"T"}}, m \in Marked})

(* Several attributes, on declarations that the macros accept or refuse.   *)
Plains == {Fn(<<"get">>, Ref, <<{Lt("")}>>, Plain({<<"Self", "Item">>})),
           [Fn(<<"set">>, Mut, <<{<<"Self", "Item">>}>>, Plain({})) EXCEPT !.unsafety = TRUE],
           Fn(<<"poll">>, PinMut, <<{Lt("_")}>>, Plain({<<"Self", "Item">>}))}
Futures == {MaybeSyncFn(Fn(<<"call">>, Ref, <<{Lt("")}>>, Async({}))),
            Fn(<<"iter">>, Mut, <<>>, ImplIterator({<<"Self", "Item">>}))}
(* The remote trait is one without maybe_sync. *)
RemoteFutures == {Fn(<<"call">>, Ref, <<{Lt("")}>>, Async({})), Fn(<<"iter">>, Mut, <<>>, ImplIterator({}))}

BoundLists == {<<{}>>, <<{}, {"Send"}>>, <<{"Send"}, {"Sync"}, {"Send", "Sync"}>>}
Objects(mk(_), bs) == [i \in DOMAIN bs |-> mk(bs[i])]

Attributes ==
    Unmarked(
        {Decl(<<DT>>, Objects(DO, bs), {}, {}, {Item} \cup Plains \cup Futures \cup Filtered) :
            bs \in BoundLists}
        \cup {Decl(<<DT>>, Objects(DO, bs), {}, {"T"}, Futures) : bs \in BoundLists}
        \cup {Decl(<<DTRemote>>, Objects(DO, bs), {}, {}, {Item} \cup Plains \cup RemoteFutures) :
            bs \in BoundLists}
        \cup {Decl(<<DT, DTRenamed>>, <<>>, {}, {}, {Item} \cup Plains \cup Futures \cup Filtered)}
        \cup {Decl(Objects(DO, bs), <<>>, {}, tys, {Item} \cup ms) :
            bs \in BoundLists, tys \in {{}, {"T"}}, ms \in SUBSET Plains}
        \cup {Decl(Objects(DORemote, bs), <<>>, {}, tys, {Item} \cup ms) :
            bs \in BoundLists, tys \in {{}, {"T"}}, ms \in SUBSET Plains}
        \cup {Decl(Objects(DO, bs), <<>>, {}, {}, {i} \cup Plains \cup {Item}) :
            bs \in BoundLists, i \in {x \in Filtered : ~DynSafe(x)}})

(* Impl blocks with #[sync] on the methods that are declared maybe_sync,   *)
(* where one declared impl Future is implemented as async fn or not.       *)
SyncDecl == Decl(<<DT>>, <<DO({})>>, {}, {},
    {MaybeSyncFn(Fn(<<"call">>, Ref, <<>>, Async({}))), MaybeSyncFn(Fn(<<"run">>, Mut, <<>>, Async({}))),
     MaybeSyncFn(Fn(<<"fut">>, Ref, <<>>, ImplFuture({}))), Fn(<<"other">>, Ref, <<>>, Async({}))})
SyncBlocks == {Program(SyncDecl, marks, asyncs) :
    marks \in SUBSET {<<"call">>, <<"run">>, <<"fut">>}, asyncs \in SUBSET {<<"fut">>}}

MCPrograms == Signatures \cup Attributes \cup SyncBlocks

(* These programs satisfy the hypotheses of all theorems. *)
ASSUME \A p \in MCPrograms :
    LifetimesWritten(p) /\ Dispatchable(p) /\ Completable(p) /\ Erasable(p) /\ Implemented(p)

-----------------------------------------------------------------------------
(* Programs outside of what the macros get right.                          *)

(* Methods that are not dyn-compatible for what they mention. *)
NotFiltered == Unmarked({Decl(<<DT>>, <<>>, {}, {}, {i}) : i \in
    {Fn(<<"dup">>, Ref, <<>>, Plain({SelfTy})), Fn(<<"each">>, Ref, <<{<<"impl", "">>}>>, Plain({}))}})

(* A generic trait with an associated type. *)
GenericAssoc == Unmarked({Decl(<<DT>>, <<>>, {}, {"T"}, {Item})})

(* An async method in a trait with a lifetime parameter. *)
OtherLifetimes == Unmarked({Decl(<<DT>>, <<>>, {"t"}, {}, {Fn(<<"m">>, Ref, <<>>, Async({}))})})

(* Methods that mention Self and are kept out of the trait object by       *)
(* `where Self: Sized`.                                                    *)
SizedSelf == Unmarked({Decl(<<DO({})>>, <<>>, {}, {}, {[m EXCEPT !.sized = TRUE]}) : m \in
    {Fn(<<"merge">>, Ref, <<{Lt(""), SelfTy}>>, Plain({})), Fn(<<"dup">>, Ref, <<>>, Plain({SelfTy}))}})
=============================================================================
