------------------------------ MODULE Pipeline ------------------------------
(* channel/Pipeline*, HandlerContext-inl.h, Handler.h and StaticPipeline.h: a  *)
(* list of contexts, each binding one handler into the pipeline, the links     *)
(* finalize() draws between them, and the events that follow those links while *)
(* handlers may rearrange the pipeline under them.  A context is its creation  *)
(* number, 0 is nullptr.                                                       *)
EXTENDS Naturals, Sequences, FiniteSets, SequencesExt

CONSTANTS
  Handlers,    \* handler objects
  Dir,         \* [Handlers -> {"IN", "OUT", "BOTH"}]
  Rin, Rout,   \* [Handlers -> types]: what read() takes and what fireRead() passes on
  Win, Wout,   \* [Handlers -> types]: what write() takes and what fireWrite() passes on
  R, W,        \* the message types of the pipeline
  Classes,     \* sets of handlers of one class, the argument of remove<H>()
  StaticHandlers, \* the handlers of a StaticPipeline, front to back
  MaxCtx       \* bound on the contexts ever created

VARIABLES
  handlerOf,   \* handlerOf[n]: the handler context n was made for
  ctxs_, inCtxs_, outCtxs_,
  nextIn_, nextOut_, attached_,       \* per context
  attachCount_, ctx_,                 \* per handler (HandlerBase)
  front_, back_, owner_,
  finalized,   \* no change since the last finalize() that returned
  at,          \* the context whose handler has control, with the event's side
  life         \* "held", "released" (the last shared_ptr is gone) or "destroyed"

shape == <<handlerOf, ctxs_, inCtxs_, outCtxs_>>
links == <<nextIn_, nextOut_, front_, back_>>
binding == <<attached_, attachCount_, ctx_>>
vars == <<shape, links, binding, owner_, finalized, at, life>>

Ids == 1..MaxCtx
Idle == [ctx |-> 0, side |-> "IN"]
Takes(c, side) == Dir[handlerOf[c]] \in {side, "BOTH"}
ContextsOf(S) == {i \in DOMAIN ctxs_ : handlerOf[ctxs_[i]] \in S}

-----------------------------------------------------------------------------
(* The binding of handlers to contexts, on a record b = [att, cnt, ctx].       *)
attachContext(b, h, c) ==
  [b EXCEPT !.cnt[h] = @ + 1, !.ctx[h] = IF b.cnt[h] = 0 THEN c ELSE 0]

detachContext(b, h) == [b EXCEPT !.cnt[h] = IF @ >= 1 THEN @ - 1 ELSE @, !.ctx[h] = 0]

attachPipeline(b, c, hs) ==
  IF c \in b.att THEN b ELSE attachContext([b EXCEPT !.att = @ \cup {c}], hs[c], c)
detachPipeline(b, c, hs) == detachContext([b EXCEPT !.att = @ \ {c}], hs[c])

Binding == [att |-> attached_, cnt |-> attachCount_, ctx |-> ctx_]
Bind(b) == attached_' = b.att /\ attachCount_' = b.cnt /\ ctx_' = b.ctx

detachAll(cs) == FoldLeft(LAMBDA b, c : detachPipeline(b, c, handlerOf), Binding, cs)

(* finalize() on the links: the first neighbours whose types do not match stop *)
(* it (setNextIn throws), with the links before them already drawn.            *)
Bad(seq, Out, In, hs) ==
  {i \in 1..(Len(seq) - 1) : Out[hs[seq[i]]] # In[hs[seq[i + 1]]]}

Linked(next, seq, upto) ==
  [c \in Ids |->
     IF \E i \in 1..upto : seq[i] = c
     THEN LET i == CHOOSE i \in 1..upto : seq[i] = c
          IN IF i = Len(seq) THEN 0 ELSE seq[i + 1]
     ELSE next[c]]

First(seq, In, T, hs) == IF seq # <<>> /\ In[hs[seq[1]]] = T THEN seq[1] ELSE 0

finalizeIn(seq, hs) ==
  LET bad == Bad(seq, Rout, Rin, hs)
      stop == IF bad = {} THEN Len(seq) ELSE (CHOOSE i \in bad : \A j \in bad : i <= j) - 1
  IN [ok |-> bad = {}, next |-> Linked(nextIn_, seq, stop)]

finalizeOut(seq, hs) ==
  LET rev == Reverse(seq)
      bad == Bad(rev, Wout, Win, hs)
      stop == IF bad = {} THEN Len(rev) ELSE (CHOOSE i \in bad : \A j \in bad : i <= j) - 1
  IN [ok |-> bad = {}, next |-> Linked(nextOut_, rev, stop)]

Alive == life = "held"

finalize ==
  /\ Alive
  /\ LET in == finalizeIn(inCtxs_, handlerOf)
         out == finalizeOut(outCtxs_, handlerOf)
     IN /\ front_' = First(inCtxs_, Rin, R, handlerOf)
        /\ nextIn_' = in.next
        /\ back_' = IF in.ok THEN First(Reverse(outCtxs_), Win, W, handlerOf) ELSE back_
        /\ nextOut_' = IF in.ok THEN out.next ELSE nextOut_
        /\ finalized' = (in.ok /\ out.ok)
        /\ IF in.ok /\ out.ok
           THEN Bind(FoldLeft(LAMBDA b, c : attachPipeline(b, c, handlerOf),
                              Binding, Reverse(ctxs_)))
           ELSE UNCHANGED binding
  /\ UNCHANGED <<shape, owner_, at, life>>

-----------------------------------------------------------------------------
(* Building and rearranging.                                                   *)
addHelper(h, front) ==
  LET n == Len(handlerOf) + 1
      Put(seq) == IF front THEN <<n>> \o seq ELSE Append(seq, n)
  IN /\ Alive
     /\ n <= MaxCtx
     /\ handlerOf' = Append(handlerOf, h)
     /\ ctxs_' = Put(ctxs_)
     /\ inCtxs_' = IF Dir[h] \in {"IN", "BOTH"} THEN Put(inCtxs_) ELSE inCtxs_
     /\ outCtxs_' = IF Dir[h] \in {"OUT", "BOTH"} THEN Put(outCtxs_) ELSE outCtxs_
     /\ finalized' = FALSE
     /\ UNCHANGED <<links, binding, owner_, at, life>>
addBack(h) == addHelper(h, FALSE)
addFront(h) == addHelper(h, TRUE)

(* Mutation: the outbound list keeps the contexts that leave. *)
removeAt_InOnly(I) ==
  LET gone == {ctxs_[i] : i \in I}
      Without(seq) == SelectSeq(seq, LAMBDA c : c \notin gone)
  IN /\ Bind(detachAll(SelectSeq(ctxs_, LAMBDA c : c \in gone)))
     /\ ctxs_' = Without(ctxs_)
     /\ inCtxs_' = Without(inCtxs_)
     /\ finalized' = FALSE
     /\ at' = IF at.ctx \in gone THEN Idle ELSE at
     /\ UNCHANGED <<handlerOf, outCtxs_, links, owner_, life>>

(* The contexts at the positions I of ctxs_ leave: detached, front to back,    *)
(* and taken out of the three lists; links to them stay until finalize().  A   *)
(* handler that takes its own context out has nothing left to forward with.    *)
removeAt(I) ==
  LET gone == {ctxs_[i] : i \in I}
      Without(seq) == SelectSeq(seq, LAMBDA c : c \notin gone)
  IN /\ Bind(detachAll(SelectSeq(ctxs_, LAMBDA c : c \in gone)))
     /\ ctxs_' = Without(ctxs_)
     /\ inCtxs_' = Without(inCtxs_)
     /\ outCtxs_' = Without(outCtxs_)
     /\ finalized' = FALSE
     /\ at' = IF at.ctx \in gone THEN Idle ELSE at
     /\ UNCHANGED <<handlerOf, links, owner_, life>>

removeHelper(S) == Alive /\ ContextsOf(S) # {} /\ removeAt(ContextsOf(S))
remove == \E S \in Classes \cup {{h} : h \in Handlers} : removeHelper(S)
removeFront == Alive /\ ctxs_ # <<>> /\ removeAt({1})
removeBack == Alive /\ ctxs_ # <<>> /\ removeAt({Len(ctxs_)})

setOwner(h) ==
  /\ Alive
  /\ ContextsOf({h}) # {}
  /\ LET i == CHOOSE i \in ContextsOf({h}) : \A j \in ContextsOf({h}) : i <= j
     IN owner_' = ctxs_[i]
  /\ UNCHANGED <<shape, links, binding, finalized, at, life>>

-----------------------------------------------------------------------------
(* Events.  An event enters at front_ or back_ and each handler either passes  *)
(* it on along the link of its context or ends it.  The pipeline is asked for  *)
(* an event only when the last change was followed by finalize(), which        *)
(* Pipeline-inl.h leaves to its users (the TODO at finalize()); read and write *)
(* on a pipeline without front_ or back_ throw and change nothing.             *)
enter(side) ==
  LET first == IF side = "IN" THEN front_ ELSE back_ IN
  /\ Alive /\ at = Idle /\ finalized
  /\ first # 0
  /\ at' = [ctx |-> first, side |-> side]
  /\ UNCHANGED <<shape, links, binding, owner_, finalized, life>>

(* fireRead, fireReadEOF, fireReadException, fireTransportActive and           *)
(* fireTransportInactive follow nextIn_, fireWrite, fireWriteException and     *)
(* fireClose follow nextOut_; at the end of the chain the event is over.       *)
follow(next) == at' = IF next = 0 THEN Idle ELSE [at EXCEPT !.ctx = next]
fireIn == at.side = "IN" /\ follow(nextIn_[at.ctx])
fireOut == at.side = "OUT" /\ follow(nextOut_[at.ctx])
fire ==
  /\ at # Idle /\ finalized
  /\ fireIn \/ fireOut
  /\ UNCHANGED <<shape, links, binding, owner_, finalized, life>>

(* The handler returns without passing the event on. *)
consume ==
  /\ at # Idle
  /\ at' = Idle
  /\ UNCHANGED <<shape, links, binding, owner_, finalized, life>>

(* The owner drops the last shared_ptr, maybe from inside an event; the guard  *)
(* every context takes (pipelineWeak_.lock()) holds the pipeline until the     *)
(* event is over.                                                              *)
release ==
  /\ Alive
  /\ life' = "released"
  /\ UNCHANGED <<shape, links, binding, owner_, finalized, at>>

(* ~Pipeline, and ~StaticPipeline of the outermost level: detachHandlers().    *)
destroy ==
  /\ life = "released" /\ at = Idle
  /\ life' = "destroyed"
  /\ Bind(detachAll(SelectSeq(ctxs_, LAMBDA c : c # owner_)))
  /\ UNCHANGED <<shape, links, owner_, finalized, at>>

-----------------------------------------------------------------------------
(* Pipeline::create() gives an empty pipeline, StaticPipeline::create() one    *)
(* that holds its handlers and is finalized.                                   *)
Init ==
  /\ \E hs \in {<<>>, StaticHandlers} :
       LET all == [i \in 1..Len(hs) |-> i]
           Side(d) == SelectSeq(all, LAMBDA c : Dir[hs[c]] \in {d, "BOTH"})
           none == [c \in Ids |-> 0]
           b == FoldLeft(LAMBDA x, c : attachPipeline(x, c, hs),
                         [att |-> {}, cnt |-> [h \in Handlers |-> 0],
                          ctx |-> [h \in Handlers |-> 0]], Reverse(all))
       IN /\ handlerOf = hs
          /\ ctxs_ = all /\ inCtxs_ = Side("IN") /\ outCtxs_ = Side("OUT")
          /\ nextIn_ = Linked(none, Side("IN"), Len(Side("IN")))
          /\ nextOut_ = Linked(none, Reverse(Side("OUT")), Len(Side("OUT")))
          /\ front_ = First(Side("IN"), Rin, R, hs)
          /\ back_ = First(Reverse(Side("OUT")), Win, W, hs)
          /\ attached_ = b.att /\ attachCount_ = b.cnt /\ ctx_ = b.ctx
          /\ finalized = (hs # <<>>)
  /\ owner_ = 0 /\ at = Idle /\ life = "held"

Next ==
  \/ \E h \in Handlers : addBack(h) \/ addFront(h) \/ setOwner(h)
  \/ remove \/ removeFront \/ removeBack
  \/ finalize
  \/ \E side \in {"IN", "OUT"} : enter(side)
  \/ fire
  \/ consume
  \/ release
  \/ destroy

Spec == Init /\ [][Next]_vars

-----------------------------------------------------------------------------
TypeOK ==
  /\ handlerOf \in Seq(Handlers) /\ Len(handlerOf) <= MaxCtx
  /\ Range(ctxs_) \subseteq DOMAIN handlerOf
  /\ nextIn_ \in [Ids -> 0..MaxCtx] /\ nextOut_ \in [Ids -> 0..MaxCtx]
  /\ attached_ \subseteq Ids
  /\ attachCount_ \in [Handlers -> 0..MaxCtx] /\ ctx_ \in [Handlers -> 0..MaxCtx]
  /\ {front_, back_, owner_} \subseteq 0..MaxCtx
  /\ finalized \in BOOLEAN
  /\ at \in [ctx : 0..MaxCtx, side : {"IN", "OUT"}]
  /\ life \in {"held", "released", "destroyed"}

(* The inbound and the outbound list hold exactly the contexts of ctxs_ that   *)
(* work in that direction, in the same order: the CHECKs of removeAt() that    *)
(* look a context up in them never fail.                                       *)
SidesMatch ==
  /\ inCtxs_ = SelectSeq(ctxs_, LAMBDA c : Takes(c, "IN"))
  /\ outCtxs_ = SelectSeq(ctxs_, LAMBDA c : Takes(c, "OUT"))

(* On a finalized pipeline the links lead an inbound event through every       *)
(* inbound context front to back and an outbound one through every outbound    *)
(* context back to front, whatever was added, removed or failed to link before.*)
FinalizedLinks ==
  finalized =>
    /\ \A i \in DOMAIN inCtxs_ :
         nextIn_[inCtxs_[i]] = IF i = Len(inCtxs_) THEN 0 ELSE inCtxs_[i + 1]
    /\ \A i \in DOMAIN outCtxs_ :
         nextOut_[outCtxs_[i]] = IF i = 1 THEN 0 ELSE outCtxs_[i - 1]
    /\ front_ \in {0} \cup {inCtxs_[i] : i \in DOMAIN inCtxs_ \cap {1}}
    /\ back_ \in {0} \cup {outCtxs_[i] : i \in DOMAIN outCtxs_ \cap {Len(outCtxs_)}}

(* HandlerBase::getContext() never hands a handler a context it has been       *)
(* detached from, even when the handler sits in the pipeline twice.            *)
ContextIsAttached == \A h \in Handlers : ctx_[h] # 0 => ctx_[h] \in attached_

(* The context whose handler runs is in the pipeline and the pipeline exists:  *)
(* neither a removal by another handler nor the release of the last reference  *)
(* takes either away under it.                                                 *)
EventOnLiveContext ==
  at # Idle => at.ctx \in Range(ctxs_) /\ life # "destroyed"

(* A destroyed pipeline has detached every handler but the owner's.            *)
DestroyedIsDetached ==
  life = "destroyed" => attached_ \cap Range(ctxs_) \subseteq {owner_}
=============================================================================
