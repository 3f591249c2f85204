-------------------------- MODULE AppContextProofs --------------------------
(***************************************************************************)
(* What AppContext::handle_chunk does to the receive context, for every    *)
(* capacity and every data: the lemmas the proofs about the normal and the *)
(* swap application share.                                                 *)
(***************************************************************************)
EXTENDS AppContext, TLAPS

\* Whatever the data, AppContext::handle_chunk leaves a well-formed context
\* within the buffer's capacity, and ends with one of its status words.
LEMMA HandleChunkType ==
  ASSUME NEW c \in Context, Len(c.raw_data) <= MAX,
         NEW first \in BOOLEAN,
         NEW d \in Seq(Symbol) \cup {Malformed}
  PROVE  /\ HandleChunk(c, first, d).ctx \in Context
         /\ Len(HandleChunk(c, first, d).ctx.raw_data) <= MAX
         /\ HandleChunk(c, first, d).sw \in {"Ok", "WrongApduLength",
                                             "RequestDataTooLarge"}
<1>1. ASSUME NEW e \in Context, Len(e.raw_data) <= MAX, NEW s \in Seq(Symbol)
      PROVE  /\ Extend(e, s).ctx \in Context
             /\ Len(Extend(e, s).ctx.raw_data) <= MAX
             /\ Extend(e, s).sw \in {"Ok", "RequestDataTooLarge"}
  <2>1. CASE Fits(e, s)
    <3>1. e.raw_data \in Seq(Symbol)
      BY DEF Context
    <3>2. /\ e.raw_data \o s \in Seq(Symbol)
          /\ Len(e.raw_data \o s) = Len(e.raw_data) + Len(s)
      BY <1>1, <3>1
    <3>3. [e EXCEPT !.raw_data = @ \o s] \in Context
      BY <1>1, <3>2 DEF Context
    <3> QED
      BY <1>1, <2>1, <3>2, <3>3 DEF Extend, Fits, Context
  <2>2. CASE ~Fits(e, s)
    BY <1>1, <2>2 DEF Extend
  <2> QED
    BY <2>1, <2>2
<1>2. Reset(c) \in Context /\ Reset(c).raw_data = << >>
  <2>1. << >> \in Seq(Symbol)
    OBVIOUS
  <2> QED
    BY <2>1 DEF Context, Reset, EmptyContext
<1>3. CASE d = Malformed
  BY <1>3 DEF HandleChunk
<1>4. CASE d # Malformed /\ ~first
  BY <1>1, <1>4 DEF HandleChunk
<1>5. CASE d # Malformed /\ first /\ ~HasPath(d)
  BY <1>2, <1>5, ContextAssumption DEF HandleChunk
<1>6. CASE d # Malformed /\ first /\ HasPath(d)
  <2> DEFINE e == [Reset(c) EXCEPT !.path = Head(d)]
  <2>1. d \in Seq(Symbol) /\ d # << >> /\ Head(d) \in Path
    BY <1>6 DEF HasPath
  <2>2. Tail(d) \in Seq(Symbol)
    BY <2>1
  <2>3. ASSUME NEW r \in Context, NEW p \in Path
        PROVE  /\ [r EXCEPT !.path = p] \in Context
               /\ [r EXCEPT !.path = p].raw_data = r.raw_data
    BY <2>3 DEF Context
  <2>4. e \in Context /\ e.raw_data = << >>
    BY <1>2, <2>1, <2>3
  <2>5. HandleChunk(c, first, d) = Extend(e, Tail(d))
    BY <1>6 DEF HandleChunk
  <2> QED
    <3>1. Len(e.raw_data) <= MAX
      BY <2>4, ContextAssumption
    <3> QED
      BY <1>1, <2>2, <2>4, <2>5, <3>1
<1> QED
  BY <1>3, <1>4, <1>5, <1>6

LEMMA EmptyContextType ==
  EmptyContext \in Context /\ Len(EmptyContext.raw_data) <= MAX
<1>1. << >> \in Seq(Symbol) /\ Len(<< >>) = 0
  OBVIOUS
<1> QED
  BY <1>1, ContextAssumption DEF EmptyContext, Context

\* A first chunk that is accepted leaves a context whose review is not over.
LEMMA FirstChunkUnfinished ==
  ASSUME NEW c, NEW d, HandleChunk(c, TRUE, d).sw = "Ok"
  PROVE  ~HandleChunk(c, TRUE, d).ctx.review_finished
<1>1. d # Malformed /\ HasPath(d)
  BY DEF HandleChunk
<1> DEFINE e == [Reset(c) EXCEPT !.path = Head(d)]
<1>2. HandleChunk(c, TRUE, d) = Extend(e, Tail(d))
  BY <1>1 DEF HandleChunk
<1>3. e \in [path: {Head(d)}, raw_data: {<< >>}, review_finished: {FALSE}]
  BY DEF Reset, EmptyContext
<1> HIDE DEF e
<1>4. Extend(e, Tail(d)).ctx.review_finished = e.review_finished
  BY <1>3 DEF Extend
<1> QED
  BY <1>2, <1>3, <1>4

\* No chunk marks a context whose review is not over.
LEMMA NothingFinishes ==
  ASSUME NEW c \in Context, ~c.review_finished, NEW first \in BOOLEAN, NEW d
  PROVE  ~HandleChunk(c, first, d).ctx.review_finished
<1>1. ASSUME NEW e, "review_finished" \in DOMAIN e, ~e.review_finished, NEW s
      PROVE  ~Extend(e, s).ctx.review_finished
  BY <1>1 DEF Extend
<1> DEFINE e == [Reset(c) EXCEPT !.path = Head(d)]
<1>2. e \in [path: {Head(d)}, raw_data: {<< >>}, review_finished: {FALSE}]
  BY DEF Reset, EmptyContext
<1>3. HandleChunk(c, first, d).ctx \in {c, Reset(c), Extend(c, d).ctx, Extend(e, Tail(d)).ctx}
  BY DEF HandleChunk
<1>4. ~Reset(c).review_finished
  BY DEF Reset, EmptyContext
<1>5. ~Extend(c, d).ctx.review_finished
  BY <1>1 DEF Context
<1> HIDE DEF e
<1>6. ~Extend(e, Tail(d)).ctx.review_finished
  BY <1>1, <1>2
<1> QED
  BY <1>3, <1>4, <1>5, <1>6

\* The payload of a chunk: a first one begins with the path.
PayloadOf(first, d) == IF first THEN Tail(d) ELSE d

\* What the buffer holds before a chunk is appended.
KeptBy(first, c) == IF first THEN << >> ELSE c.raw_data

\* A chunk that is accepted is appended as a whole, to nothing if it is a
\* first one, and its path is the context's from then on.
LEMMA AcceptedChunk ==
  ASSUME NEW c \in Context, NEW first \in BOOLEAN,
         NEW d \in Seq(Symbol) \cup {Malformed},
         HandleChunk(c, first, d).sw = "Ok"
  PROVE  LET r == HandleChunk(c, first, d).ctx
         IN  /\ d # Malformed /\ d \in Seq(Symbol)
             /\ first => HasPath(d)
             /\ r.raw_data = KeptBy(first, c) \o PayloadOf(first, d)
             /\ r.path = IF first THEN Head(d) ELSE c.path
             /\ IF first THEN ~r.review_finished
                         ELSE r.review_finished = c.review_finished
<1>1. d # Malformed /\ (first => HasPath(d))
  BY DEF HandleChunk
<1>2. ASSUME NEW e \in Context, NEW s, Extend(e, s).sw = "Ok"
      PROVE  /\ Extend(e, s).ctx.raw_data = e.raw_data \o s
             /\ Extend(e, s).ctx.path = e.path
             /\ Extend(e, s).ctx.review_finished = e.review_finished
  BY <1>2 DEF Extend, Context
<1>3. CASE ~first
  <2>1. HandleChunk(c, first, d) = Extend(c, d)
    BY <1>1, <1>3 DEF HandleChunk
  <2> QED
    BY <1>1, <1>2, <1>3, <2>1 DEF KeptBy, PayloadOf, Context
<1>4. CASE first
  <2> DEFINE e == [Reset(c) EXCEPT !.path = Head(d)]
  <2>1. HandleChunk(c, first, d) = Extend(e, Tail(d)) /\ Head(d) \in Path
    BY <1>1, <1>4 DEF HandleChunk, HasPath
  <2>2. e \in [path: {Head(d)}, raw_data: {<< >>}, review_finished: {FALSE}]
    BY DEF Reset, EmptyContext
  <2>3. << >> \in Seq(Symbol)
    OBVIOUS
  <2> HIDE DEF e
  <2>4. e \in Context
    BY <2>1, <2>2, <2>3 DEF Context
  <2>5. /\ e.raw_data = << >> /\ e.path = Head(d)
        /\ e.review_finished = FALSE
    BY <2>2
  <2>6. Extend(e, Tail(d)).sw = "Ok"
    BY <2>1
  <2>7. /\ Extend(e, Tail(d)).ctx.raw_data = << >> \o Tail(d)
        /\ Extend(e, Tail(d)).ctx.path = Head(d)
        /\ ~Extend(e, Tail(d)).ctx.review_finished
    BY <1>2, <2>4, <2>5, <2>6
  <2> QED
    BY <1>1, <1>4, <2>1, <2>7 DEF KeptBy, PayloadOf
<1> QED
  BY <1>3, <1>4
=============================================================================
