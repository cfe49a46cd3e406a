---------------------------- MODULE WriterProofs ----------------------------
(***************************************************************************)
(* Proofs about Writer, for every value of its constants.                  *)
(*                                                                         *)
(* The heart of the argument is Holds(b, s, a): the buffer value b holds   *)
(* exactly the stream positions s .. a-1.  One lemma per operation of      *)
(* write_buffer says how it moves s and a, from one lemma about the chunk  *)
(* list (joined, extended, shortened); the inductive invariant is that an  *)
(* open writer's buffer Holds sent .. accepted-1, and that the outstanding *)
(* operation is the window next() marked in _wait.                         *)
(***************************************************************************)
EXTENDS Writer, Integers, SequenceTheorems, TLAPS

(* set_options leaves a positive Maxbuf, at least as large as Minbuf. *)
LEMMA OptionsNormalised ==
  /\ SepSize \in Nat /\ MaxSize \in Nat
  /\ Minbuf \in Nat \ {0} /\ Maxbuf \in Nat \ {0} /\ Minbuf <= Maxbuf
BY WriteOptionsAssumption DEF Bufsize, Minbuf, Maxbuf

NonEmpty(l) == Len(l) # 0

(* The chunks of l from offset o on are the positions s .. a-1, in order.  *)
Run(l, o, s, a) ==
  /\ \A i \in 1 .. Len(l) : l[i].lo < l[i].hi /\ l[i].hi <= a
  /\ \A i \in 1 .. Len(l) - 1 : l[i].hi = l[i + 1].lo
  /\ ~NonEmpty(l) => o = 0 /\ s = a
  /\ NonEmpty(l) => /\ l[1].lo + o = s /\ o < Length(l[1])
                    /\ l[Len(l)].hi = a

(* From list l to list m the front chunk stays or grows at its end. *)
FrontKept(l, m) == NonEmpty(l) => /\ m[1].lo = l[1].lo
                                  /\ Length(m[1]) >= Length(l[1])

Holds(b, s, a) ==
  /\ b \in Buffer /\ s \in Nat /\ a \in Nat
  /\ a = s + b.size
  /\ Run(b.list, b.offset, s, a)

(* A chunk's fields, and its length as the prover's arithmetic needs it. *)
LEMMA ChunkFacts ==
  ASSUME NEW c \in Chunk
  PROVE  /\ c.lo \in Nat /\ c.hi \in Nat /\ c.cap \in Nat
         /\ Length(c) \in Int /\ Length(c) = c.hi - c.lo
BY DEF Chunk, Length

(* A buffer's fields. *)
LEMMA BufferFacts ==
  ASSUME NEW b \in Buffer
  PROVE  /\ b.size \in Nat /\ b.offset \in Nat /\ b.wait \in Nat
         /\ b.list \in Seq(Chunk)
BY DEF Buffer

LEMMA ReserveNat ==
  ASSUME NEW x \in Nat, NEW y \in Int PROVE Reserve(x, y) \in Nat
BY DEF Reserve

(* The empty buffer holds the empty run at any position. *)
LEMMA EmptyHolds == ASSUME NEW s \in Nat PROVE Holds(EmptyBuffer, s, s)
BY DEF Holds, Run, NonEmpty, EmptyBuffer, Buffer, Chunk

(* The last chunk of a run may grow at its end. *)
LEMMA RunJoin ==
  ASSUME NEW l \in Seq(Chunk), NEW o \in Nat, NEW s \in Nat, NEW a \in Nat,
         Run(l, o, s, a), NonEmpty(l),
         NEW c \in Chunk, c.lo = l[Len(l)].lo, c.hi >= a
  PROVE  /\ [l EXCEPT ![Len(l)] = c] \in Seq(Chunk)
         /\ NonEmpty([l EXCEPT ![Len(l)] = c])
         /\ Run([l EXCEPT ![Len(l)] = c], o, s, c.hi)
         /\ FrontKept(l, [l EXCEPT ![Len(l)] = c])
<1> DEFINE k == Len(l)
           m == [l EXCEPT ![k] = c]
           e == c.hi
<1>0. e \in Nat /\ e >= a
  BY ChunkFacts
<1> HIDE DEF e
<1>1. k \in Nat /\ k # 0 /\ k \in 1 .. k /\ 1 \in 1 .. k
  BY LenProperties DEF NonEmpty
<1>2. /\ m \in Seq(Chunk) /\ Len(m) = k
      /\ \A i \in 1 .. k : m[i] = IF i = k THEN c ELSE l[i]
  BY <1>1, ExceptSeq
<1> HIDE DEF m
<1>3. \A i \in 1 .. k : l[i] \in Chunk
  BY ElementOfSeq
<1>4. \A i \in 1 .. k : l[i].lo < l[i].hi /\ l[i].hi <= a
  BY DEF Run
<1>5. \A i \in 1 .. k - 1 : l[i].hi = l[i + 1].lo
  BY DEF Run
<1>6. l[1].lo + o = s /\ o < Length(l[1]) /\ l[k].hi = a
  BY DEF Run
<1>7. l[k].lo \in Nat /\ l[k].hi \in Nat /\ l[k].lo < l[k].hi
  BY <1>1, <1>3, <1>4, ChunkFacts
<1>8. \A i \in 1 .. k : m[i].lo < m[i].hi /\ m[i].hi <= e
  <2> TAKE i \in 1 .. k
  <2>1. CASE i = k
    <3>1. m[i] = c
      BY <1>2, <2>1
    <3>2. l[k].lo < e
      BY <1>0, <1>6, <1>7
    <3>3. c.lo < c.hi /\ c.hi <= e
      BY <1>0, <3>2 DEF e
    <3> QED BY <3>1, <3>3
  <2>2. CASE i # k
    <3>1. m[i] = l[i] /\ l[i].hi \in Nat
      BY <1>2, <1>3, <2>2, ChunkFacts
    <3>2. l[i].lo < l[i].hi /\ l[i].hi <= a
      BY <1>4
    <3>3. l[i].hi <= e
      BY <1>0, <3>1, <3>2
    <3> QED BY <3>1, <3>2, <3>3
  <2> QED BY <2>1, <2>2
<1>9. \A i \in 1 .. k - 1 : m[i].hi = m[i + 1].lo
  <2> TAKE i \in 1 .. k - 1
  <2>1. i \in 1 .. k /\ i + 1 \in 1 .. k /\ i # k
    BY <1>1
  <2>2. m[i] = l[i] /\ m[i + 1].lo = l[i + 1].lo
    BY <1>2, <2>1
  <2> QED BY <1>5, <2>2
<1>10. m[k].hi = e
  BY <1>1, <1>2 DEF e
<1>11. /\ m[1].lo = l[1].lo /\ Length(m[1]) >= Length(l[1])
       /\ Length(m[1]) \in Int /\ Length(l[1]) \in Int
  <2>1. CASE k = 1
    <3>1. m[1] = c /\ l[1] = l[k]
      BY <1>2, <2>1
    <3>2. Length(c) = e - l[k].lo /\ Length(l[k]) = l[k].hi - l[k].lo
      BY <1>1, <1>3, ChunkFacts DEF e
    <3>3. Length(c) >= Length(l[k]) /\ Length(c) \in Int /\ Length(l[k]) \in Int
      BY <1>0, <1>6, <1>7, <3>2
    <3> QED BY <3>1, <3>3
  <2>2. CASE k # 1
    <3>1. m[1] = l[1] /\ l[1] \in Chunk
      BY <1>1, <1>2, <1>3, <2>2
    <3>2. Length(l[1]) \in Int
      BY <3>1, ChunkFacts
    <3> QED BY <3>1, <3>2
  <2> QED BY <2>1, <2>2
<1>12. m[1].lo + o = s /\ o < Length(m[1])
  BY <1>6, <1>11
<1>13. NonEmpty(m) /\ Run(m, o, s, e)
  BY <1>1, <1>2, <1>8, <1>9, <1>10, <1>12 DEF Run, NonEmpty
<1> QED BY <1>2, <1>11, <1>13 DEF FrontKept, m, e

(* A run may be extended by a chunk that begins where it ends. *)
LEMMA RunAppend ==
  ASSUME NEW l \in Seq(Chunk), NEW o \in Nat, NEW s \in Nat, NEW a \in Nat,
         Run(l, o, s, a),
         NEW c \in Chunk, c.lo = a, c.hi > a
  PROVE  /\ Append(l, c) \in Seq(Chunk)
         /\ NonEmpty(Append(l, c))
         /\ Run(Append(l, c), o, s, c.hi)
         /\ FrontKept(l, Append(l, c))
<1> DEFINE k == Len(l)
           m == Append(l, c)
           e == c.hi
<1>0. e \in Nat /\ e > a
  BY ChunkFacts
<1> HIDE DEF e
<1>1. /\ m \in Seq(Chunk) /\ Len(m) = k + 1 /\ m[k + 1] = c
      /\ \A i \in 1 .. k : m[i] = l[i]
  BY AppendProperties
<1> HIDE DEF m
<1>2. k \in Nat /\ NonEmpty(m)
  BY <1>1, LenProperties DEF NonEmpty
<1>3. \A i \in 1 .. k : l[i] \in Chunk
  BY ElementOfSeq
<1>4. \A i \in 1 .. k : l[i].lo < l[i].hi /\ l[i].hi <= a
  BY DEF Run
<1>5. \A i \in 1 .. k - 1 : l[i].hi = l[i + 1].lo
  BY DEF Run
<1>6. \A i \in 1 .. k + 1 : m[i].lo < m[i].hi /\ m[i].hi <= e
  <2> TAKE i \in 1 .. k + 1
  <2>1. CASE i = k + 1
    <3>1. m[i] = c
      BY <1>1, <2>1
    <3> QED BY <1>0, <3>1 DEF e
  <2>2. CASE i # k + 1
    <3>1. i \in 1 .. k
      BY <1>2, <2>2
    <3>2. m[i] = l[i] /\ l[i].hi \in Nat
      BY <1>1, <1>3, <3>1, ChunkFacts
    <3>3. l[i].lo < l[i].hi /\ l[i].hi <= a
      BY <1>4, <3>1
    <3>4. l[i].hi <= e
      BY <1>0, <3>2, <3>3
    <3> QED BY <3>2, <3>3, <3>4
  <2> QED BY <2>1, <2>2
<1>7. \A i \in 1 .. k : m[i].hi = m[i + 1].lo
  <2> TAKE i \in 1 .. k
  <2>1. CASE i = k
    <3>1. m[i] = l[k] /\ m[i + 1] = c
      BY <1>1, <2>1
    <3>2. l[k].hi = a
      BY <1>2, <2>1 DEF Run, NonEmpty
    <3> QED BY <3>1, <3>2
  <2>2. CASE i # k
    <3>1. i \in 1 .. k - 1 /\ i + 1 \in 1 .. k
      BY <1>2, <2>2
    <3>2. m[i] = l[i] /\ m[i + 1] = l[i + 1]
      BY <1>1, <3>1
    <3> QED BY <1>5, <3>1, <3>2
  <2> QED BY <2>1, <2>2
<1>8. m[1].lo + o = s /\ o < Length(m[1])
  <2>1. CASE k = 0
    <3>1. m[1] = c
      BY <1>1, <2>1
    <3>2. o = 0 /\ s = a
      BY <2>1 DEF Run, NonEmpty
    <3>3. Length(c) = e - a
      BY ChunkFacts DEF e
    <3> QED BY <1>0, <3>1, <3>2, <3>3
  <2>2. CASE k # 0
    <3>1. m[1] = l[1]
      BY <1>1, <1>2, <2>2
    <3> QED BY <2>2, <3>1 DEF Run, NonEmpty
  <2> QED BY <2>1, <2>2
<1>9. Run(m, o, s, e)
  <2>1. Len(m) - 1 = k /\ m[Len(m)].hi = e
    BY <1>1, <1>2 DEF e
  <2> QED BY <1>1, <1>2, <1>6, <1>7, <1>8, <2>1 DEF Run
<1>10. FrontKept(l, m)
  <2>1. NonEmpty(l) => m[1] = l[1] /\ 1 \in 1 .. k
    BY <1>1, <1>2 DEF NonEmpty
  <2>2. NonEmpty(l) => Length(l[1]) \in Int
    BY <1>3, <2>1, ChunkFacts
  <2> QED BY <2>1, <2>2 DEF FrontKept
<1> QED BY <1>1, <1>2, <1>9, <1>10 DEF m, e

(* Without its first chunk a run begins where that chunk ends. *)
LEMMA RunTail ==
  ASSUME NEW l \in Seq(Chunk), NEW o \in Nat, NEW s \in Nat, NEW a \in Nat,
         Run(l, o, s, a), NonEmpty(l)
  PROVE  /\ Tail(l) \in Seq(Chunk)
         /\ Run(Tail(l), 0, l[1].hi, a)
<1> DEFINE k == Len(l)
           m == Tail(l)
<1>0. l # <<>>
  BY EmptySeq DEF NonEmpty
<1>1. k \in Nat /\ k # 0
  BY LenProperties DEF NonEmpty
<1>2. /\ m \in Seq(Chunk) /\ Len(m) = k - 1
      /\ \A i \in 1 .. k - 1 : m[i] = l[i + 1]
  BY <1>0, HeadTailProperties
<1> HIDE DEF m
<1>3. \A i \in 1 .. k : l[i] \in Chunk
  BY ElementOfSeq
<1>4. \A i \in 1 .. k : l[i].lo < l[i].hi /\ l[i].hi <= a
  BY DEF Run
<1>5. \A i \in 1 .. k - 1 : l[i].hi = l[i + 1].lo
  BY DEF Run
<1>6. l[k].hi = a
  BY DEF Run
<1>7. \A i \in 1 .. k - 1 : m[i].lo < m[i].hi /\ m[i].hi <= a
  <2> TAKE i \in 1 .. k - 1
  <2>1. i + 1 \in 1 .. k
    BY <1>1
  <2> QED BY <1>2, <1>4, <2>1
<1>8. \A i \in 1 .. (k - 1) - 1 : m[i].hi = m[i + 1].lo
  <2> TAKE i \in 1 .. (k - 1) - 1
  <2>1. i \in 1 .. k - 1 /\ i + 1 \in 1 .. k - 1
    BY <1>1
  <2>2. m[i] = l[i + 1] /\ m[i + 1] = l[(i + 1) + 1]
    BY <1>2, <2>1
  <2> QED BY <1>5, <2>1, <2>2
<1>9. CASE k = 1
  <2>1. l[1].hi = a
    BY <1>6, <1>9
  <2>2. Len(m) = 0
    BY <1>2, <1>9
  <2> QED BY <1>2, <1>7, <1>8, <2>1, <2>2 DEF Run, NonEmpty, m
<1>10. CASE k # 1
  <2>0. k > 1
    <3>1. \A j \in Nat : j # 0 /\ j # 1 => j > 1
      OBVIOUS
    <3> QED BY <1>1, <1>10, <3>1
  <2>1. 1 \in 1 .. k - 1 /\ k - 1 \in 1 .. k - 1 /\ 2 \in 1 .. k
    BY <1>1, <2>0
  <2>2. m[1] = l[2] /\ l[1].hi = l[2].lo
    BY <1>2, <1>5, <2>1
  <2>3. m[k - 1] = l[(k - 1) + 1] /\ (k - 1) + 1 = k
    BY <1>1, <1>2, <2>1
  <2>4. l[2].lo \in Nat /\ Length(l[2]) = l[2].hi - l[2].lo /\ l[2].hi \in Nat
    BY <1>3, <2>1, ChunkFacts
  <2>5. l[2].lo < l[2].hi
    BY <1>4, <2>1
  <2>6. 0 < Length(l[2]) /\ l[2].lo + 0 = l[2].lo
    BY <2>4, <2>5
  <2>7. m[1].lo + 0 = l[1].hi /\ 0 < Length(m[1]) /\ m[k - 1].hi = a
    BY <1>6, <2>2, <2>3, <2>6
  <2>8. NonEmpty(m)
    BY <1>1, <1>2, <1>10 DEF NonEmpty
  <2>9. Run(m, 0, l[1].hi, a)
    BY <1>2, <1>7, <1>8, <2>7, <2>8 DEF Run
  <2> QED BY <1>2, <2>9 DEF m
<1> QED BY <1>9, <1>10

(* attach() of a block at position a extends the run by the block and the  *)
(* separator, and leaves the front chunk's start, the offset and _wait.    *)
LEMMA AttachHolds ==
  ASSUME NEW b, NEW s, NEW a, Holds(b, s, a),
         NEW n \in Nat, NEW slack \in Nat,
         NEW d, d = [lo |-> a, hi |-> a + n, cap |-> n + slack],
         ~Ignored(d)
  PROVE  /\ Holds(Attach(b, d), s, a + n + SepSize)
         /\ Attach(b, d).wait = b.wait
         /\ Attach(b, d).offset = b.offset
         /\ NonEmpty(Attach(b, d).list)
         /\ FrontKept(b.list, Attach(b, d).list)
<1> DEFINE k == Len(b.list)
           r == Attach(b, d)
           size == b.size + n + SepSize
           e == a + n + SepSize
<1>1. /\ a \in Nat /\ s \in Nat /\ SepSize \in Nat /\ a = s + b.size
      /\ b.size \in Nat /\ b.offset \in Nat /\ b.wait \in Nat
  BY BufferFacts, OptionsNormalised DEF Holds
<1>2. b.list \in Seq(Chunk) /\ Run(b.list, b.offset, s, a)
  BY BufferFacts DEF Holds
<1>3. Length(d) = n /\ n + SepSize > 0
  BY <1>1 DEF Length, Ignored
<1>4. e > a /\ e \in Nat /\ size \in Nat /\ e = s + size
  BY <1>1, <1>3
<1>5. /\ size = b.size + Length(d) + SepSize
  BY <1>3
<1>6. CASE k # 0 /\ Joins(b.list[k], d)
  <2> DEFINE c == Coalesced(b.list[k], d)
             list == [b.list EXCEPT ![k] = c]
  <2>1. NonEmpty(b.list) /\ b.list[k] \in Chunk /\ b.list[k].hi = a
    <3>1. NonEmpty(b.list)
      BY <1>6 DEF NonEmpty
    <3>2. k \in 1 .. k
      BY <1>2, <1>6, LenProperties
    <3> QED BY <1>2, <3>1, <3>2, ElementOfSeq DEF Run
  <2>2. /\ b.list[k].lo \in Nat /\ b.list[k].cap \in Nat
        /\ Length(b.list[k]) \in Int
    BY <2>1, ChunkFacts
  <2>3. c \in Chunk /\ c.lo = b.list[k].lo /\ c.hi = e
    <3>1. c.lo = b.list[k].lo /\ c.hi = e
      BY <1>3, <2>1 DEF Coalesced
    <3>2. Reserve(b.list[k].cap, Length(b.list[k]) + n + SepSize) \in Nat
      <4>1. Length(b.list[k]) + n + SepSize \in Int
        BY <1>1, <2>2
      <4> QED BY <2>2, <4>1, ReserveNat, Zenon
    <3> QED BY <1>3, <1>4, <2>1, <2>2, <3>1, <3>2 DEF Coalesced, Chunk
  <2>4. r = Queued(b, size, list)
    BY <1>5, <1>6 DEF Attach
  <2>5. /\ list \in Seq(Chunk) /\ NonEmpty(list) /\ Run(list, b.offset, s, e)
        /\ FrontKept(b.list, list)
    <3>0. e >= a
      BY <1>1, <1>4
    <3>1. c.hi >= a /\ c.hi = e
      BY <2>3, <3>0
    <3> HIDE DEF c, e
    <3>2. /\ list \in Seq(Chunk) /\ NonEmpty(list) /\ Run(list, b.offset, s, c.hi)
          /\ FrontKept(b.list, list)
      BY <1>1, <1>2, <2>1, <2>3, <3>1, RunJoin
    <3> HIDE DEF list
    <3> QED BY <3>1, <3>2
  <2> HIDE DEF list, c
  <2>6. /\ r \in Buffer /\ r.size = size /\ r.offset = b.offset
        /\ r.wait = b.wait /\ r.list = list
    <3> HIDE DEF size, r
    <3> QED BY <1>1, <1>4, <2>4, <2>5 DEF Queued, Buffer
  <2>7. Holds(r, s, e)
    BY <1>1, <1>4, <2>5, <2>6 DEF Holds
  <2> QED BY <2>5, <2>6, <2>7
<1>7. CASE ~(k # 0 /\ Joins(b.list[k], d))
  <2> DEFINE c == WithSep(d)
             list == Append(b.list, c)
  <2>1. c \in Chunk /\ c.lo = a /\ c.hi = e
    <3>1. Reserve(n + slack, n + SepSize) \in Nat
      BY <1>1 DEF Reserve
    <3> QED BY <1>1, <1>3, <1>4, <3>1 DEF WithSep, Chunk
  <2>2. r = Queued(b, size, list)
    BY <1>5, <1>7 DEF Attach
  <2>3. /\ list \in Seq(Chunk) /\ NonEmpty(list) /\ Run(list, b.offset, s, e)
        /\ FrontKept(b.list, list)
    <3>1. c.hi > a /\ c.hi = e
      BY <1>1, <1>4, <2>1
    <3> HIDE DEF c, e
    <3>2. /\ list \in Seq(Chunk) /\ NonEmpty(list) /\ Run(list, b.offset, s, c.hi)
          /\ FrontKept(b.list, list)
      BY <1>1, <1>2, <2>1, <3>1, RunAppend
    <3> HIDE DEF list
    <3> QED BY <3>1, <3>2
  <2> HIDE DEF list, c
  <2>4. /\ r \in Buffer /\ r.size = size /\ r.offset = b.offset
        /\ r.wait = b.wait /\ r.list = list
    <3> HIDE DEF size, r
    <3> QED BY <1>1, <1>4, <2>2, <2>3 DEF Queued, Buffer
  <2>5. Holds(r, s, e)
    BY <1>1, <1>4, <2>3, <2>4 DEF Holds
  <2> QED BY <2>3, <2>4, <2>5
<1> QED BY <1>6, <1>7

(* next() marks a non-empty window that starts at the first position held  *)
(* and stays in the front chunk.                                           *)
LEMMA NextHolds ==
  ASSUME NEW b, NEW s, NEW a, Holds(b, s, a), Ready(b)
  PROVE  /\ Holds(Next(b), s, a)
         /\ CurSize(b) \in Nat \ {0}
         /\ Next(b).wait = CurSize(b)
         /\ Next(b).list = b.list /\ Next(b).offset = b.offset
         /\ NonEmpty(b.list) /\ b.list[1] \in Chunk
         /\ b.list[1].lo + b.offset = s
         /\ b.offset + CurSize(b) <= Length(b.list[1])
<1>1. b \in Buffer /\ b.list \in Seq(Chunk) /\ b.offset \in Nat
  BY BufferFacts DEF Holds
<1>2. NonEmpty(b.list)
  BY <1>1, EmptySeq DEF Ready, NonEmpty
<1>3. b.list[1] \in Chunk
  <2>1. 1 \in 1 .. Len(b.list)
    BY <1>1, <1>2, LenProperties DEF NonEmpty
  <2> QED BY <1>1, <2>1, ElementOfSeq
<1>4. b.list[1].lo + b.offset = s /\ b.offset < Length(b.list[1])
  BY <1>2 DEF Holds, Run
<1>5. CurSize(b) \in Nat \ {0} /\ b.offset + CurSize(b) <= Length(b.list[1])
  <2>1. b.offset \in Nat /\ Length(b.list[1]) \in Int
    BY <1>1, <1>3, ChunkFacts
  <2>2. b.offset < Length(b.list[1])
    BY <1>4
  <2> QED BY <2>1, <2>2, OptionsNormalised DEF CurSize
<1>6. Next(b) = [b EXCEPT !.wait = CurSize(b)]
  BY DEF Next
<1>7. /\ Next(b) \in Buffer /\ Next(b).wait = CurSize(b)
      /\ Next(b).list = b.list /\ Next(b).offset = b.offset
      /\ Next(b).size = b.size
  BY <1>1, <1>5, <1>6 DEF Buffer
<1>8. Holds(Next(b), s, a)
  BY <1>7 DEF Holds
<1> QED BY <1>2, <1>3, <1>4, <1>5, <1>7, <1>8

(* confirm() of n bytes inside the front chunk is never refused; it takes  *)
(* n positions off the run and makes the buffer ready again.               *)
LEMMA ConfirmHolds ==
  ASSUME NEW b, NEW s, NEW a, Holds(b, s, a), b.wait # 0,
         NEW n \in Nat, n > 0, NonEmpty(b.list),
         b.offset + n <= Length(b.list[1])
  PROVE  /\ CanConfirm(b, n)
         /\ Holds(Confirm(b, n), s + n, a)
         /\ Confirm(b, n).wait = 0
<1> DEFINE r == Confirm(b, n)
           done == b.offset + n = Length(b.list[1])
           rest == Tail(b.list)
<1>1. /\ s \in Nat /\ a \in Nat /\ b.size \in Nat /\ b.offset \in Nat
      /\ a = s + b.size
  BY BufferFacts DEF Holds
<1>2. b.list \in Seq(Chunk) /\ Run(b.list, b.offset, s, a)
  BY BufferFacts DEF Holds
<1>3. 1 \in 1 .. Len(b.list)
  BY <1>2, LenProperties DEF NonEmpty
<1>4. /\ b.list[1].lo + b.offset = s /\ b.list[1].hi <= a
  BY <1>2, <1>3 DEF Run
<1>5. /\ b.list[1].lo \in Nat /\ b.list[1].hi \in Nat
      /\ Length(b.list[1]) = b.list[1].hi - b.list[1].lo
  BY <1>2, <1>3, ElementOfSeq, ChunkFacts
<1>6. s + n <= b.list[1].hi /\ b.size >= n
  BY <1>1, <1>4, <1>5
<1>7. CanConfirm(b, n)
  BY <1>6 DEF CanConfirm
<1>8. b.size - n \in Nat /\ s + n \in Nat /\ a = (s + n) + (b.size - n)
  BY <1>1, <1>6
<1>9. CASE done
  <2>1. r = [size |-> b.size - n, offset |-> 0, wait |-> 0, list |-> rest]
    BY <1>7, <1>9 DEF Confirm
  <2>2. b.list[1].hi = s + n
    BY <1>1, <1>4, <1>5, <1>9
  <2>3. rest \in Seq(Chunk) /\ Run(rest, 0, s + n, a)
    BY <1>1, <1>2, <2>2, RunTail
  <2> HIDE DEF rest
  <2>4. /\ r \in Buffer /\ r.size = b.size - n /\ r.offset = 0 /\ r.wait = 0
        /\ r.list = rest
    BY <1>8, <2>1, <2>3 DEF Buffer
  <2>5. Holds(r, s + n, a)
    BY <1>1, <1>8, <2>3, <2>4 DEF Holds
  <2> QED BY <1>7, <2>4, <2>5
<1>10. CASE ~done
  <2>1. r = [size |-> b.size - n, offset |-> b.offset + n, wait |-> 0,
             list |-> b.list]
    BY <1>7, <1>10 DEF Confirm
  <2>2. b.offset + n \in Nat
    BY <1>1
  <2>3. /\ r \in Buffer /\ r.size = b.size - n /\ r.offset = b.offset + n
        /\ r.wait = 0 /\ r.list = b.list
    BY <1>2, <1>8, <2>1, <2>2 DEF Buffer
  <2>4. b.offset + n < Length(b.list[1]) /\ b.list[1].lo + (b.offset + n) = s + n
    BY <1>1, <1>4, <1>5, <1>10
  <2>5. Run(b.list, b.offset + n, s + n, a)
    BY <1>2, <2>4 DEF Run
  <2>6. Holds(r, s + n, a)
    BY <1>1, <1>8, <2>3, <2>5 DEF Holds
  <2> QED BY <1>7, <2>3, <2>6
<1> QED BY <1>9, <1>10
-----------------------------------------------------------------------------
(* Operation o is the window that next() marked in b: it covers the first  *)
(* bytes b holds and stays in the front chunk.                             *)
Fits(o, b, s) == /\ o \in Op /\ o.len > 0 /\ o.moved <= o.len
                 /\ b.wait # 0 /\ NonEmpty(b.list)
                 /\ o.pos = s /\ b.offset + o.len <= Length(b.list[1])

(* Nothing is outstanding and nothing is left to write, or o Fits. *)
InStep(o, b, s) == \/ o = NoOp /\ b.wait = 0 /\ ~NonEmpty(b.list)
                   \/ Fits(o, b, s)

IInv ==
  /\ TypeOK
  /\ ~open => buf = EmptyBuffer /\ op = NoOp
  /\ open => /\ Holds(buf, sent, accepted)
             /\ MaxSize = 0 \/ buf.size <= MaxSize
             /\ blocked => op = NoOp /\ buf.wait # 0
             /\ ~blocked => InStep(op, buf, sent)

LEMMA NoOpFacts == /\ NoOp \in Op /\ NoOp.len = 0 /\ NoOp.moved = 0
                   /\ NoOp.pos = 0
BY DEF NoOp, Op

(* An outstanding operation is one that Fits, whatever the flags say. *)
LEMMA OpFacts ==
  ASSUME IInv, op.len > 0
  PROVE  open /\ ~blocked /\ Fits(op, buf, sent)
BY NoOpFacts DEF IInv, InStep

(* ad_more after an operation has ended. *)
LEMMA MoreIdle ==
  ASSUME NEW b, NEW s, NEW a, Holds(b, s, a), b.wait = 0, More(b, NoOp)
  PROVE  Holds(buf', s, a) /\ buf'.size = b.size /\ InStep(op', buf', s)
<1>1. CASE Ready(b)
  <2>1. buf' = Next(b) /\ op' = OpFor(b)
    BY <1>1 DEF More
  <2>2. /\ Holds(Next(b), s, a) /\ CurSize(b) \in Nat \ {0}
        /\ Next(b).wait = CurSize(b)
        /\ Next(b).list = b.list /\ Next(b).offset = b.offset
        /\ NonEmpty(b.list) /\ b.list[1] \in Chunk
        /\ b.list[1].lo + b.offset = s
        /\ b.offset + CurSize(b) <= Length(b.list[1])
    BY <1>1, NextHolds
  <2>3. Next(b).size = b.size
    <3>1. b \in Buffer
      BY DEF Holds
    <3> QED BY <3>1 DEF Next, Buffer
  <2>4. /\ op'.pos = s /\ op'.len = CurSize(b) /\ op'.moved = 0
        /\ op' \in Op
    <3>1. s \in Nat
      BY DEF Holds
    <3>2. Storage(b.list[1]) \in Nat \X Nat
      BY <2>2, ChunkFacts DEF Storage
    <3>3. op' = [pos |-> s, len |-> CurSize(b), moved |-> 0,
                 storage |-> Storage(b.list[1])]
      BY <2>1, <2>2 DEF OpFor
    <3> QED BY <2>2, <3>1, <3>2, <3>3 DEF Op
  <2>5. CurSize(b) > 0 /\ 0 <= CurSize(b) /\ CurSize(b) # 0
    BY <2>2
  <2>6. Fits(op', buf', s)
    BY <2>1, <2>2, <2>4, <2>5 DEF Fits
  <2> QED BY <2>1, <2>2, <2>3, <2>6 DEF InStep
<1>2. CASE ~Ready(b)
  <2>1. buf' = b /\ op' = NoOp
    BY <1>2 DEF More, Next
  <2>2. b.list = <<>>
    BY <1>2 DEF Ready
  <2>3. ~NonEmpty(b.list)
    BY <2>2 DEF NonEmpty
  <2> QED BY <2>1, <2>3 DEF InStep
<1> QED BY <1>1, <1>2

(* ad_more while _wait is set does nothing. *)
LEMMA MoreBusy ==
  ASSUME NEW b, NEW o, b.wait # 0, More(b, o)
  PROVE  buf' = b /\ op' = o
BY DEF More, Next, Ready

LEMMA StoppedInv ==
  ASSUME IInv, Stopped
  PROVE  IInv'
<1>1. EmptyBuffer \in Buffer
  BY EmptyHolds DEF Holds
<1> QED BY <1>1, NoOpFacts DEF IInv, TypeOK, Stopped

(* ad_output keeps the invariant. *)
LEMMA OutputInv ==
  ASSUME IInv, NEW n \in Sizes, NEW slack \in Slacks, Output(n, slack)
  PROVE  IInv'
<1> DEFINE d == Block(n, slack)
           b == Attach(buf, d)
<1>1. n \in Nat /\ slack \in Nat /\ open
  BY WriterBounds DEF Output
<1>2. TypeOK /\ Holds(buf, sent, accepted) /\ (MaxSize = 0 \/ buf.size <= MaxSize)
  BY <1>1 DEF IInv
<1>3. d = [lo |-> accepted, hi |-> accepted + n, cap |-> n + slack]
  BY DEF Block
<1>4. CASE Overflow(b)
  <2>1. Stopped
    BY <1>4 DEF Output
  <2> QED BY <2>1, StoppedInv
<1>5. CASE ~Overflow(b)
  <2> DEFINE a == IF Ignored(d) THEN accepted ELSE accepted + n + SepSize
  <2>1. /\ More(b, op) /\ accepted' = a
        /\ sent' = sent /\ open' = open /\ blocked' = blocked
    BY <1>5 DEF Output
  <2>2. /\ Holds(b, sent, a) /\ b.wait = buf.wait /\ b.offset = buf.offset
        /\ NonEmpty(buf.list) => NonEmpty(b.list)
        /\ FrontKept(buf.list, b.list)
    <3>1. CASE Ignored(d)
      <4>1. b = buf /\ a = accepted
        BY <3>1 DEF Attach
      <4>2. NonEmpty(buf.list) => Length(buf.list[1]) \in Int
        <5>1. buf.list \in Seq(Chunk)
          BY <1>2, BufferFacts DEF Holds
        <5>2. NonEmpty(buf.list) => 1 \in 1 .. Len(buf.list)
          BY <5>1, LenProperties DEF NonEmpty
        <5> QED BY <5>1, <5>2, ElementOfSeq, ChunkFacts
      <4> QED BY <1>2, <4>1, <4>2 DEF FrontKept
    <3>2. CASE ~Ignored(d)
      <4> HIDE DEF d
      <4> QED BY <1>1, <1>2, <1>3, <3>2, AttachHolds
    <3> QED BY <3>1, <3>2
  <2> HIDE DEF b, d, a
  <2>3. MaxSize = 0 \/ b.size <= MaxSize
    <3>1. b.size \in Nat
      BY <2>2, BufferFacts DEF Holds
    <3> QED BY <1>5, <3>1, OptionsNormalised DEF Overflow
  <2>4. CASE buf.wait # 0
    <3>1. buf' = b /\ op' = op
      BY <2>1, <2>2, <2>4, MoreBusy
    <3>2. ~blocked => Fits(op, buf, sent)
      BY <1>1, <2>4 DEF IInv, InStep
    <3>3. Fits(op, buf, sent) => Fits(op, b, sent)
      <4>1. ASSUME Fits(op, buf, sent) PROVE buf.offset + op.len <= Length(b.list[1])
        <5>1. /\ buf.offset + op.len <= Length(buf.list[1])
              /\ Length(b.list[1]) >= Length(buf.list[1])
          BY <2>2, <4>1 DEF Fits, FrontKept
        <5>2. buf.offset \in Nat /\ op.len \in Nat
          BY <1>2 DEF TypeOK, Buffer, Op
        <5>3. Length(buf.list[1]) \in Int /\ Length(b.list[1]) \in Int
          <6>1. /\ buf.list \in Seq(Chunk) /\ NonEmpty(buf.list)
                /\ b.list \in Seq(Chunk) /\ NonEmpty(b.list)
            BY <1>2, <2>2, <4>1, BufferFacts DEF Holds, Fits
          <6>2. 1 \in 1 .. Len(buf.list) /\ 1 \in 1 .. Len(b.list)
            BY <6>1, LenProperties DEF NonEmpty
          <6> QED BY <6>1, <6>2, ElementOfSeq, ChunkFacts
        <5> QED BY <5>1, <5>2, <5>3
      <4> QED BY <2>2, <4>1 DEF Fits
    <3>4. blocked => op = NoOp /\ b.wait # 0
      BY <1>1, <2>2, <2>4 DEF IInv
    <3>5. b \in Buffer /\ a \in Nat
      BY <2>2 DEF Holds
    <3> QED BY <1>1, <1>2, <2>1, <2>2, <2>3, <3>1, <3>2, <3>3, <3>4, <3>5
            DEF IInv, TypeOK, InStep
  <2>5. CASE buf.wait = 0
    <3>1. ~blocked /\ op = NoOp
      BY <1>1, <2>5 DEF IInv, InStep, Fits
    <3>2. Holds(buf', sent, a) /\ buf'.size = b.size /\ InStep(op', buf', sent)
      BY <2>1, <2>2, <2>5, <3>1, MoreIdle
    <3>3. buf' \in Buffer /\ a \in Nat /\ op' \in Op
      BY <3>2, NoOpFacts DEF Holds, InStep, Fits
    <3> QED BY <1>1, <1>2, <2>1, <2>3, <3>1, <3>2, <3>3 DEF IInv, TypeOK
  <2> QED BY <2>4, <2>5, <1>2 DEF TypeOK, Buffer
<1> QED BY <1>4, <1>5

(* A successful completion: confirm is not refused, and the next write     *)
(* starts at the first byte this one left.                                 *)
LEMMA CompleteInv ==
  ASSUME IInv, Complete
  PROVE  IInv' /\ CanConfirm(buf, op.moved)
<1> DEFINE k == op.moved
           b == Confirm(buf, k)
<1>1. /\ k > 0 /\ sent' = sent + k /\ More(b, NoOp)
      /\ accepted' = accepted /\ open' = open /\ blocked' = blocked
  BY DEF Complete
<1>2. k \in Nat /\ op.len \in Nat /\ buf.offset \in Nat
  BY DEF IInv, TypeOK, Op, Buffer
<1>3. op.len > 0
  <2>1. op # NoOp
    BY <1>1, NoOpFacts
  <2> QED BY <2>1 DEF IInv, InStep, Fits
<1>4. open /\ ~blocked /\ Fits(op, buf, sent)
  BY <1>3, OpFacts
<1>5. /\ Holds(buf, sent, accepted) /\ buf.wait # 0 /\ NonEmpty(buf.list)
      /\ MaxSize = 0 \/ buf.size <= MaxSize
  BY <1>4 DEF IInv, Fits
<1>6. buf.offset + k <= Length(buf.list[1])
  <2>1. k <= op.len /\ buf.offset + op.len <= Length(buf.list[1])
    BY <1>4 DEF Fits
  <2>2. Length(buf.list[1]) \in Int
    <3>1. buf.list \in Seq(Chunk)
      BY <1>5, BufferFacts DEF Holds
    <3>2. 1 \in 1 .. Len(buf.list)
      BY <1>5, <3>1, LenProperties DEF NonEmpty
    <3> QED BY <3>1, <3>2, ElementOfSeq, ChunkFacts
  <2> QED BY <1>2, <2>1, <2>2
<1>7. CanConfirm(buf, k) /\ Holds(b, sent + k, accepted) /\ b.wait = 0
  BY <1>1, <1>2, <1>5, <1>6, ConfirmHolds
<1> HIDE DEF b, k
<1>8. /\ Holds(buf', sent + k, accepted) /\ buf'.size = b.size
      /\ InStep(op', buf', sent + k)
  BY <1>1, <1>7, MoreIdle
<1>9. b.size <= buf.size
  <2>1. /\ accepted = sent + buf.size /\ accepted = (sent + k) + b.size
        /\ sent \in Nat
    BY <1>5, <1>7 DEF Holds
  <2>2. buf.size \in Nat /\ b.size \in Nat
    BY <1>5, <1>7, BufferFacts DEF Holds
  <2> QED BY <1>2, <2>1, <2>2
<1>10. MaxSize = 0 \/ buf'.size <= MaxSize
  <2>1. buf.size \in Nat /\ b.size \in Nat
    BY <1>5, <1>7, BufferFacts DEF Holds
  <2> QED BY <1>5, <1>8, <1>9, <2>1, OptionsNormalised
<1>11. buf' \in Buffer /\ sent + k \in Nat /\ op' \in Op
  BY <1>8, NoOpFacts DEF Holds, InStep, Fits
<1>12. TypeOK'
  BY <1>1, <1>11 DEF IInv, TypeOK
<1>13. IInv'
  BY <1>1, <1>4, <1>8, <1>10, <1>12 DEF IInv
<1> QED BY <1>7, <1>13 DEF k

(* IInv is inductive: one step per action. *)
LEMMA IInvStep ==
  ASSUME IInv, [WriterNext]_vars
  PROVE  IInv'
<1>1. ASSUME NEW n \in Sizes, NEW slack \in Slacks, Output(n, slack)
      PROVE  IInv'
  BY <1>1, OutputInv
<1>2. ASSUME NEW k \in 1 .. op.len, Transmit(k)
      PROVE  IInv'
  <2>1. op.len > 0 /\ op' = [op EXCEPT !.moved = k]
    BY <1>2 DEF Transmit
  <2>2. op \in Op /\ op.len \in Nat /\ k \in Nat /\ k <= op.len
    BY DEF IInv, TypeOK, Op
  <2>3. /\ op' \in Op /\ op'.len = op.len /\ op'.pos = op.pos
        /\ op'.moved = k
    BY <2>1, <2>2 DEF Op
  <2>4. open /\ ~blocked /\ Fits(op, buf, sent)
    BY <2>1, OpFacts
  <2>5. Fits(op', buf, sent)
    BY <2>2, <2>3, <2>4 DEF Fits
  <2> QED BY <1>2, <2>3, <2>4, <2>5 DEF Transmit, IInv, TypeOK, InStep
<1>3. CASE Complete
  BY <1>3, CompleteInv
<1>4. CASE WouldBlock
  <2>1. op.len > 0
    BY <1>4 DEF WouldBlock
  <2>2. open /\ buf.wait # 0
    BY <2>1, OpFacts DEF Fits
  <2>3. buf' = buf /\ op' = NoOp
    BY <1>4, <2>2, MoreBusy DEF WouldBlock, Rollback
  <2> QED BY <1>4, <2>2, <2>3, NoOpFacts DEF WouldBlock, IInv, TypeOK
<1>5. CASE Fail
  BY <1>5, StoppedInv DEF Fail
<1>6. CASE Stop
  BY <1>6, StoppedInv DEF Stop
<1>7. CASE Start
  <2>1. /\ ~open /\ open' /\ ~blocked' /\ accepted' = 0 /\ sent' = 0
        /\ buf' = EmptyBuffer /\ op' = NoOp
    BY <1>7 DEF Start, IInv
  <2>2. Holds(EmptyBuffer, 0, 0) /\ EmptyBuffer \in Buffer
    BY EmptyHolds DEF Holds
  <2>3. EmptyBuffer.size = 0 /\ EmptyBuffer.wait = 0 /\ ~NonEmpty(EmptyBuffer.list)
    BY DEF EmptyBuffer, NonEmpty
  <2>4. open' \in BOOLEAN /\ blocked' \in BOOLEAN
    BY <1>7 DEF Start
  <2> QED BY <2>1, <2>2, <2>3, <2>4, NoOpFacts, OptionsNormalised
          DEF IInv, TypeOK, InStep
<1>8. CASE UNCHANGED vars
  BY <1>8 DEF vars, IInv, TypeOK
<1> QED BY <1>1, <1>2, <1>3, <1>4, <1>5, <1>6, <1>7, <1>8 DEF WriterNext

LEMMA IInvInit == Init => IInv
<1> SUFFICES ASSUME Init PROVE IInv
  OBVIOUS
<1>1. Holds(EmptyBuffer, 0, 0) /\ EmptyBuffer \in Buffer
  BY EmptyHolds DEF Holds
<1>2. EmptyBuffer.size = 0 /\ EmptyBuffer.wait = 0 /\ ~NonEmpty(EmptyBuffer.list)
  BY DEF EmptyBuffer, NonEmpty
<1>3. /\ buf = EmptyBuffer /\ accepted = 0 /\ sent = 0
      /\ op = NoOp /\ open = TRUE /\ blocked = FALSE
  BY DEF Init
<1>4. TypeOK
  BY <1>1, <1>3, NoOpFacts DEF TypeOK
<1>5. InStep(op, buf, sent)
  BY <1>2, <1>3 DEF InStep
<1>6. Holds(buf, sent, accepted)
  BY <1>1, <1>3
<1>7. MaxSize = 0 \/ buf.size <= MaxSize
  BY <1>2, <1>3, OptionsNormalised
<1> QED BY <1>3, <1>4, <1>5, <1>6, <1>7 DEF IInv

(* The inductive invariant holds in every reachable state. *)
THEOREM Invariance == Spec => []IInv
<1>1. IInv /\ [WriterNext]_vars => IInv'
  BY IInvStep
<1> QED BY <1>1, IInvInit, PTL DEF Spec

(* Type correctness of the writer. *)
THEOREM TypeCorrect == Spec => []TypeOK
<1>1. IInv => TypeOK
  BY DEF IInv
<1> QED BY <1>1, Invariance, PTL

(* size() is the bytes accepted and not yet written, within the limit:     *)
(* what the overflow check of ad_attach reads is never off.                *)
THEOREM AccountingHolds == Spec => []Accounting
<1>1. IInv => Accounting
  BY DEF IInv, Holds, Accounting
<1> QED BY <1>1, Invariance, PTL

(* The chunks of the queue are the unsent bytes, each once and in order,   *)
(* and a running write is the first of them.                               *)
THEOREM InOrderHolds == Spec => []InOrder
<1>1. ASSUME IInv, open PROVE InOrder
  <2> DEFINE n == Len(buf.list)
  <2>1. Run(buf.list, buf.offset, sent, accepted)
    BY <1>1 DEF IInv, Holds
  <2>2. n = 0 => sent = accepted
    BY <2>1 DEF Run, NonEmpty
  <2>3. n # 0 => /\ buf.list[1].lo + buf.offset = sent
                 /\ buf.list[n].hi = accepted
    BY <2>1 DEF Run, NonEmpty
  <2>4. \A i \in 1 .. n - 1 : buf.list[i].hi = buf.list[i + 1].lo
    BY <2>1 DEF Run
  <2>5. op.len > 0 => /\ op.pos = sent /\ n # 0
                      /\ buf.offset + op.len <= Length(buf.list[1])
    BY <1>1, OpFacts DEF Fits, NonEmpty
  <2>6. op.len \in Nat
    BY <1>1 DEF IInv, TypeOK, Op
  <2>7. n = 0 => op.len = 0
    BY <2>5, <2>6
  <2> HIDE DEF n
  <2> QED BY <2>2, <2>3, <2>4, <2>5, <2>7 DEF InOrder, n
<1>2. IInv => InOrder
  BY <1>1 DEF InOrder
<1> QED BY <1>2, Invariance, PTL

(* No lost wake-up: an open writer with unsent bytes has a write running,  *)
(* unless a would_block has stopped its loop.                              *)
THEOREM NoIdleBacklogHolds == Spec => []NoIdleBacklog
<1> SUFFICES ASSUME IInv, open, accepted > sent, ~blocked PROVE op.len > 0
  BY Invariance, PTL DEF NoIdleBacklog
<1> QED BY DEF IInv, InStep, Fits, Holds, Run

(* confirm() never refuses a completion, so it never leaves the loop stuck *)
(* behind ad_confirm, which ignores its result.                            *)
THEOREM ConfirmAcceptedHolds == Spec => []ConfirmAccepted
<1> SUFFICES ASSUME IInv, op.moved > 0 PROVE CanConfirm(buf, op.moved)
  BY Invariance, PTL DEF ConfirmAccepted
<1>1. op # NoOp
  BY NoOpFacts
<1>2. op.len > 0
  BY <1>1, NoOpFacts DEF IInv, InStep, Fits
<1>3. open /\ Fits(op, buf, sent) /\ op.moved \in Nat
  BY <1>2, OpFacts DEF IInv, TypeOK, Op
<1>4. Holds(buf, sent, accepted) /\ buf.wait # 0 /\ NonEmpty(buf.list)
  BY <1>3 DEF IInv, Fits
<1>5. buf.offset + op.moved <= Length(buf.list[1])
  <2>1. op.moved <= op.len /\ op.len \in Nat /\ buf.offset \in Nat
    BY <1>3 DEF Fits, IInv, TypeOK, Op, Buffer
  <2>2. buf.offset + op.len <= Length(buf.list[1])
    BY <1>3 DEF Fits
  <2>3. Length(buf.list[1]) \in Int
    <3>1. buf.list \in Seq(Chunk)
      BY <1>4, BufferFacts DEF Holds
    <3>2. 1 \in 1 .. Len(buf.list)
      BY <1>4, <3>1, LenProperties DEF NonEmpty
    <3> QED BY <3>1, <3>2, ElementOfSeq, ChunkFacts
  <2> QED BY <1>3, <2>1, <2>2, <2>3
<1> QED BY <1>3, <1>4, <1>5, ConfirmHolds

-----------------------------------------------------------------------------
(* The window of the abstract stream. *)
Flight == [pos |-> op.pos, len |-> op.len]

(* Whatever is outstanding is the abstract stream's next window. *)
LEMMA WindowIsNext ==
  ASSUME IInv
  PROVE  Flight = Stream!Idle \/ Stream!IsNextWindow(Flight, sent, accepted)
<1>1. op.len \in Nat /\ op.pos \in Nat
  BY DEF IInv, TypeOK, Op
<1>2. CASE op.len = 0
  <2>1. op = NoOp
    BY <1>2 DEF IInv, InStep, Fits
  <2> QED BY <2>1, NoOpFacts DEF Flight, Stream!Idle
<1>3. CASE op.len > 0
  <2>1. open /\ Fits(op, buf, sent)
    BY <1>3, OpFacts
  <2>2. Holds(buf, sent, accepted) /\ NonEmpty(buf.list)
    BY <2>1 DEF IInv, Fits
  <2>3. buf.list \in Seq(Chunk) /\ buf.offset \in Nat
    BY <2>2, BufferFacts DEF Holds
  <2>4. 1 \in 1 .. Len(buf.list)
    BY <2>2, <2>3, LenProperties DEF NonEmpty
  <2>5. /\ buf.list[1].lo \in Nat /\ buf.list[1].hi \in Nat
        /\ Length(buf.list[1]) = buf.list[1].hi - buf.list[1].lo
    BY <2>3, <2>4, ElementOfSeq, ChunkFacts
  <2>6. buf.list[1].lo + buf.offset = sent /\ buf.list[1].hi <= accepted
    BY <2>2, <2>4 DEF Holds, Run
  <2>7. op.pos = sent /\ buf.offset + op.len <= Length(buf.list[1])
    BY <2>1 DEF Fits
  <2>8. sent \in Nat /\ accepted \in Nat
    BY <2>2 DEF Holds
  <2>9. sent + op.len <= accepted
    BY <1>1, <2>3, <2>5, <2>6, <2>7, <2>8
  <2> QED BY <1>3, <2>7, <2>9 DEF Flight, Stream!IsNextWindow
<1> QED BY <1>1, <1>2, <1>3

(* A step of the writer is a step of the byte stream, or none. *)
LEMMA StreamStep ==
  ASSUME IInv, IInv', [WriterNext]_vars
  PROVE  [Stream!StreamNext]_(Stream!streamVars)
<1> USE DEF Stream!StreamNext, Stream!streamVars
<1>0. /\ Flight' = [pos |-> op'.pos, len |-> op'.len]
      /\ Flight' = Stream!Idle \/ Stream!IsNextWindow(Flight', sent', accepted')
  <2>1. (Flight = Stream!Idle \/ Stream!IsNextWindow(Flight, sent, accepted))'
    BY WindowIsNext, PTL
  <2> QED BY <2>1 DEF Flight, Stream!Idle, Stream!IsNextWindow
<1>1. ASSUME Stopped, open
      PROVE  Stream!Close
  BY <1>1, NoOpFacts DEF Stopped, Stream!Close, Stream!Idle
<1>2. ASSUME NEW n \in Sizes, NEW slack \in Slacks, Output(n, slack)
      PROVE  Stream!Close \/ Stream!Accept
  <2> DEFINE d == Block(n, slack)
             b == Attach(buf, d)
  <2>1. CASE Overflow(b)
    BY <1>1, <1>2, <2>1 DEF Output
  <2>2. CASE ~Overflow(b)
    <3>1. /\ open /\ More(b, op) /\ sent' = sent /\ open' = open
          /\ accepted' = IF Ignored(d) THEN accepted ELSE accepted + n + SepSize
      BY <1>2, <2>2 DEF Output
    <3>2. accepted' >= accepted
      <4>1. accepted \in Nat /\ n \in Nat /\ SepSize \in Nat
        BY WriterBounds, OptionsNormalised DEF IInv, TypeOK
      <4> HIDE DEF d
      <4> QED BY <3>1, <4>1
    <3>3. b.wait = buf.wait
      BY DEF Attach, Queued
    <3>4. CASE Ready(b)
      <4>1. buf.wait = 0
        BY <3>3, <3>4 DEF Ready
      <4>2. op = NoOp
        BY <3>1, <4>1 DEF IInv, InStep, Fits
      <4>3. Flight = Stream!Idle
        BY <4>2, NoOpFacts DEF Flight, Stream!Idle
      <4> HIDE DEF b, d
      <4>4. Flight' = Flight \/ Stream!IsNextWindow(Flight', sent, accepted')
        BY <1>0, <3>1, <4>3
      <4> QED BY <3>1, <3>2, <4>3, <4>4 DEF Stream!Accept, Flight
    <3>5. CASE ~Ready(b)
      BY <3>1, <3>2, <3>5 DEF More, Stream!Accept
    <3> QED BY <3>4, <3>5
  <2> QED BY <2>1, <2>2
<1>3. ASSUME NEW k \in 1 .. op.len, Transmit(k)
      PROVE  UNCHANGED Stream!streamVars
  <2>1. op' = [op EXCEPT !.moved = k] /\ op \in Op
    BY <1>3 DEF Transmit, IInv, TypeOK
  <2>2. op'.pos = op.pos /\ op'.len = op.len
    BY <2>1 DEF Op
  <2> QED BY <1>3, <2>2 DEF Transmit
<1>4. CASE Complete
  <2>1. /\ op.moved > 0 /\ sent' = sent + op.moved
        /\ accepted' = accepted /\ open' = open
    BY <1>4 DEF Complete
  <2>2. op.len > 0
    BY <2>1, NoOpFacts DEF IInv, InStep, Fits
  <2>3. /\ open /\ op.moved <= op.len
        /\ op.moved \in Nat /\ op.len \in Nat /\ sent \in Nat
    BY <2>2, OpFacts DEF Fits, IInv, TypeOK, Op
  <2>4. Flight # Stream!Idle /\ Flight.len = op.len
    BY <2>2 DEF Flight, Stream!Idle
  <2>5. sent' > sent /\ sent' <= sent + Flight.len
    BY <2>1, <2>3, <2>4
  <2> QED BY <1>0, <2>1, <2>3, <2>4, <2>5
          DEF Stream!Deliver, Stream!IdleOrNext, Flight
<1>5. CASE WouldBlock
  <2>1. /\ op.len > 0 /\ sent' = sent /\ accepted' = accepted /\ open' = open
    BY <1>5 DEF WouldBlock
  <2>2. open /\ Flight # Stream!Idle
    BY <2>1, OpFacts DEF Flight, Stream!Idle
  <2> QED BY <1>0, <2>1, <2>2 DEF Stream!GiveBack, Stream!IdleOrNext, Flight
<1>6. CASE Fail
  BY <1>1, <1>6, OpFacts DEF Fail
<1>7. CASE Stop
  BY <1>1, <1>7 DEF Stop
<1>8. CASE Start
  <2>1. op = NoOp
    BY <1>8 DEF Start, IInv
  <2> QED BY <1>8, <2>1, NoOpFacts DEF Start, Stream!Reopen, Stream!Idle
<1>9. CASE UNCHANGED vars
  BY <1>9 DEF vars
<1> QED BY <1>2, <1>3, <1>4, <1>5, <1>6, <1>7, <1>8, <1>9 DEF WriterNext

(* The writer over write_buffer implements the byte stream: every attached *)
(* byte is handed to the transport at most once, in order, one window at a *)
(* time, through joining, capping, partial writes, errors and stops.       *)
THEOREM Implements == Spec => Refinement
<1>1. Init => Stream!StreamInit
  BY NoOpFacts DEF Init, Stream!StreamInit, Stream!Idle
<1>2. IInv /\ IInv' /\ [WriterNext]_vars => [Stream!StreamNext]_(Stream!streamVars)
  BY StreamStep
<1> QED BY <1>1, <1>2, Invariance, PTL
        DEF Spec, Refinement, Stream!StreamSpec
=============================================================================
