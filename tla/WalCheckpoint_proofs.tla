------------------------ MODULE WalCheckpoint_proofs ------------------------
(***************************************************************************)
(* Durability of WalCheckpoint for any transactions, blocks, worlds and    *)
(* number of crashes. Types and the order of the markers in a log hold     *)
(* whatever happens. The rest holds until a recovery has merged the same   *)
(* checkpoint log twice, which takes a crash between the rename of the     *)
(* recovery log and the removal of the checkpoint log, and a marker and a  *)
(* crash after that. The argument has three layers: FilesInv says which    *)
(* logs and markers a step can find, ContentInv that snapshot, logs and    *)
(* memory hold the same transactions in the same order, AckInv that what   *)
(* was acknowledged is among them. With them every step is one of          *)
(* DurableLog's or none.                                                   *)
(***************************************************************************)
EXTENDS WalCheckpoint, SequenceTheorems, TLAPS

(* Sequences. *)

LEMMA AppendConcatTxns ==
  \A s, t \in Seq(Txns) : \A e \in Txns : Append(s \o t, e) = s \o Append(t, e)
<1> SUFFICES ASSUME NEW s \in Seq(Txns), NEW t \in Seq(Txns), NEW e \in Txns
             PROVE  Append(s \o t, e) = s \o Append(t, e)
  OBVIOUS
<1>1. /\ Append(s \o t, e) \in Seq(Txns)
      /\ s \o Append(t, e) \in Seq(Txns)
      /\ Len(Append(s \o t, e)) = Len(s \o Append(t, e))
  BY ConcatProperties
<1>2. ASSUME NEW i \in 1 .. Len(Append(s \o t, e))
      PROVE  Append(s \o t, e)[i] = (s \o Append(t, e))[i]
  BY ConcatProperties
<1>3. QED BY <1>1, <1>2, SeqEqual

LEMMA ElemsAppend ==
  ASSUME NEW S, NEW s \in Seq(S), NEW e \in S
  PROVE  Elems(Append(s, e)) = Elems(s) \cup {e}
<1>1. DOMAIN s = 1 .. Len(s) /\ DOMAIN Append(s, e) = 1 .. (Len(s) + 1) /\ Len(s) \in Nat
  OBVIOUS
<1>2. ASSUME NEW x \in Elems(s) \cup {e}
      PROVE  x \in Elems(Append(s, e))
  <2>1. CASE x = e
    <3>1. Append(s, e)[Len(s) + 1] = e /\ Len(s) + 1 \in DOMAIN Append(s, e)
      BY <1>1
    <3>2. QED BY <2>1, <3>1 DEF Elems
  <2>2. CASE x \in Elems(s)
    <3>1. PICK i \in DOMAIN s : x = s[i]
      BY <2>2 DEF Elems
    <3>2. i \in DOMAIN Append(s, e) /\ Append(s, e)[i] = x
      BY <1>1, <3>1
    <3>3. QED BY <3>2 DEF Elems
  <2>3. QED BY <1>2, <2>1, <2>2
<1>3. ASSUME NEW x \in Elems(Append(s, e))
      PROVE  x \in Elems(s) \cup {e}
  <2>1. PICK i \in 1 .. (Len(s) + 1) : x = Append(s, e)[i]
    BY <1>1 DEF Elems
  <2>2. i = Len(s) + 1 \/ i \in DOMAIN s
    BY <1>1
  <2>3. QED BY <1>1, <2>1, <2>2 DEF Elems
<1>4. QED BY <1>2, <1>3

LEMMA AppendIsInjective ==
  ASSUME NEW s \in Seq(Txns), NEW t \in Seq(Txns), NEW e \in Txns, Append(s, e) = Append(t, e)
  PROVE  s = t
<1>1. Len(Append(s, e)) = Len(s) + 1 /\ Len(Append(t, e)) = Len(t) + 1
  OBVIOUS
<1>2. Len(s) = Len(t)
  BY <1>1
<1>3. ASSUME NEW i \in 1 .. Len(s)
      PROVE  s[i] = t[i]
  <2>1. Append(s, e)[i] = s[i] /\ Append(t, e)[i] = t[i]
    BY <1>2
  <2>2. QED BY <2>1
<1>4. QED BY <1>2, <1>3, SeqEqual

LEMMA ElemsEmpty == Elems(<<>>) = {}
  BY DEF Elems

LEMMA LastAppend ==
  ASSUME NEW S, NEW s \in Seq(S), NEW e \in S
  PROVE  /\ Last(Append(s, e)) = e
         /\ Append(s, e) # <<>>
         /\ \A i \in DOMAIN Append(s, e) : i \in DOMAIN s \/ Append(s, e)[i] = e
         /\ \A i \in DOMAIN s : i \in DOMAIN Append(s, e) /\ Append(s, e)[i] = s[i]
  BY DEF Last

LEMMA FrontMembers ==
  ASSUME NEW S, NEW s \in Seq(S), s # <<>>
  PROVE  /\ SubSeq(s, 1, Len(s) - 1) \in Seq(S)
         /\ \A i \in DOMAIN SubSeq(s, 1, Len(s) - 1) :
               i \in DOMAIN s /\ SubSeq(s, 1, Len(s) - 1)[i] = s[i]
         /\ Len(s) \in DOMAIN s
<1>1. Len(s) \in Nat \ {0} /\ DOMAIN s = 1 .. Len(s)
  BY EmptySeq
<1>2. \A i \in 1 .. (Len(s) - 1) : s[i] \in S
  BY <1>1
<1>3. QED BY <1>1, <1>2, SubSeqProperties

(* Files. *)

LEMMA FileFacts ==
  ASSUME NEW f \in FileType
  PROVE  /\ f.txs \in Seq(Txns) /\ Len(f.txs) \in Nat
         /\ f.marks \in Seq(MarkType) /\ DOMAIN f.marks = 1 .. Len(f.marks) /\ Len(f.marks) \in Nat
         /\ \A i \in DOMAIN f.marks : f.marks[i].at \in Nat
         /\ f.iter \in Int /\ f.torn \in BOOLEAN
<1>1. f.txs \in Seq(Txns) /\ f.marks \in Seq(MarkType) /\ f.iter \in Int /\ f.torn \in BOOLEAN
  BY DEF FileType
<1>2. PICK ms \in Seq(MarkType) : ms = f.marks
  BY <1>1
<1>3. \A i \in DOMAIN ms : ms[i] \in MarkType
  OBVIOUS
<1>4. \A m \in MarkType : m.at \in Nat
  BY DEF MarkType
<1>5. QED BY <1>1, <1>2, <1>3, <1>4

LEMMA AbsentType == Absent \in FileType /\ Empty \in FileType /\ Absent # Empty
  BY DEF Absent, Empty, FileType

LEMMA TruncatedFacts ==
  ASSUME NEW f \in FileType, FileOK(f)
  PROVE  /\ Truncated(f) \in FileType
         /\ FileOK(Truncated(f))
         /\ Truncated(f).txs = f.txs
         /\ Truncated(f).marks = f.marks
         /\ Truncated(f) = Absent <=> f = Absent
         /\ ~ Bare(f) => Truncated(f).iter = f.iter
<1>0. /\ Empty.iter = 0 /\ Empty.txs = <<>> /\ Empty.marks = <<>>
      /\ Absent.iter = -1
  BY DEF Empty, Absent
<1>1. CASE f.iter = -1
  BY <1>0, <1>1 DEF Truncated, FileOK, Bare, Absent
<1>2. CASE f.iter # -1 /\ Bare(f)
  <2>1. Truncated(f) = Empty
    BY <1>2 DEF Truncated
  <2>2. QED BY <1>0, <1>2, <2>1, AbsentType DEF Bare, FileOK
<1>3. CASE f.iter # -1 /\ ~ Bare(f)
  <2>1. Truncated(f) = [f EXCEPT !.torn = FALSE]
    BY <1>3 DEF Truncated
  <2>2. f.iter # 0
    BY <1>0, <1>3 DEF FileOK, Bare
  <2>3. Truncated(f) \in FileType /\ Truncated(f).iter = f.iter
        /\ Truncated(f).txs = f.txs /\ Truncated(f).marks = f.marks
    BY <2>1 DEF FileType
  <2>4. QED BY <1>0, <1>3, <2>2, <2>3 DEF FileOK
<1>4. QED BY <1>1, <1>2, <1>3

LEMMA WritableFacts ==
  ASSUME NEW f \in FileType, FileOK(f), NEW n \in Nat, n >= 1
  PROVE  /\ [Writable(f, n) EXCEPT !.torn = TRUE] \in FileType
         /\ FileOK([Writable(f, n) EXCEPT !.torn = TRUE])
         /\ [Writable(f, n) EXCEPT !.torn = TRUE].txs = f.txs
         /\ [Writable(f, n) EXCEPT !.torn = TRUE].marks = f.marks
         /\ [Writable(f, n) EXCEPT !.torn = TRUE] # Absent
<1>1. Truncated(f) \in FileType /\ FileOK(Truncated(f))
      /\ Truncated(f).txs = f.txs /\ Truncated(f).marks = f.marks
  BY TruncatedFacts
<1>2. PICK h \in FileType : h = Truncated(f)
  BY <1>1
<1>3. [h EXCEPT !.iter = n] \in FileType /\ [h EXCEPT !.iter = n].iter = n
      /\ [h EXCEPT !.iter = n].txs = h.txs /\ [h EXCEPT !.iter = n].marks = h.marks
  BY DEF FileType
<1>4. Writable(f, n) = IF h.iter \in {-1, 0} THEN [h EXCEPT !.iter = n] ELSE h
  BY <1>2 DEF Writable
<1>5. PICK g \in FileType : g = Writable(f, n)
  BY <1>3, <1>4
<1>6. g.txs = f.txs /\ g.marks = f.marks /\ g.iter \notin {-1, 0}
  BY <1>1, <1>2, <1>3, <1>4, <1>5
<1>7. [g EXCEPT !.torn = TRUE] \in FileType /\ [g EXCEPT !.torn = TRUE].iter = g.iter
      /\ [g EXCEPT !.torn = TRUE].txs = g.txs /\ [g EXCEPT !.torn = TRUE].marks = g.marks
  BY DEF FileType
<1>8. Absent.iter = -1
  BY DEF Absent
<1>9. QED BY <1>5, <1>6, <1>7, <1>8 DEF FileOK

LEMMA WritableTorn ==
  ASSUME NEW f \in FileType, FileOK(f), NEW n \in Nat, n >= 1
  PROVE  [Writable(f, n) EXCEPT !.torn = TRUE].iter \notin {-1, 0}
<1>1. PICK g \in FileType : g = [Writable(f, n) EXCEPT !.torn = TRUE]
  BY WritableFacts
<1>2. PICK h \in FileType : h = Truncated(f)
  BY TruncatedFacts
<1>3. [h EXCEPT !.iter = n] \in FileType /\ [h EXCEPT !.iter = n].iter = n
  BY n \in Int DEF FileType
<1>4. PICK w \in FileType : w = Writable(f, n)
  BY <1>2, <1>3 DEF Writable
<1>5. w.iter \notin {-1, 0}
  BY <1>2, <1>3, <1>4 DEF Writable
<1>6. [w EXCEPT !.torn = TRUE].iter = w.iter
  BY DEF FileType
<1>7. QED BY <1>4, <1>5, <1>6

LEMMA FlushedFacts ==
  ASSUME NEW f \in FileType, f.iter \notin {-1, 0}, NEW t \in Txns
  PROVE  /\ [f EXCEPT !.txs = Append(@, t), !.torn = FALSE] \in FileType
         /\ FileOK([f EXCEPT !.txs = Append(@, t), !.torn = FALSE])
         /\ [f EXCEPT !.txs = Append(@, t), !.torn = FALSE].txs = Append(f.txs, t)
         /\ [f EXCEPT !.txs = Append(@, t), !.torn = FALSE].marks = f.marks
         /\ [f EXCEPT !.txs = Append(@, t), !.torn = FALSE].iter = f.iter
         /\ [f EXCEPT !.txs = Append(@, t), !.torn = FALSE] # Absent
<1>1. Append(f.txs, t) \in Seq(Txns)
  BY DEF FileType
<1>2. Absent.iter = -1
  BY DEF Absent
<1>3. QED BY <1>1, <1>2 DEF FileType, FileOK

LEMMA MarkedFacts ==
  ASSUME NEW f \in FileType, FileOK(f), ~ Bare(f), NEW m \in MarkType
  PROVE  /\ [Truncated(f) EXCEPT !.marks = Append(@, m)] \in FileType
         /\ FileOK([Truncated(f) EXCEPT !.marks = Append(@, m)])
         /\ [Truncated(f) EXCEPT !.marks = Append(@, m)].txs = f.txs
         /\ [Truncated(f) EXCEPT !.marks = Append(@, m)].marks = Append(f.marks, m)
<1>1. f.iter \notin {-1, 0}
  BY DEF FileOK, Bare, Absent, Empty
<1>2. PICK g \in FileType : g = Truncated(f)
  BY TruncatedFacts
<1>3. g.txs = f.txs /\ g.marks = f.marks /\ g.iter = f.iter
  BY <1>2, TruncatedFacts
<1>4. Append(g.marks, m) \in Seq(MarkType)
  BY DEF FileType
<1>5. /\ [g EXCEPT !.marks = Append(@, m)] \in FileType
      /\ [g EXCEPT !.marks = Append(@, m)].txs = g.txs
      /\ [g EXCEPT !.marks = Append(@, m)].marks = Append(g.marks, m)
      /\ [g EXCEPT !.marks = Append(@, m)].iter = g.iter
  BY <1>4 DEF FileType
<1>6. QED BY <1>1, <1>2, <1>3, <1>5 DEF FileOK

LEMMA TornFacts ==
  ASSUME NEW f \in FileType, f.iter \notin {-1, 0}
  PROVE  /\ [f EXCEPT !.torn = TRUE] \in FileType
         /\ FileOK([f EXCEPT !.torn = TRUE])
         /\ [f EXCEPT !.torn = TRUE].txs = f.txs
         /\ [f EXCEPT !.torn = TRUE].marks = f.marks
  BY DEF FileType, FileOK

LEMMA UnsyncedFacts ==
  ASSUME NEW f \in FileType, FileOK(f), f.iter \notin {-1, 0}, NEW t \in Txns,
         NEW g \in Unsynced(f, t)
  PROVE  /\ g \in FileType
         /\ FileOK(g)
         /\ g.txs = f.txs \/ g.txs = Append(f.txs, t)
         /\ g.marks = f.marks
         /\ g # Absent
<1>1. f # Absent
  BY DEF Absent
<1>2. CASE g = Truncated(f)
  BY <1>1, <1>2, TruncatedFacts
<1>3. CASE g = [f EXCEPT !.txs = Append(@, t), !.torn = FALSE]
  <2>1. PICK h \in FileType :
           /\ h = [f EXCEPT !.txs = Append(@, t), !.torn = FALSE]
           /\ FileOK(h) /\ h.txs = Append(f.txs, t) /\ h.marks = f.marks /\ h # Absent
    BY FlushedFacts, Zenon
  <2>2. QED BY <1>3, <2>1, Zenon
<1>4. CASE g = f
  BY <1>1, <1>4
<1>5. QED BY <1>2, <1>3, <1>4 DEF Unsynced

LEMMA MergedFacts ==
  ASSUME NEW f \in FileType, FileOK(f), Marked(f), Last(f.marks).at = Len(f.txs),
         NEW c \in FileType
  PROVE  /\ Merged(f, c) \in FileType
         /\ FileOK(Merged(f, c))
         /\ Merged(f, c).txs = f.txs \o c.txs
         /\ \A i \in DOMAIN Merged(f, c).marks :
               i \in DOMAIN f.marks /\ Merged(f, c).marks[i] = f.marks[i]
<1>1. f.iter \notin {-1, 0} /\ f.iter \in Int
  BY DEF FileOK, Marked, Absent, Empty, FileType
<1>2. f.txs \in Seq(Txns) /\ c.txs \in Seq(Txns) /\ f.marks \in Seq(MarkType) /\ f.marks # <<>>
      /\ c.torn \in BOOLEAN
  BY DEF FileType, Marked
<1>3. SubSeq(f.txs, 1, Last(f.marks).at) = f.txs
  BY <1>2, SubSeqFull
<1>4. f.txs \o c.txs \in Seq(Txns)
  BY <1>2, ConcatProperties
<1>5. Merged(f, c) = [iter |-> f.iter, txs |-> f.txs \o c.txs,
                      marks |-> SubSeq(f.marks, 1, Len(f.marks) - 1), torn |-> c.torn]
  BY <1>3 DEF Merged
<1>6. SubSeq(f.marks, 1, Len(f.marks) - 1) \in Seq(MarkType)
  BY <1>2, FrontMembers
<1>7. QED BY <1>1, <1>2, <1>4, <1>5, <1>6, FrontMembers DEF FileType, FileOK
-----------------------------------------------------------------------------
(* Types, and the order of markers: what holds of the files in any case. *)

Sound == TypeOK /\ OrderInv

LEMMA TruncatedShape ==
  ASSUME NEW f \in FileType
  PROVE  /\ Truncated(f) \in FileType
         /\ Truncated(f).txs = f.txs
         /\ Truncated(f).marks = f.marks
<1>1. [f EXCEPT !.torn = FALSE] \in FileType
      /\ [f EXCEPT !.torn = FALSE].txs = f.txs /\ [f EXCEPT !.torn = FALSE].marks = f.marks
  BY DEF FileType
<1>2. Empty \in FileType /\ Empty.txs = <<>> /\ Empty.marks = <<>>
  BY AbsentType DEF Empty
<1>3. QED BY <1>1, <1>2 DEF Truncated, Bare

LEMMA WritableShape ==
  ASSUME NEW f \in FileType, NEW n \in Nat
  PROVE  /\ [Writable(f, n) EXCEPT !.torn = TRUE] \in FileType
         /\ [Writable(f, n) EXCEPT !.torn = TRUE].txs = f.txs
         /\ [Writable(f, n) EXCEPT !.torn = TRUE].marks = f.marks
<1>1. PICK h \in FileType : h = Truncated(f) /\ h.txs = f.txs /\ h.marks = f.marks
  BY TruncatedShape
<1>2. [h EXCEPT !.iter = n] \in FileType
      /\ [h EXCEPT !.iter = n].txs = h.txs /\ [h EXCEPT !.iter = n].marks = h.marks
  BY n \in Int DEF FileType
<1>3. PICK g \in FileType : g = Writable(f, n) /\ g.txs = f.txs /\ g.marks = f.marks
  BY <1>1, <1>2 DEF Writable
<1>4. [g EXCEPT !.torn = TRUE] \in FileType
      /\ [g EXCEPT !.torn = TRUE].txs = g.txs /\ [g EXCEPT !.torn = TRUE].marks = g.marks
  BY DEF FileType
<1>5. QED BY <1>3, <1>4

LEMMA FlushedShape ==
  ASSUME NEW f \in FileType, NEW t \in Txns
  PROVE  /\ [f EXCEPT !.txs = Append(@, t), !.torn = FALSE] \in FileType
         /\ [f EXCEPT !.txs = Append(@, t), !.torn = FALSE].txs = Append(f.txs, t)
         /\ [f EXCEPT !.txs = Append(@, t), !.torn = FALSE].marks = f.marks
<1>1. Append(f.txs, t) \in Seq(Txns)
  BY DEF FileType
<1>2. QED BY <1>1 DEF FileType

LEMMA UnsyncedShape ==
  ASSUME NEW f \in FileType, NEW t \in Txns, NEW g \in Unsynced(f, t)
  PROVE  /\ g \in FileType
         /\ g.txs = f.txs \/ g.txs = Append(f.txs, t)
         /\ g.marks = f.marks
<1>1. CASE g = Truncated(f)
  BY <1>1, TruncatedShape
<1>2. CASE g = [f EXCEPT !.txs = Append(@, t), !.torn = FALSE]
  <2>1. /\ [f EXCEPT !.txs = Append(@, t), !.torn = FALSE] \in FileType
        /\ [f EXCEPT !.txs = Append(@, t), !.torn = FALSE].txs = Append(f.txs, t)
        /\ [f EXCEPT !.txs = Append(@, t), !.torn = FALSE].marks = f.marks
    BY FlushedShape, Zenon
  <2>2. QED BY <1>2, <2>1, Zenon
<1>3. CASE g = f
  BY <1>3
<1>4. QED BY <1>1, <1>2, <1>3 DEF Unsynced

\* A log that has its markers and keeps its transactions is as ordered as before.
LEMMA OrderedKept ==
  ASSUME NEW f \in FileType, NEW g \in FileType, Ordered(f), g.marks = f.marks,
         g.txs = f.txs \/ \E t \in Txns : g.txs = Append(f.txs, t)
  PROVE  Ordered(g)
<1>1. /\ f.txs \in Seq(Txns) /\ Len(f.txs) \in Nat /\ Len(g.txs) \in Nat
      /\ \A i \in DOMAIN f.marks : f.marks[i].at \in Nat
  BY FileFacts
<1>2. Len(f.txs) <= Len(g.txs)
  <2>1. ASSUME NEW t \in Txns, g.txs = Append(f.txs, t)
        PROVE  Len(f.txs) <= Len(g.txs)
    BY <1>1, <2>1
  <2>2. QED BY <1>1, <2>1
<1>3. QED BY <1>1, <1>2 DEF Ordered

LEMMA MarkedShape ==
  ASSUME NEW f \in FileType, Ordered(f), NEW b \in Blocks
  PROVE  LET g == [Truncated(f) EXCEPT !.marks = Append(@, [block |-> b, at |-> Len(f.txs)])]
         IN  g \in FileType /\ Ordered(g)
<1> DEFINE m == [block |-> b, at |-> Len(f.txs)]
<1>1. PICK h \in FileType : h = Truncated(f) /\ h.txs = f.txs /\ h.marks = f.marks
  BY TruncatedShape
<1>2. /\ f.txs \in Seq(Txns) /\ Len(f.txs) \in Nat /\ f.marks \in Seq(MarkType)
      /\ Len(f.marks) \in Nat /\ DOMAIN f.marks = 1 .. Len(f.marks)
      /\ \A i \in DOMAIN f.marks : f.marks[i].at \in Nat
  BY FileFacts
<1>3. m \in MarkType /\ m.at = Len(f.txs)
  BY <1>2 DEF MarkType
<1> HIDE DEF m
<1>4. Append(f.marks, m) \in Seq(MarkType)
  BY <1>2, <1>3
<1>5. PICK g \in FileType :
         g = [h EXCEPT !.marks = Append(@, m)] /\ g.txs = f.txs /\ g.marks = Append(f.marks, m)
  <2>1. \A s \in Seq(MarkType) :
           /\ [h EXCEPT !.marks = s] \in FileType
           /\ [h EXCEPT !.marks = s].txs = h.txs
           /\ [h EXCEPT !.marks = s].marks = s
    BY DEF FileType
  <2>2. QED BY <1>1, <1>4, <2>1
<1>6. \A i \in DOMAIN g.marks :
         \/ i \in DOMAIN f.marks /\ g.marks[i] = f.marks[i]
         \/ i = Len(f.marks) + 1 /\ g.marks[i] = m
  BY <1>2, <1>3, <1>5
<1>7. \A i \in DOMAIN f.marks : i \in Nat /\ i <= Len(f.marks) /\ Len(f.marks) \in Nat
  BY <1>2
<1>8. Ordered(g)
  <2>1. \A i \in DOMAIN g.marks : g.marks[i].at <= Len(f.txs)
    BY <1>2, <1>3, <1>6 DEF Ordered
  <2>2. ASSUME NEW i \in DOMAIN g.marks, NEW j \in DOMAIN g.marks, i < j
        PROVE  g.marks[i].at <= g.marks[j].at
    <3>1. CASE j \in DOMAIN f.marks /\ g.marks[j] = f.marks[j]
      <4>1. i \in DOMAIN f.marks /\ g.marks[i] = f.marks[i]
        BY <1>2, <1>6, <2>2, <3>1
      <4>2. QED BY <2>2, <3>1, <4>1 DEF Ordered
    <3>2. CASE g.marks[j] = m
      BY <1>3, <2>1, <3>2
    <3>3. QED BY <1>6, <3>1, <3>2
  <2>3. QED BY <1>5, <2>1, <2>2 DEF Ordered
<1>9. QED BY <1>1, <1>5, <1>8 DEF m

LEMMA MergedShape ==
  ASSUME NEW f \in FileType, Ordered(f), Marked(f), NEW c \in FileType
  PROVE  Merged(f, c) \in FileType /\ Ordered(Merged(f, c))
<1>1. /\ f.txs \in Seq(Txns) /\ c.txs \in Seq(Txns) /\ f.marks \in Seq(MarkType)
      /\ Len(f.txs) \in Nat /\ DOMAIN f.marks = 1 .. Len(f.marks)
      /\ \A i \in DOMAIN f.marks : f.marks[i].at \in Nat
      /\ c.torn \in BOOLEAN /\ f.iter \in Int
  BY FileFacts
<1>2. Len(f.marks) \in Nat \ {0}
  BY <1>1, EmptySeq DEF Marked
<1> DEFINE n == Len(f.marks)
           at == f.marks[n].at
           ms == SubSeq(f.marks, 1, n - 1)
           front == SubSeq(f.txs, 1, at)
<1>3. n \in DOMAIN f.marks /\ at \in Nat /\ at <= Len(f.txs)
  BY <1>1, <1>2 DEF Ordered
<1>4. front \in Seq(Txns) /\ Len(front) = at
  <2>1. \A i \in 1 .. at : f.txs[i] \in Txns
    BY <1>1, <1>3
  <2>2. QED BY <1>3, <2>1, SubSeqProperties
<1>5. front \o c.txs \in Seq(Txns) /\ Len(front \o c.txs) = at + Len(c.txs)
  BY <1>1, <1>4, ConcatProperties
<1>6. /\ ms \in Seq(MarkType)
      /\ \A i \in DOMAIN ms : i \in DOMAIN f.marks /\ i < n /\ ms[i] = f.marks[i]
  <2>1. \A i \in 1 .. (n - 1) : f.marks[i] \in MarkType
    BY <1>1, <1>2
  <2>2. ms \in Seq(MarkType) /\ Len(ms) = n - 1 /\ \A i \in 1 .. (n - 1) : ms[i] = f.marks[i]
    BY <1>2, <2>1, SubSeqProperties
  <2>3. ASSUME NEW i \in DOMAIN ms
        PROVE  i \in DOMAIN f.marks /\ i < n /\ ms[i] = f.marks[i]
    <3>1. i \in 1 .. (n - 1)
      BY <2>2
    <3>2. i \in 1 .. Len(f.marks) /\ i < n
      BY <1>2, <3>1
    <3>3. QED BY <1>1, <2>2, <3>1, <3>2, Zenon
  <2>4. QED BY <2>2, <2>3
<1>7. Merged(f, c) = [iter |-> f.iter, txs |-> front \o c.txs, marks |-> ms, torn |-> c.torn]
  BY DEF Merged, Last
<1> HIDE DEF n, at, ms, front
<1>8. PICK g \in FileType : g = Merged(f, c) /\ g.txs = front \o c.txs /\ g.marks = ms
  <2>1. \A s \in Seq(Txns) : \A u \in Seq(MarkType) :
           [iter |-> f.iter, txs |-> s, marks |-> u, torn |-> c.torn] \in FileType
    BY <1>1 DEF FileType
  <2>2. Merged(f, c) \in FileType
    BY <1>5, <1>6, <1>7, <2>1, Zenon
  <2>3. Merged(f, c).txs = front \o c.txs /\ Merged(f, c).marks = ms
    BY <1>7
  <2>4. QED BY <2>2, <2>3, Zenon
<1>9. \A i \in DOMAIN ms : ms[i].at \in Nat /\ ms[i].at <= at
  BY <1>1, <1>3, <1>6 DEF Ordered, at
<1>10. Len(c.txs) \in Nat
  BY FileFacts
<1>11. Ordered(g)
  <2>1. \A i \in DOMAIN ms : ms[i].at <= at + Len(c.txs)
    BY <1>3, <1>9, <1>10
  <2>2. \A i, j \in DOMAIN ms : i < j => ms[i].at <= ms[j].at
    BY <1>6 DEF Ordered
  <2>3. QED BY <1>5, <1>8, <2>1, <2>2 DEF Ordered
<1>12. QED BY <1>8, <1>11

LEMMA PlanTypes ==
  ASSUME TypeOK
  PROVE  /\ NoPlan \in PlanType
         /\ image[root] \in SnapshotType
         /\ image[root].txs \in Seq(Txns)
         /\ image[root].filled \in SUBSET Embeddings
         /\ plan.txs \in Seq(Txns)
         /\ plan.filled \in SUBSET Embeddings
         /\ plan.block \in Blocks
         /\ plan.iter \in Nat
         /\ plan.has_wal \in BOOLEAN
         /\ wal.txs \in Seq(Txns)
         /\ wal.marks \in Seq(MarkType)
         /\ wal.iter \in Int
         /\ checkpoint_wal.txs \in Seq(Txns)
         /\ Written \in SnapshotType
  BY DEF TypeOK, PlanType, NoPlan, SnapshotType, FileType, Written

LEMMA InitSound == Init => Sound
<1> SUFFICES ASSUME Init PROVE Sound
  OBVIOUS
<1>1. NoTxn \in Txns \cup {NoTxn} /\ image \in [Blocks -> SnapshotType] /\ plan \in PlanType
      /\ memory \in Seq(Txns)
  BY DEF Init, SnapshotType, PlanType, NoPlan
<1>2. TypeOK
  BY <1>1, AbsentType DEF Init, TypeOK
<1>3. OrderInv
  BY DEF Init, OrderInv, Ordered, Absent
<1>4. QED BY <1>2, <1>3 DEF Sound

LEMMA NoLogSound ==
  ASSUME Sound, NoCheckpointWAL
  PROVE  checkpoint_wal' \in FileType /\ checkpoint_wal'.marks = <<>> /\ merges' \in 0..2
  BY AbsentType DEF Sound, TypeOK, NoCheckpointWAL, Absent

LEMMA OrderedBare == \A f : f.marks = <<>> => Ordered(f)
  BY DEF Ordered

LEMMA CommitSound ==
  ASSUME Sound, (\E t \in Txns : WriteToWAL(t) \/ CommitSkippingWAL(t)) \/ FlushCommit \/ RevertCommit
  PROVE  Sound'
<1> USE DEF Sound
<1>1. wal \in FileType /\ checkpoint_wal \in FileType /\ iteration \in Nat /\ plan.iter \in Nat
  BY PlanTypes DEF TypeOK
<1>2. ASSUME NEW f \in FileType, NEW g \in FileType, g.marks = f.marks,
             g.txs = f.txs \/ \E t \in Txns : g.txs = Append(f.txs, t),
             (f = wal /\ wal' = g /\ checkpoint_wal' = checkpoint_wal)
             \/ (f = checkpoint_wal /\ checkpoint_wal' = g /\ wal' = wal)
      PROVE  wal' \in FileType /\ checkpoint_wal' \in FileType /\ OrderInv'
  BY <1>1, <1>2, OrderedKept DEF OrderInv
<1>3. ASSUME NEW t \in Txns, WriteToWAL(t)
      PROVE  Sound'
  <2>1. wal' \in FileType /\ checkpoint_wal' \in FileType /\ OrderInv'
    <3>1. CASE OnCheckpointWal
      <4>1. checkpoint_wal' = [Writable(checkpoint_wal, plan.iter) EXCEPT !.torn = TRUE] /\ wal' = wal
        BY <1>3, <3>1 DEF WriteToWAL
      <4>2. QED BY <1>1, <1>2, <4>1, WritableShape
    <3>2. CASE ~ OnCheckpointWal
      <4>1. wal' = [Writable(wal, iteration) EXCEPT !.torn = TRUE] /\ checkpoint_wal' = checkpoint_wal
        BY <1>3, <3>2 DEF WriteToWAL
      <4>2. QED BY <1>1, <1>2, <4>1, WritableShape
    <3>3. QED BY <3>1, <3>2
  <2>2. QED BY <1>3, <2>1 DEF WriteToWAL, TypeOK, fileVars, memoryVars, checkpointVars
<1>4. ASSUME NEW t \in Txns, CommitSkippingWAL(t)
      PROVE  Sound'
  <2>1. memory' \in Seq(Txns) /\ filled' \in SUBSET Embeddings
    BY <1>4 DEF CommitSkippingWAL, TypeOK
  <2>2. QED BY <1>4, <2>1 DEF CommitSkippingWAL, TypeOK, OrderInv, logVars, fileVars, checkpointVars
<1>5. CASE FlushCommit
  <2>1. committing \in Txns
    BY <1>5 DEF FlushCommit, TypeOK
  <2>2. wal' \in FileType /\ checkpoint_wal' \in FileType /\ OrderInv'
    <3>1. CASE OnCheckpointWal
      <4>1. checkpoint_wal' = [checkpoint_wal EXCEPT !.txs = Append(@, committing), !.torn = FALSE]
            /\ wal' = wal
        BY <1>5, <3>1 DEF FlushCommit
      <4>2. PICK g \in FileType :
               /\ g = [checkpoint_wal EXCEPT !.txs = Append(@, committing), !.torn = FALSE]
               /\ g.txs = Append(checkpoint_wal.txs, committing) /\ g.marks = checkpoint_wal.marks
        BY <1>1, <2>1, FlushedShape, Zenon
      <4>3. QED BY <1>1, <1>2, <2>1, <4>1, <4>2, Zenon
    <3>2. CASE ~ OnCheckpointWal
      <4>1. wal' = [wal EXCEPT !.txs = Append(@, committing), !.torn = FALSE]
            /\ checkpoint_wal' = checkpoint_wal
        BY <1>5, <3>2 DEF FlushCommit
      <4>2. PICK g \in FileType :
               /\ g = [wal EXCEPT !.txs = Append(@, committing), !.torn = FALSE]
               /\ g.txs = Append(wal.txs, committing) /\ g.marks = wal.marks
        BY <1>1, <2>1, FlushedShape, Zenon
      <4>3. QED BY <1>1, <1>2, <2>1, <4>1, <4>2, Zenon
    <3>3. QED BY <3>1, <3>2
  <2>3. memory' \in Seq(Txns) /\ filled' \in SUBSET Embeddings /\ acked' \in SUBSET Txns
    BY <1>5, <2>1 DEF FlushCommit, TypeOK, Acknowledge
  <2>4. QED BY <1>5, <2>2, <2>3 DEF FlushCommit, TypeOK, fileVars, checkpointVars
<1>6. CASE RevertCommit
  <2>1. wal' \in FileType /\ checkpoint_wal' \in FileType /\ OrderInv'
    <3>1. CASE OnCheckpointWal
      <4>1. checkpoint_wal' = Truncated(checkpoint_wal) /\ wal' = wal
        BY <1>6, <3>1 DEF RevertCommit
      <4>2. QED BY <1>1, <1>2, <4>1, TruncatedShape
    <3>2. CASE ~ OnCheckpointWal
      <4>1. wal' = Truncated(wal) /\ checkpoint_wal' = checkpoint_wal
        BY <1>6, <3>2 DEF RevertCommit
      <4>2. QED BY <1>1, <1>2, <4>1, TruncatedShape
    <3>3. QED BY <3>1, <3>2
  <2>2. QED BY <1>6, <2>1 DEF RevertCommit, TypeOK, fileVars, memoryVars, checkpointVars
<1>7. QED BY <1>3, <1>4, <1>5, <1>6

LEMMA CheckpointSound ==
  ASSUME Sound, (\E b \in Blocks : WALStartCheckpoint(b)) \/ SwitchWAL \/ WriteHeader
                \/ WALFinishCheckpoint
  PROVE  Sound'
<1> USE DEF Sound
<1>1. ASSUME NEW b \in Blocks, WALStartCheckpoint(b)
      PROVE  Sound'
  <2>1. plan' \in PlanType
    BY <1>1 DEF WALStartCheckpoint, NextIteration, TypeOK, PlanType, Bare
  <2>2. wal' \in FileType /\ Ordered(wal')
    <3>1. CASE Bare(wal)
      BY <1>1, <3>1 DEF WALStartCheckpoint, TypeOK, OrderInv
    <3>2. CASE ~ Bare(wal)
      <4>1. wal' = [Truncated(wal) EXCEPT !.marks = Append(@, [block |-> b, at |-> Len(wal.txs)])]
        BY <1>1, <3>2 DEF WALStartCheckpoint
      <4>2. QED BY <4>1, MarkedShape DEF TypeOK, OrderInv
    <3>3. QED BY <3>1, <3>2
  <2>3. stage' \in {"none", "marked", "writing", "headed"}
        /\ UNCHANGED <<setting, checkpoint_wal, fileVars, phase, memoryVars, commitVars, crashes, merges>>
    BY <1>1 DEF WALStartCheckpoint
  <2>4. QED BY <2>1, <2>2, <2>3 DEF TypeOK, OrderInv, fileVars, memoryVars, commitVars
<1>2. CASE SwitchWAL
  <2>1. NoCheckpointWAL /\ stage' = "writing"
        /\ UNCHANGED <<setting, wal, fileVars, phase, memoryVars, commitVars, plan, crashes>>
    BY <1>2 DEF SwitchWAL
  <2>2. QED BY <2>1, NoLogSound DEF TypeOK, OrderInv, fileVars, memoryVars, commitVars
<1>3. CASE WriteHeader
  BY <1>3, PlanTypes DEF WriteHeader, TypeOK, OrderInv, logVars, memoryVars, commitVars
<1>4. CASE WALFinishCheckpoint
  <2>1. plan' \in PlanType /\ acked' \in SUBSET Txns
    BY <1>4, PlanTypes DEF WALFinishCheckpoint, TypeOK
  <2>2. /\ wal' \in FileType /\ Ordered(wal')
        /\ checkpoint_wal' \in FileType /\ checkpoint_wal'.marks = <<>> /\ merges' \in 0..2
    <3>1. CASE plan.has_wal
      <4>1. wal' = checkpoint_wal /\ NoCheckpointWAL
        BY <1>4, <3>1 DEF WALFinishCheckpoint, FinishedLog
      <4>2. QED BY <4>1, NoLogSound, OrderedBare DEF TypeOK, OrderInv
    <3>2. CASE ~ plan.has_wal
      BY <1>4, <3>2 DEF WALFinishCheckpoint, TypeOK, OrderInv, logVars
    <3>3. QED BY <3>1, <3>2
  <2>3. QED BY <1>4, <2>1, <2>2 DEF WALFinishCheckpoint, TypeOK, OrderInv, fileVars, memoryVars
<1>5. QED BY <1>1, <1>2, <1>3, <1>4

LEMMA CrashSound ==
  ASSUME Sound, Crash
  PROVE  Sound'
<1> USE DEF Sound
<1>1. plan' \in PlanType
  BY PlanTypes DEF Crash
<1>2. wal' \in FileType /\ Ordered(wal')
  <2>1. CASE committing # NoTxn /\ ~ OnCheckpointWal
    <3>1. wal' \in Unsynced(wal, committing) /\ committing \in Txns
      BY <2>1 DEF Crash, TypeOK
    <3>2. PICK g \in Unsynced(wal, committing) : wal' = g
      BY <3>1
    <3>3. QED BY <3>1, <3>2, UnsyncedShape, OrderedKept DEF TypeOK, OrderInv
  <2>2. CASE ~ (committing # NoTxn /\ ~ OnCheckpointWal)
    <3>1. wal' \in {wal, [wal EXCEPT !.torn = TRUE]}
      BY <2>2 DEF Crash
    <3>2. PICK g : g = [wal EXCEPT !.torn = TRUE]
      OBVIOUS
    <3>3. g \in FileType /\ g.txs = wal.txs /\ g.marks = wal.marks
      BY <3>2 DEF TypeOK, FileType
    <3>4. QED BY <3>1, <3>2, <3>3, OrderedKept DEF TypeOK, OrderInv
  <2>3. QED BY <2>1, <2>2
<1>3. checkpoint_wal' \in FileType /\ checkpoint_wal'.marks = <<>>
  <2>1. CASE committing # NoTxn /\ OnCheckpointWal
    <3>1. checkpoint_wal' \in Unsynced(checkpoint_wal, committing) /\ committing \in Txns
      BY <2>1 DEF Crash, TypeOK
    <3>2. PICK g \in Unsynced(checkpoint_wal, committing) : checkpoint_wal' = g
      BY <3>1
    <3>3. QED BY <3>1, <3>2, UnsyncedShape DEF TypeOK, OrderInv
  <2>2. CASE ~ (committing # NoTxn /\ OnCheckpointWal)
    BY <2>2 DEF Crash, TypeOK, OrderInv
  <2>3. QED BY <2>1, <2>2
<1>4. QED BY <1>1, <1>2, <1>3 DEF Crash, TypeOK, OrderInv, fileVars

LEMMA RecoverSound ==
  ASSUME Sound, Recover
  PROVE  Sound'
<1> USE DEF Sound
<1>1. UNCHANGED <<setting, fileVars, commitVars, checkpointVars, crashes>>
  BY DEF Recover, RemoveWAL, TakeCheckpointWAL, MergeIntoRecoveryWAL, RemoveCheckpointWAL, ReplayLog,
     Refuse
<1>2. ASSUME wal' \in FileType, Ordered(wal'), checkpoint_wal' \in FileType,
             checkpoint_wal'.marks = <<>>, merges' \in 0..2,
             memory' \in Seq(Txns), filled' \in SUBSET Embeddings,
             phase' \in {"running", "closed", "merged", "nested"}
      PROVE  Sound'
  BY <1>1, <1>2 DEF TypeOK, OrderInv, fileVars, commitVars, checkpointVars
<1>3. \A txs \in Seq(Txns) :
        Loaded(txs) => memory' \in Seq(Txns) /\ filled' \in SUBSET Embeddings /\ phase' = "running"
  BY PlanTypes, ConcatProperties DEF Loaded
<1>4. /\ wal \in FileType /\ Ordered(wal) /\ checkpoint_wal \in FileType
      /\ checkpoint_wal.marks = <<>> /\ merges \in 0..2
      /\ memory \in Seq(Txns) /\ filled \in SUBSET Embeddings
  BY DEF TypeOK, OrderInv
<1>5. CASE RemoveWAL
  <2>1. wal' = Absent /\ Loaded(<<>>) /\ checkpoint_wal' = checkpoint_wal /\ merges' = merges
    BY <1>5 DEF RemoveWAL
  <2>2. Absent \in FileType /\ Ordered(Absent) /\ <<>> \in Seq(Txns)
    BY AbsentType, OrderedBare DEF Absent
  <2>3. QED BY <1>2, <1>3, <1>4, <2>1, <2>2
<1>6. CASE TakeCheckpointWAL
  <2>1. wal' = checkpoint_wal /\ NoCheckpointWAL /\ phase' = "nested" /\ memory' = memory
        /\ filled' = filled
    BY <1>6 DEF TakeCheckpointWAL, memoryVars
  <2>2. QED BY <1>2, <1>4, <2>1, NoLogSound, OrderedBare
<1>7. CASE MergeIntoRecoveryWAL
  <2>1. /\ wal' = Merged(wal, checkpoint_wal) /\ Marked(wal) /\ checkpoint_wal' = checkpoint_wal
        /\ phase' = "merged" /\ memory' = memory /\ filled' = filled /\ merges' \in 0..2
    BY <1>7 DEF MergeIntoRecoveryWAL, memoryVars
  <2>2. QED BY <1>2, <1>4, <2>1, MergedShape
<1>8. CASE RemoveCheckpointWAL
  <2>1. wal' = wal /\ NoCheckpointWAL /\ phase' = "nested" /\ memory' = memory /\ filled' = filled
    BY <1>8 DEF RemoveCheckpointWAL, memoryVars
  <2>2. QED BY <1>2, <1>4, <2>1, NoLogSound
<1>9. CASE ReplayLog
  <2>1. wal' = wal /\ checkpoint_wal' = checkpoint_wal /\ merges' = merges /\ Loaded(wal.txs)
    BY <1>9 DEF ReplayLog, logVars
  <2>2. QED BY <1>2, <1>3, <1>4, <2>1, PlanTypes
<1>10. CASE Refuse
  <2>1. wal' = wal /\ checkpoint_wal' = checkpoint_wal /\ merges' = merges /\ phase' = "closed"
        /\ memory' = memory /\ filled' = filled
    BY <1>10 DEF Refuse, logVars, memoryVars
  <2>2. QED BY <1>2, <1>4, <2>1
<1>11. QED BY <1>5, <1>6, <1>7, <1>8, <1>9, <1>10 DEF Recover

LEMMA SoundStep ==
  ASSUME Sound, [Next]_vars
  PROVE  Sound'
<1>1. CASE UNCHANGED vars
  BY <1>1 DEF Sound, TypeOK, OrderInv, vars
<1>2. QED BY <1>1, CommitSound, CheckpointSound, CrashSound, RecoverSound DEF Next

-----------------------------------------------------------------------------
(* Files and locks, as long as no log has been merged twice. *)

Base == TypeOK /\ OrderInv /\ FilesInv /\ ~ MergedTwice

LEMMA InitBase == Init => Base
<1> SUFFICES ASSUME Init PROVE Base
  OBVIOUS
<1>1. Sound
  BY InitSound
<1>2. FilesInv /\ ~ MergedTwice
  BY DEF Init, FilesInv, FileOK, LockInv, MarkInv, CheckpointInv, Running, Absent, Live, Leftover,
     OnCheckpointWal, MergedTwice
<1>3. QED BY <1>1, <1>2 DEF Base, Sound

LEMMA LiveFacts ==
  /\ Leftover => Live = Absent
  /\ ~ Leftover => Live = checkpoint_wal
  /\ (merges' = merges => (Leftover' <=> Leftover) /\ (MergedTwice' <=> MergedTwice))
  /\ (merges' = merges /\ checkpoint_wal' = checkpoint_wal => Live' = Live)
  /\ (Leftover' => Live' = Absent)
  /\ (~ Leftover' => Live' = checkpoint_wal')
  BY DEF Live, Leftover, MergedTwice

LEMMA WriteToWALBase ==
  ASSUME Base, NEW t \in Txns, WriteToWAL(t)
  PROVE  Base'
<1> USE DEF Base
<1>1. t # NoTxn /\ skipping = NoTxn /\ stage # "marked" /\ Running /\ committing = NoTxn
  BY TxnsAssumption DEF WriteToWAL, WalLockFree
<1>2. /\ TypeOK' /\ OrderInv' /\ ~ MergedTwice'
      /\ (Leftover' <=> Leftover) /\ (checkpoint_wal' = checkpoint_wal => Live' = Live)
  <2>1. TypeOK' /\ OrderInv'
    BY CommitSound DEF Sound
  <2>2. merges' = merges
    BY DEF WriteToWAL
  <2>3. QED BY <2>1, <2>2, LiveFacts
<1>3. CASE OnCheckpointWal
  <2> DEFINE c == [Writable(checkpoint_wal, plan.iter) EXCEPT !.torn = TRUE]
  <2>1. checkpoint_wal' = c /\ wal' = wal
    BY <1>3 DEF WriteToWAL
  <2>2. plan.iter \in Nat /\ plan.iter >= 1
    BY <1>3, PlanTypes DEF FilesInv, CheckpointInv, OnCheckpointWal
  <2>3. FileOK(c) /\ c # Absent
    BY <2>2, WritableFacts DEF TypeOK, FilesInv
  <2>4. c.iter \notin {-1, 0}
    BY <2>2, WritableTorn DEF TypeOK, FilesInv
  <2> HIDE DEF c
  <2>5. ~ Leftover /\ ~ Leftover' /\ Live = checkpoint_wal /\ Live' = c
    BY <1>2, <1>3, <2>1, LiveFacts DEF FilesInv, CheckpointInv
  <2>6. FilesInv'
    BY <1>1, <1>3, <2>1, <2>3, <2>4, <2>5
       DEF FilesInv, LockInv, MarkInv, CheckpointInv, WriteToWAL, fileVars, memoryVars,
           checkpointVars, Running, OnCheckpointWal, Clean
  <2>7. QED BY <1>2, <2>6
<1>4. CASE ~ OnCheckpointWal
  <2> DEFINE w == [Writable(wal, iteration) EXCEPT !.torn = TRUE]
  <2>1. wal' = w /\ checkpoint_wal' = checkpoint_wal
    BY <1>4 DEF WriteToWAL
  <2>2. FileOK(w) /\ w.txs = wal.txs /\ w.marks = wal.marks
    BY WritableFacts DEF TypeOK, FilesInv
  <2>3. w.iter \notin {-1, 0}
    BY WritableTorn DEF TypeOK, FilesInv
  <2> HIDE DEF w
  <2>4. stage = "none"
    BY <1>1, <1>4 DEF FilesInv, CheckpointInv, OnCheckpointWal, TypeOK
  <2>5. FilesInv'
    BY <1>1, <1>2, <1>4, <2>1, <2>2, <2>3, <2>4
       DEF FilesInv, LockInv, MarkInv, CheckpointInv, WriteToWAL, fileVars, memoryVars,
           checkpointVars, Running, OnCheckpointWal, Clean
  <2>6. QED BY <1>2, <2>5
<1>5. QED BY <1>3, <1>4

LEMMA FlushCommitBase ==
  ASSUME Base, FlushCommit
  PROVE  Base'
<1> USE DEF Base
<1>1. /\ committing \in Txns /\ skipping = NoTxn /\ stage # "marked" /\ Running
      /\ committing' = NoTxn
  BY DEF FlushCommit, TypeOK, FilesInv, LockInv
<1>2. /\ TypeOK' /\ OrderInv' /\ ~ MergedTwice'
      /\ (Leftover' <=> Leftover) /\ (checkpoint_wal' = checkpoint_wal => Live' = Live)
  <2>1. TypeOK' /\ OrderInv'
    BY CommitSound DEF Sound
  <2>2. merges' = merges
    BY DEF FlushCommit
  <2>3. QED BY <2>1, <2>2, LiveFacts
<1>3. CASE OnCheckpointWal
  <2> DEFINE c == [checkpoint_wal EXCEPT !.txs = Append(@, committing), !.torn = FALSE]
  <2>1. checkpoint_wal' = c /\ wal' = wal
    BY <1>3 DEF FlushCommit
  <2>2. FileOK(c)
    <3>1. checkpoint_wal \in FileType /\ checkpoint_wal.iter \notin {-1, 0}
      BY <1>1, <1>3, TxnsAssumption DEF TypeOK, FilesInv, LockInv
    <3>2. QED BY <1>1, <3>1, FlushedFacts, Zenon
  <2> HIDE DEF c
  <2>3. ~ Leftover /\ ~ Leftover' /\ Live = checkpoint_wal /\ Live' = c
    BY <1>2, <1>3, <2>1, LiveFacts DEF FilesInv, CheckpointInv
  <2>4. FilesInv'
    BY <1>1, <1>3, <2>1, <2>2, <2>3
       DEF FilesInv, LockInv, MarkInv, CheckpointInv, FlushCommit, fileVars,
           checkpointVars, Running, OnCheckpointWal, Clean
  <2>5. QED BY <1>2, <2>4
<1>4. CASE ~ OnCheckpointWal
  <2> DEFINE w == [wal EXCEPT !.txs = Append(@, committing), !.torn = FALSE]
  <2>1. wal' = w /\ checkpoint_wal' = checkpoint_wal
    BY <1>4 DEF FlushCommit
  <2>2. FileOK(w) /\ w.marks = wal.marks
    <3>1. wal \in FileType /\ wal.iter \notin {-1, 0}
      BY <1>1, <1>4, TxnsAssumption DEF TypeOK, FilesInv, LockInv
    <3>2. QED BY <1>1, <3>1, FlushedFacts, Zenon
  <2> HIDE DEF w
  <2>3. stage = "none"
    BY <1>1, <1>4 DEF FilesInv, CheckpointInv, OnCheckpointWal, TypeOK
  <2>4. FilesInv'
    BY <1>1, <1>2, <1>4, <2>1, <2>2, <2>3
       DEF FilesInv, LockInv, MarkInv, CheckpointInv, FlushCommit, fileVars,
           checkpointVars, Running, OnCheckpointWal, Clean
  <2>5. QED BY <1>2, <2>4
<1>5. QED BY <1>3, <1>4

LEMMA RevertCommitBase ==
  ASSUME Base, RevertCommit
  PROVE  Base'
<1> USE DEF Base
<1>1. /\ committing \in Txns /\ skipping = NoTxn /\ stage # "marked" /\ Running
      /\ committing' = NoTxn
  BY DEF RevertCommit, TypeOK, FilesInv, LockInv
<1>2. /\ TypeOK' /\ OrderInv' /\ ~ MergedTwice'
      /\ (Leftover' <=> Leftover) /\ (checkpoint_wal' = checkpoint_wal => Live' = Live)
  <2>1. TypeOK' /\ OrderInv'
    BY CommitSound DEF Sound
  <2>2. merges' = merges
    BY DEF RevertCommit
  <2>3. QED BY <2>1, <2>2, LiveFacts
<1>3. CASE OnCheckpointWal
  <2>1. checkpoint_wal' = Truncated(checkpoint_wal) /\ wal' = wal
    BY <1>3 DEF RevertCommit
  <2>2. FileOK(checkpoint_wal')
    BY <2>1, TruncatedFacts DEF TypeOK, FilesInv
  <2>3. ~ Leftover /\ ~ Leftover' /\ Live = checkpoint_wal /\ Live' = checkpoint_wal'
    BY <1>2, <1>3, LiveFacts DEF FilesInv, CheckpointInv
  <2>4. FilesInv'
    BY <1>1, <1>3, <2>1, <2>2, <2>3
       DEF FilesInv, LockInv, MarkInv, CheckpointInv, RevertCommit, fileVars, memoryVars,
           checkpointVars, Running, OnCheckpointWal, Clean, FileOK
  <2>5. QED BY <1>2, <2>4
<1>4. CASE ~ OnCheckpointWal
  <2>1. wal' = Truncated(wal) /\ checkpoint_wal' = checkpoint_wal
    BY <1>4 DEF RevertCommit
  <2>2. FileOK(wal') /\ wal'.marks = wal.marks
    BY <2>1, TruncatedFacts DEF TypeOK, FilesInv
  <2>3. stage = "none"
    BY <1>1, <1>4 DEF FilesInv, CheckpointInv, OnCheckpointWal, TypeOK
  <2>4. FilesInv'
    BY <1>1, <1>2, <1>4, <2>1, <2>2, <2>3
       DEF FilesInv, LockInv, MarkInv, CheckpointInv, RevertCommit, fileVars, memoryVars,
           checkpointVars, Running, OnCheckpointWal, Clean, FileOK
  <2>5. QED BY <1>2, <2>4
<1>5. QED BY <1>3, <1>4

LEMMA CommitSkippingWALBase ==
  ASSUME Base, NEW t \in Txns, CommitSkippingWAL(t)
  PROVE  Base'
<1> USE DEF Base
<1>1. /\ Running /\ stage = "none" /\ committing = NoTxn /\ t # NoTxn /\ Live = Absent
  BY TxnsAssumption DEF CommitSkippingWAL, WalLockFree, CheckpointLockFree, FilesInv, CheckpointInv,
     OnCheckpointWal, Running
<1>2. TypeOK' /\ OrderInv' /\ ~ MergedTwice' /\ (Leftover' <=> Leftover) /\ Live' = Live
  <2>1. TypeOK' /\ OrderInv'
    BY CommitSound DEF Sound
  <2>2. merges' = merges /\ checkpoint_wal' = checkpoint_wal
    BY DEF CommitSkippingWAL, logVars
  <2>3. QED BY <2>1, <2>2, LiveFacts
<1>3. FilesInv'
  BY <1>1, <1>2 DEF CommitSkippingWAL, FilesInv, LockInv, MarkInv, CheckpointInv, logVars, fileVars,
     checkpointVars, Running, OnCheckpointWal, Clean
<1>4. QED BY <1>2, <1>3

LEMMA WALStartCheckpointBase ==
  ASSUME Base, NEW b \in Blocks, WALStartCheckpoint(b)
  PROVE  Base'
<1> USE DEF Base
<1>1. /\ Running /\ stage = "none" /\ committing = NoTxn /\ Live = Absent /\ b # root
      /\ skipping # NoTxn \/ ~ Bare(wal)
  BY DEF WALStartCheckpoint, CheckpointLockFree, FilesInv, CheckpointInv, OnCheckpointWal, Running
<1>2. /\ plan'.block = b /\ plan'.txs = memory /\ plan'.has_wal = ~ Bare(wal)
      /\ plan'.iter = iteration + 1
  BY DEF WALStartCheckpoint, NextIteration
<1>3. TypeOK' /\ OrderInv' /\ ~ MergedTwice' /\ (Leftover' <=> Leftover) /\ Live' = Live
  <2>1. TypeOK' /\ OrderInv'
    BY CheckpointSound DEF Sound
  <2>2. merges' = merges /\ checkpoint_wal' = checkpoint_wal
    BY DEF WALStartCheckpoint
  <2>3. QED BY <2>1, <2>2, LiveFacts
<1>4. CASE Bare(wal)
  <2>1. wal' = wal /\ stage' = "writing" /\ skipping # NoTxn /\ plan'.has_wal = FALSE
    BY <1>1, <1>2, <1>4 DEF WALStartCheckpoint
  <2>2. FilesInv'
    BY <1>1, <1>2, <1>3, <1>4, <2>1 DEF WALStartCheckpoint, TypeOK, FilesInv, LockInv, MarkInv, CheckpointInv,
       fileVars, memoryVars, commitVars, Running, OnCheckpointWal, Clean
  <2>3. QED BY <1>3, <2>2
<1>5. CASE ~ Bare(wal)
  <2> DEFINE m == [block |-> b, at |-> Len(wal.txs)]
             w == [Truncated(wal) EXCEPT !.marks = Append(@, m)]
  <2>1. wal' = w /\ stage' = "marked" /\ plan'.has_wal = TRUE
    BY <1>2, <1>5 DEF WALStartCheckpoint
  <2>2. m \in MarkType /\ m.block = b /\ m.at = Len(wal.txs)
    BY PlanTypes DEF MarkType
  <2>3. w \in FileType /\ FileOK(w) /\ w.txs = wal.txs /\ w.marks = Append(wal.marks, m)
    BY <1>5, <2>2, MarkedFacts DEF TypeOK, FilesInv
  <2> HIDE DEF w
  <2>4. /\ Last(w.marks) = m /\ w.marks # <<>>
        /\ \A i \in DOMAIN w.marks :
              w.marks[i] = m \/ (i \in DOMAIN wal.marks /\ w.marks[i] = wal.marks[i])
    <3>1. wal.marks \in Seq(MarkType)
      BY PlanTypes
    <3> HIDE DEF m
    <3>2. /\ Last(Append(wal.marks, m)) = m /\ Append(wal.marks, m) # <<>>
          /\ \A i \in DOMAIN Append(wal.marks, m) :
                i \in DOMAIN wal.marks \/ Append(wal.marks, m)[i] = m
          /\ \A i \in DOMAIN wal.marks : Append(wal.marks, m)[i] = wal.marks[i]
      BY <2>2, <3>1, LastAppend
    <3>3. QED BY <2>3, <3>2
  <2>5. root' = root /\ iteration' = iteration /\ image' = image /\ phase' = phase
        /\ UNCHANGED <<memoryVars, commitVars, checkpoint_wal>>
    BY DEF WALStartCheckpoint, fileVars
  <2>6. MarkInv'
    BY <1>1, <2>1, <2>2, <2>4, <2>5 DEF FilesInv, MarkInv, Clean, Running
  <2>7. CheckpointInv'
    BY <1>1, <1>2, <1>3, <2>1, <2>2, <2>3, <2>4, <2>5 DEF TypeOK, FilesInv, CheckpointInv, Running,
       OnCheckpointWal, Marked, commitVars
  <2>8. LockInv'
    BY <1>1, <1>3, <2>1, <2>5 DEF FilesInv, LockInv, Running, commitVars, memoryVars
  <2>9. QED BY <1>3, <2>1, <2>3, <2>5, <2>6, <2>7, <2>8 DEF FilesInv
<1>6. QED BY <1>4, <1>5

LEMMA SwitchWALBase ==
  ASSUME Base, SwitchWAL
  PROVE  Base'
<1> USE DEF Base
<1>1. FileOK(Absent)
  BY DEF Absent, FileOK
<1>2. checkpoint_wal' = Absent /\ ~ Leftover' /\ ~ MergedTwice' /\ Live' = Absent
  <2>1. checkpoint_wal' = Absent /\ merges' = (IF merges = 1 THEN 0 ELSE merges)
    BY DEF SwitchWAL, NoCheckpointWAL
  <2>2. QED BY <2>1 DEF Leftover, MergedTwice, Live
<1>3. TypeOK' /\ OrderInv'
  BY CheckpointSound DEF Sound
<1>4. FilesInv'
  BY <1>1, <1>2 DEF SwitchWAL, TypeOK, FilesInv, LockInv, MarkInv, CheckpointInv, fileVars, memoryVars,
     commitVars, Running, OnCheckpointWal, Clean
<1>5. QED BY <1>2, <1>3, <1>4

LEMMA WriteHeaderBase ==
  ASSUME Base, WriteHeader
  PROVE  Base'
<1> USE DEF Base
<1>1. /\ Running /\ stage = "writing" /\ stage' = "headed" /\ root' = plan.block
      /\ iteration' = iteration + 1 /\ plan' = plan
      /\ image' = [image EXCEPT ![plan.block] = Written]
      /\ UNCHANGED <<setting, logVars, phase, memoryVars, commitVars, crashes>>
  BY DEF WriteHeader
<1>2. TypeOK' /\ OrderInv' /\ ~ MergedTwice' /\ (Leftover' <=> Leftover) /\ Live' = Live
  <2>1. TypeOK' /\ OrderInv'
    BY CheckpointSound DEF Sound
  <2>2. merges' = merges /\ checkpoint_wal' = checkpoint_wal
    BY <1>1 DEF logVars
  <2>3. QED BY <2>1, <2>2, LiveFacts
<1>3. image'[root'].txs = plan.txs
  BY <1>1, PlanTypes DEF TypeOK, Written
<1>4. MarkInv'
  <2>1. ASSUME NEW i \in DOMAIN wal.marks, wal.marks[i].block = plan.block
        PROVE  Last(wal.marks).block = plan.block /\ ~ Leftover
    <3>1. CASE plan.has_wal
      BY <1>1, <3>1 DEF FilesInv, CheckpointInv, OnCheckpointWal
    <3>2. CASE ~ plan.has_wal
      BY <1>1, <2>1, <3>2, PlanTypes DEF FilesInv, CheckpointInv, Bare
    <3>3. QED BY <3>1, <3>2, PlanTypes
  <2>2. QED BY <1>1, <1>2, <2>1 DEF MarkInv, Clean, logVars
<1>5. FilesInv'
  BY <1>1, <1>2, <1>3, <1>4 DEF TypeOK, FilesInv, LockInv, CheckpointInv, logVars, memoryVars,
     commitVars, Running, OnCheckpointWal
<1>6. QED BY <1>2, <1>5

LEMMA WALFinishCheckpointBase ==
  ASSUME Base, WALFinishCheckpoint
  PROVE  Base'
<1> USE DEF Base
<1>1. FileOK(Absent)
  BY DEF Absent, FileOK
<1>2. TypeOK' /\ OrderInv'
  BY CheckpointSound DEF Sound
<1>3. wal'.marks = <<>> /\ FileOK(wal') /\ FileOK(checkpoint_wal') /\ ~ MergedTwice' /\ Live' = Absent
  <2>1. CASE plan.has_wal
    <3>1. /\ wal' = checkpoint_wal /\ checkpoint_wal' = Absent
          /\ merges' = (IF merges = 1 THEN 0 ELSE merges)
      BY <2>1 DEF WALFinishCheckpoint, FinishedLog, NoCheckpointWAL
    <3>2. ~ MergedTwice' /\ Live' = Absent
      BY <3>1 DEF MergedTwice, Live
    <3>3. QED BY <1>1, <3>1, <3>2 DEF FilesInv, OrderInv
  <2>2. CASE ~ plan.has_wal
    <3>1. wal' = wal /\ checkpoint_wal' = checkpoint_wal /\ merges' = merges
      BY <2>2 DEF WALFinishCheckpoint, logVars
    <3>2. wal.marks = <<>> /\ Live = Absent
      BY <2>2 DEF WALFinishCheckpoint, FilesInv, CheckpointInv, LockInv, Bare
    <3>3. ~ MergedTwice' /\ Live' = Absent
      BY <3>1, <3>2, LiveFacts
    <3>4. QED BY <3>1, <3>2, <3>3 DEF FilesInv
  <2>3. QED BY <2>1, <2>2, PlanTypes
<1>4. MarkInv'
  BY <1>3 DEF MarkInv
<1>5. LockInv'
  BY DEF WALFinishCheckpoint, FilesInv, LockInv, FinishLock, Running, memoryVars
<1>6. FilesInv'
  BY <1>3, <1>4, <1>5 DEF WALFinishCheckpoint, TypeOK, FilesInv, CheckpointInv,
     fileVars, memoryVars, Running, OnCheckpointWal
<1>7. QED BY <1>2, <1>3, <1>6

\* What a crash leaves of the two logs.
LEMMA CrashFiles ==
  ASSUME Base, Crash
  PROVE  /\ wal' \in FileType /\ FileOK(wal') /\ wal'.marks = wal.marks
         /\ checkpoint_wal' \in FileType /\ FileOK(checkpoint_wal')
         /\ checkpoint_wal'.marks = checkpoint_wal.marks
         /\ checkpoint_wal' = Absent <=> checkpoint_wal = Absent
         /\ Live' = Absent <=> Live = Absent
         /\ Leftover' <=> Leftover
         /\ Live # Absent => wal'.txs = wal.txs
         /\ \/ wal'.txs = wal.txs /\ checkpoint_wal'.txs = checkpoint_wal.txs
            \/ /\ committing # NoTxn
               /\ OnCheckpointWal
               /\ wal'.txs = wal.txs
               /\ checkpoint_wal'.txs = Append(checkpoint_wal.txs, committing)
            \/ /\ committing # NoTxn
               /\ ~ OnCheckpointWal
               /\ wal'.txs = Append(wal.txs, committing)
               /\ checkpoint_wal'.txs = checkpoint_wal.txs
<1> USE DEF Base
<1>0. /\ Leftover' <=> Leftover
      /\ (checkpoint_wal' = Absent <=> checkpoint_wal = Absent) => (Live' = Absent <=> Live = Absent)
  BY DEF Crash, Live, Leftover
<1>1. CASE committing # NoTxn /\ OnCheckpointWal
  <2>1. wal' = wal /\ checkpoint_wal' \in Unsynced(checkpoint_wal, committing)
    BY <1>1 DEF Crash, FilesInv, LockInv
  <2>2. /\ checkpoint_wal \in FileType /\ FileOK(checkpoint_wal) /\ committing \in Txns
        /\ checkpoint_wal.iter \notin {-1, 0}
    BY <1>1 DEF TypeOK, FilesInv, LockInv
  <2>3. PICK c \in Unsynced(checkpoint_wal, committing) : checkpoint_wal' = c
    BY <2>1
  <2>4. checkpoint_wal # Absent
    BY <2>2 DEF Absent
  <2>5. c \in FileType /\ FileOK(c) /\ c.marks = checkpoint_wal.marks /\ c # Absent
        /\ (c.txs = checkpoint_wal.txs \/ c.txs = Append(checkpoint_wal.txs, committing))
    BY <2>2, <2>3, UnsyncedFacts
  <2>6. QED BY <1>0, <1>1, <2>1, <2>3, <2>4, <2>5 DEF TypeOK, FilesInv
<1>2. CASE committing # NoTxn /\ ~ OnCheckpointWal
  <2>1. checkpoint_wal' = checkpoint_wal /\ wal' \in Unsynced(wal, committing)
    BY <1>2 DEF Crash
  <2>2. wal \in FileType /\ FileOK(wal) /\ committing \in Txns /\ wal.iter \notin {-1, 0}
    BY <1>2 DEF TypeOK, FilesInv, LockInv
  <2>3. PICK w \in Unsynced(wal, committing) : wal' = w
    BY <2>1
  <2>4. Live = Absent
    BY <1>2 DEF FilesInv, CheckpointInv, LockInv, Running
  <2>5. w \in FileType /\ FileOK(w) /\ w.marks = wal.marks
        /\ (w.txs = wal.txs \/ w.txs = Append(wal.txs, committing))
    BY <2>2, <2>3, UnsyncedFacts
  <2>6. QED BY <1>0, <1>2, <2>1, <2>3, <2>4, <2>5 DEF TypeOK, FilesInv
<1>3. CASE committing = NoTxn
  <2>1. checkpoint_wal' = checkpoint_wal /\ wal' \in {wal, [wal EXCEPT !.torn = TRUE]}
        /\ (wal' = wal \/ stage = "marked")
    BY <1>3 DEF Crash
  <2>2. CASE wal' = wal
    BY <1>0, <2>1, <2>2 DEF TypeOK, FilesInv
  <2>3. CASE stage = "marked" /\ wal' = [wal EXCEPT !.torn = TRUE]
    <3>1. wal.iter \notin {-1, 0}
      BY <2>3 DEF FilesInv, CheckpointInv, FileOK, Marked, Absent, Empty
    <3>2. wal \in FileType
      BY DEF TypeOK
    <3>3. PICK w : w = [wal EXCEPT !.torn = TRUE]
      OBVIOUS
    <3>4. w \in FileType /\ FileOK(w) /\ w.txs = wal.txs /\ w.marks = wal.marks
      BY <3>1, <3>2, <3>3, TornFacts
    <3>5. QED BY <1>0, <2>1, <2>3, <3>3, <3>4 DEF TypeOK, FilesInv
  <2>4. QED BY <2>1, <2>2, <2>3
<1>4. QED BY <1>1, <1>2, <1>3

LEMMA CrashBase ==
  ASSUME Base, Crash
  PROVE  Base'
<1> USE DEF Base
<1>1. TypeOK' /\ OrderInv'
  BY CrashSound DEF Sound
<1>2. ~ MergedTwice'
  BY DEF Crash, MergedTwice
<1>3. LockInv'
  <2>1. /\ phase' = "closed" /\ committing' = NoTxn /\ skipping' = NoTxn /\ stage' = "none"
        /\ memory' = <<>>
    BY DEF Crash
  <2>2. QED BY <2>1 DEF LockInv, Running
<1>4. MarkInv'
  <2>1. /\ wal'.marks = wal.marks /\ root' = root /\ phase' = "closed"
        /\ Leftover' <=> Leftover
    BY CrashFiles DEF Crash, fileVars
  <2>2. QED BY <2>1 DEF FilesInv, MarkInv, Clean
<1>5. CheckpointInv'
  <2>1. ASSUME Live # Absent
        PROVE  Marked(wal) /\ Last(wal.marks).at = Len(wal.txs)
    BY <2>1 DEF Crash, FilesInv, CheckpointInv, OnCheckpointWal
  <2>2. wal'.marks = wal.marks /\ (Live # Absent => wal'.txs = wal.txs)
        /\ (Live' = Absent <=> Live = Absent)
    BY CrashFiles
  <2>3. phase' = "closed" /\ stage' = "none"
    BY DEF Crash
  <2>4. QED BY <2>1, <2>2, <2>3 DEF CheckpointInv, Marked, OnCheckpointWal
<1>6. FilesInv'
  <2>1. FileOK(wal') /\ FileOK(checkpoint_wal')
    BY CrashFiles
  <2>2. iteration' = iteration
    BY DEF Crash, fileVars
  <2>3. QED BY <1>3, <1>4, <1>5, <2>1, <2>2 DEF FilesInv
<1>7. QED BY <1>1, <1>2, <1>6

\* A recovery, unless it merges a checkpoint log that counts no more.
LEMMA RecoverBase ==
  ASSUME Base, Recover, ~ MergedTwice'
  PROVE  Base'
<1> USE DEF Base
<1>1. /\ ~ Running /\ committing = NoTxn /\ skipping = NoTxn /\ stage = "none" /\ memory = <<>>
      /\ UNCHANGED <<setting, fileVars, commitVars, checkpointVars, crashes>>
      /\ Live # Absent => phase = "closed" /\ Marked(wal) /\ Last(wal.marks).at = Len(wal.txs)
  BY DEF Recover, RemoveWAL, TakeCheckpointWAL, MergeIntoRecoveryWAL, RemoveCheckpointWAL, ReplayLog,
     Refuse, Running, FilesInv, LockInv, CheckpointInv
<1>2. Absent.marks = <<>> /\ FileOK(Absent)
  BY DEF Absent, FileOK
<1>3. FileOK(wal) /\ FileOK(checkpoint_wal)
  BY DEF FilesInv
<1>4. ASSUME FileOK(wal'), FileOK(checkpoint_wal'),
             phase' # "running" => memory' = <<>>,
             \A i \in DOMAIN wal'.marks : wal'.marks[i].block # root,
             Live' = Absent,
             phase' = "merged" => Leftover'
      PROVE  Base'
  <2>1. TypeOK' /\ OrderInv'
    BY RecoverSound DEF Sound
  <2>2. LockInv' /\ MarkInv'
    BY <1>1, <1>4 DEF LockInv, MarkInv, Running, fileVars, commitVars, checkpointVars
  <2>3. CheckpointInv'
    BY <1>1, <1>4 DEF CheckpointInv, OnCheckpointWal, checkpointVars
  <2>4. QED BY <1>1, <1>4, <2>1, <2>2, <2>3 DEF FilesInv, fileVars
<1>5. \A txs : Loaded(txs) => phase' = "running"
  BY DEF Loaded
<1>6. CASE RemoveWAL
  <2>1. wal' = Absent /\ checkpoint_wal' = checkpoint_wal /\ merges' = merges /\ phase' = "running"
    BY <1>5, <1>6 DEF RemoveWAL
  <2>2. Live = Absent
    <3>1. CASE checkpoint_wal = Absent
      BY <3>1 DEF Live
    <3>2. CASE wal.iter \in {-1, 0}
      BY <1>1, <1>3, <3>2 DEF FileOK, Absent, Empty, Marked
    <3>3. QED BY <1>6, <3>1, <3>2 DEF RemoveWAL
  <2>3. Live' = Absent
    BY <2>1, <2>2, LiveFacts
  <2>4. QED BY <1>2, <1>3, <1>4, <2>1, <2>3
<1>7. CASE TakeCheckpointWAL
  <2>1. wal' = checkpoint_wal /\ NoCheckpointWAL /\ phase' = "nested" /\ memory' = memory
    BY <1>7 DEF TakeCheckpointWAL, memoryVars
  <2>2. checkpoint_wal' = Absent /\ Live' = Absent
    BY <2>1 DEF NoCheckpointWAL, Live
  <2>3. wal'.marks = <<>>
    BY <2>1 DEF OrderInv
  <2>4. QED BY <1>1, <1>2, <1>3, <1>4, <2>1, <2>2, <2>3
<1>8. CASE MergeIntoRecoveryWAL
  <2>1. /\ wal' = Merged(wal, checkpoint_wal) /\ checkpoint_wal' = checkpoint_wal /\ phase' = "merged"
        /\ memory' = memory /\ checkpoint_wal # Absent /\ Marked(wal) /\ ~ Clean
        /\ merges' = IF merges = 0 THEN 1 ELSE 2
    BY <1>8 DEF MergeIntoRecoveryWAL, memoryVars
  <2>2. ~ Leftover /\ Leftover'
    BY <2>1 DEF Leftover, MergedTwice
  <2>3. Last(wal.marks).at = Len(wal.txs)
    BY <1>1, <2>1, <2>2, LiveFacts
  <2>4. PICK w : w = Merged(wal, checkpoint_wal)
    OBVIOUS
  <2>5. FileOK(w) /\ \A i \in DOMAIN w.marks : i \in DOMAIN wal.marks /\ w.marks[i] = wal.marks[i]
    BY <1>3, <2>1, <2>3, <2>4, MergedFacts DEF TypeOK
  <2>6. \A i \in DOMAIN wal'.marks : wal'.marks[i].block # root
    BY <2>1, <2>4, <2>5 DEF FilesInv, MarkInv
  <2>7. QED BY <1>1, <1>3, <1>4, <2>1, <2>2, <2>4, <2>5, <2>6, LiveFacts
<1>9. CASE RemoveCheckpointWAL
  <2>1. wal' = wal /\ NoCheckpointWAL /\ phase = "merged" /\ phase' = "nested" /\ memory' = memory
    BY <1>9 DEF RemoveCheckpointWAL, memoryVars
  <2>2. checkpoint_wal' = Absent /\ Live' = Absent
    BY <2>1 DEF NoCheckpointWAL, Live
  <2>3. \A i \in DOMAIN wal.marks : wal.marks[i].block # root
    BY <1>1, <2>1 DEF FilesInv, MarkInv
  <2>4. QED BY <1>1, <1>2, <1>3, <1>4, <2>1, <2>2, <2>3
<1>10. CASE ReplayLog
  <2>1. wal' = wal /\ checkpoint_wal' = checkpoint_wal /\ merges' = merges /\ phase' = "running"
    BY <1>5, <1>10 DEF ReplayLog, logVars
  <2>2. Live = Absent
    BY <1>1, <1>10 DEF ReplayLog, Live
  <2>3. \A i \in DOMAIN wal.marks : wal.marks[i].block # root
    BY <1>1, <1>10 DEF ReplayLog, FilesInv, MarkInv, Marked
  <2>4. Live' = Absent
    BY <2>1, <2>2, LiveFacts
  <2>5. QED BY <1>3, <1>4, <2>1, <2>3, <2>4
<1>11. CASE Refuse
  <2>1. wal' = wal /\ checkpoint_wal' = checkpoint_wal /\ merges' = merges /\ phase = "nested"
        /\ phase' = "closed" /\ memory' = memory
    BY <1>11 DEF Refuse, logVars, memoryVars
  <2>2. Live' = Absent
    BY <1>1, <2>1, LiveFacts
  <2>3. \A i \in DOMAIN wal.marks : wal.marks[i].block # root
    BY <1>1, <2>1 DEF FilesInv, MarkInv
  <2>4. QED BY <1>1, <1>3, <1>4, <2>1, <2>2, <2>3
<1>12. QED BY <1>6, <1>7, <1>8, <1>9, <1>10, <1>11 DEF Recover
-----------------------------------------------------------------------------
(* Contents. *)

LEMMA AbsentTxs == Absent.txs = <<>> /\ Absent.marks = <<>>
  BY DEF Absent

LEMMA LastMark ==
  ASSUME Base, Marked(wal)
  PROVE  Len(wal.marks) \in DOMAIN wal.marks
  BY PlanTypes, FrontMembers DEF Base, Marked

LEMMA LiveType == Base => Live \in FileType /\ Live.txs \in Seq(Txns)
  BY AbsentType, FileFacts DEF Base, TypeOK, Live

\* Replayed, without mention of a checkpoint log that counts no more.
LEMMA ReplayedLive ==
  ASSUME Base
  PROVE  Replayed = IF phase = "nested" \/ ~ Marked(wal) THEN wal.txs
                    ELSE IF Clean THEN Live.txs
                    ELSE IF Live = Absent THEN wal.txs
                    ELSE SubSeq(wal.txs, 1, Last(wal.marks).at) \o Live.txs
<1>1. CASE Leftover
  <2>1. Marked(wal) => ~ Clean
    BY <1>1, LastMark DEF Base, FilesInv, MarkInv, Clean, Last
  <2>2. QED BY <1>1, <2>1, LiveFacts DEF Replayed
<1>2. CASE ~ Leftover
  BY <1>2, LiveFacts DEF Replayed
<1>3. QED BY <1>1, <1>2

\* What a recovery would replay, stage by stage of a running checkpoint.
LEMMA ReplayedRunning ==
  ASSUME Base, Running
  PROVE  /\ stage \in {"none", "marked"} => Replayed = wal.txs /\ Live = Absent
         /\ stage = "writing" => Replayed = wal.txs \o Live.txs
         /\ stage = "headed" => Replayed = Live.txs
<1> USE DEF Base
<1>1. stage # "headed" => (Marked(wal) => ~ Clean)
  BY LastMark DEF FilesInv, MarkInv, Running, Clean, Last
<1>2. CASE stage \in {"none", "marked"}
  <2>1. Live = Absent
    BY <1>2 DEF FilesInv, CheckpointInv, OnCheckpointWal, Running
  <2>2. QED BY <1>1, <1>2, <2>1, ReplayedLive DEF Running
<1>3. CASE stage = "writing"
  <2>1. CASE Live = Absent
    <3>1. Replayed = wal.txs
      BY <1>1, <1>3, <2>1, ReplayedLive DEF Running
    <3>2. QED BY <1>3, <2>1, <3>1, PlanTypes, AbsentTxs, ConcatEmptySeq
  <2>2. CASE Live # Absent
    <3>1. Marked(wal) /\ Last(wal.marks).at = Len(wal.txs)
      BY <1>3, <2>2 DEF FilesInv, CheckpointInv, OnCheckpointWal, Running
    <3>2. SubSeq(wal.txs, 1, Last(wal.marks).at) = wal.txs
      BY <3>1, PlanTypes, SubSeqFull
    <3>3. QED BY <1>1, <1>3, <2>2, <3>1, <3>2, ReplayedLive DEF Running
  <2>3. QED BY <2>1, <2>2
<1>4. CASE stage = "headed"
  <2>1. CASE plan.has_wal
    <3>1. Marked(wal) /\ Clean
      BY <1>4, <2>1 DEF FilesInv, CheckpointInv, Clean
    <3>2. QED BY <1>4, <3>1, ReplayedLive DEF Running
  <2>2. CASE ~ plan.has_wal
    <3>1. Bare(wal) /\ Live = Absent
      BY <1>4, <2>2 DEF FilesInv, CheckpointInv, LockInv
    <3>2. QED BY <1>4, <3>1, AbsentTxs, ReplayedLive DEF Running, Bare, Marked
  <2>3. QED BY <2>1, <2>2, PlanTypes
<1>5. QED BY <1>2, <1>3, <1>4 DEF TypeOK

LEMMA ReplayedAtRest == Base /\ Running /\ stage = "none" => Replayed = wal.txs
  BY ReplayedRunning

LEMMA ReplayedType ==
  ASSUME Base
  PROVE  Replayed \in Seq(Txns) /\ Recovered \in Seq(Txns)
<1> USE DEF Base
<1>1. Replayed \in Seq(Txns)
  <2>1. CASE Running
    <3>1. wal.txs \in Seq(Txns) /\ Live.txs \in Seq(Txns)
      BY PlanTypes, LiveType
    <3>2. wal.txs \o Live.txs \in Seq(Txns)
      BY <3>1, ConcatProperties
    <3>3. stage \in {"none", "marked", "writing", "headed"}
      BY DEF TypeOK
    <3>4. QED BY <2>1, <3>1, <3>2, <3>3, ReplayedRunning
  <2>2. CASE ~ Running
    <3>1. CASE Marked(wal) /\ Live # Absent /\ phase = "closed"
      <4>1. SubSeq(wal.txs, 1, Last(wal.marks).at) = wal.txs
        BY <2>2, <3>1, PlanTypes, SubSeqFull DEF FilesInv, CheckpointInv, Running
      <4>2. wal.txs \in Seq(Txns) /\ Live.txs \in Seq(Txns) /\ wal.txs \o Live.txs \in Seq(Txns)
        BY PlanTypes, LiveType, ConcatProperties
      <4>3. QED BY <3>1, <4>1, <4>2, ReplayedLive
    <3>2. CASE ~ (Marked(wal) /\ Live # Absent /\ phase = "closed")
      BY <2>2, <3>2, PlanTypes, LiveType, ReplayedLive DEF FilesInv, CheckpointInv, Running
    <3>3. QED BY <3>1, <3>2
  <2>3. QED BY <2>1, <2>2
<1>2. QED BY <1>1, PlanTypes, ConcatProperties DEF Recovered

\* Memory is what a recovery would find, and the transaction that waits for its
\* checkpoint, if there is one.
Recoverable ==
    Running =>
        memory = IF skipping # NoTxn /\ stage # "headed" THEN Append(Recovered, skipping)
                 ELSE Recovered

LEMMA MemoryFromContent ==
  ASSUME Base, ContentInv
  PROVE  Recoverable
<1> USE DEF Base
<1> SUFFICES ASSUME Running
             PROVE  memory = IF skipping # NoTxn /\ stage # "headed" THEN Append(Recovered, skipping)
                             ELSE Recovered
  BY DEF Recoverable
<1>0. PICK base : base = image[root].txs
  OBVIOUS
<1>1. base \in Seq(Txns) /\ wal.txs \in Seq(Txns) /\ Live.txs \in Seq(Txns)
      /\ plan.txs \in Seq(Txns)
  BY <1>0, PlanTypes, LiveType
<1>2. CASE stage = "none"
  BY <1>0, <1>2, ReplayedRunning DEF ContentInv, Recovered, WithSkipped
<1>3. CASE stage = "marked"
  <2>1. Live = Absent /\ Replayed = wal.txs
    BY <1>3, ReplayedRunning
  <2>2. memory = plan.txs
    BY <1>1, <1>3, <2>1, AbsentTxs, ConcatEmptySeq DEF ContentInv
  <2>3. QED BY <1>0, <1>3, <2>1, <2>2 DEF ContentInv, Recovered, WithSkipped
<1>4. CASE stage = "writing"
  <2>1. Replayed = wal.txs \o Live.txs
    BY <1>4, ReplayedRunning
  <2>2. plan.txs = WithSkipped(base \o wal.txs) /\ memory = plan.txs \o Live.txs
    BY <1>0, <1>4 DEF ContentInv
  <2>3. CASE skipping = NoTxn
    <3>1. memory = (base \o wal.txs) \o Live.txs
      BY <2>2, <2>3 DEF WithSkipped
    <3>2. Recovered = base \o (wal.txs \o Live.txs)
      BY <1>0, <2>1 DEF Recovered
    <3>3. \A s, t, u \in Seq(Txns) : (s \o t) \o u = s \o (t \o u)
      BY ConcatAssociative
    <3>4. QED BY <1>1, <2>3, <3>1, <3>2, <3>3
  <2>4. CASE skipping # NoTxn
    <3>1. Live = Absent
      BY <2>4 DEF FilesInv, LockInv
    <3>2. memory = plan.txs /\ Replayed = wal.txs
      BY <1>1, <2>1, <2>2, <3>1, AbsentTxs, ConcatEmptySeq
    <3>3. QED BY <1>0, <1>4, <2>2, <2>4, <3>2 DEF WithSkipped, Recovered
  <2>5. QED BY <2>3, <2>4
<1>5. CASE stage = "headed"
  BY <1>5, ReplayedRunning DEF ContentInv, Recovered, FilesInv, CheckpointInv
<1>6. QED BY <1>2, <1>3, <1>4, <1>5 DEF TypeOK

\* A commit that begins or fails changes no flushed transaction.
LEMMA UnflushedTxs ==
  ASSUME Base, (\E t \in Txns : WriteToWAL(t)) \/ RevertCommit
  PROVE  wal'.txs = wal.txs /\ Live'.txs = Live.txs
<1> USE DEF Base
<1>1. wal \in FileType /\ FileOK(wal) /\ checkpoint_wal \in FileType /\ FileOK(checkpoint_wal)
      /\ iteration \in Nat /\ iteration >= 1
      /\ (OnCheckpointWal => plan.iter \in Nat /\ plan.iter >= 1)
  BY PlanTypes DEF TypeOK, FilesInv, CheckpointInv, OnCheckpointWal
<1>2. ASSUME NEW t \in Txns, WriteToWAL(t)
      PROVE  wal'.txs = wal.txs /\ checkpoint_wal'.txs = checkpoint_wal.txs
  <2>1. CASE OnCheckpointWal
    <3>1. checkpoint_wal' = [Writable(checkpoint_wal, plan.iter) EXCEPT !.torn = TRUE] /\ wal' = wal
      BY <1>2, <2>1 DEF WriteToWAL
    <3>2. QED BY <1>1, <2>1, <3>1, WritableFacts
  <2>2. CASE ~ OnCheckpointWal
    <3>1. wal' = [Writable(wal, iteration) EXCEPT !.torn = TRUE] /\ checkpoint_wal' = checkpoint_wal
      BY <1>2, <2>2 DEF WriteToWAL
    <3>2. QED BY <1>1, <3>1, WritableFacts
  <2>3. QED BY <2>1, <2>2
<1>3. ASSUME RevertCommit
      PROVE  wal'.txs = wal.txs /\ checkpoint_wal'.txs = checkpoint_wal.txs
  <2>1. Truncated(wal).txs = wal.txs /\ Truncated(checkpoint_wal).txs = checkpoint_wal.txs
    BY <1>1, TruncatedFacts
  <2>2. CASE OnCheckpointWal
    <3>1. checkpoint_wal' = Truncated(checkpoint_wal) /\ wal' = wal
      BY <1>3, <2>2 DEF RevertCommit
    <3>2. QED BY <2>1, <3>1
  <2>3. CASE ~ OnCheckpointWal
    <3>1. wal' = Truncated(wal) /\ checkpoint_wal' = checkpoint_wal
      BY <1>3, <2>3 DEF RevertCommit
    <3>2. QED BY <2>1, <3>1
  <2>4. QED BY <2>2, <2>3
<1>4. merges' = merges
  BY DEF WriteToWAL, RevertCommit
<1>5. QED BY <1>2, <1>3, <1>4, LiveFacts

LEMMA FlushCommitContent ==
  ASSUME Base, ContentInv, FlushCommit
  PROVE  ContentInv'
<1> USE DEF Base
<1>1. /\ committing \in Txns /\ skipping = NoTxn /\ skipping' = NoTxn /\ Running
      /\ UNCHANGED <<image, root, phase, stage, plan>>
      /\ memory' = Append(memory, committing)
  BY DEF FlushCommit, TypeOK, FilesInv, LockInv, fileVars, checkpointVars
<1>2. image[root].txs \in Seq(Txns) /\ wal.txs \in Seq(Txns) /\ Live.txs \in Seq(Txns)
      /\ plan.txs \in Seq(Txns)
  BY PlanTypes, LiveType
<1>3. ASSUME NEW s \in Seq(Txns), NEW t \in Seq(Txns)
      PROVE  Append(s \o t, committing) = s \o Append(t, committing)
  BY <1>1, AppendConcatTxns
<1>4. CASE OnCheckpointWal
  <2>1. wal' = wal /\ Live'.txs = Append(Live.txs, committing)
    <3>1. wal' = wal
          /\ checkpoint_wal' = [checkpoint_wal EXCEPT !.txs = Append(@, committing), !.torn = FALSE]
      BY <1>4 DEF FlushCommit
    <3>2. checkpoint_wal \in FileType /\ checkpoint_wal.iter \notin {-1, 0}
      BY <1>1, <1>4, TxnsAssumption DEF TypeOK, FilesInv, LockInv
    <3>3. checkpoint_wal'.txs = Append(checkpoint_wal.txs, committing)
      BY <1>1, <3>1, <3>2, FlushedFacts, Zenon
    <3>4. ~ Leftover /\ merges' = merges
      BY <1>4 DEF FlushCommit, FilesInv, CheckpointInv
    <3>5. QED BY <3>1, <3>3, <3>4, LiveFacts
  <2>2. stage # "none" /\ memory = plan.txs \o Live.txs
    BY <1>4 DEF OnCheckpointWal, ContentInv
  <2>3. memory' = plan.txs \o Live'.txs
    BY <1>1, <1>2, <1>3, <2>1, <2>2
  <2>4. QED BY <1>1, <2>1, <2>2, <2>3 DEF ContentInv, WithSkipped
<1>5. CASE ~ OnCheckpointWal
  <2>1. stage = "none"
    BY <1>1, <1>5, TxnsAssumption DEF FlushCommit, FilesInv, LockInv, CheckpointInv, OnCheckpointWal, TypeOK
  <2>2. wal'.txs = Append(wal.txs, committing)
    <3>1. wal' = [wal EXCEPT !.txs = Append(@, committing), !.torn = FALSE]
      BY <1>5 DEF FlushCommit
    <3>2. wal \in FileType /\ wal.iter \notin {-1, 0}
      BY <1>1, <1>5, TxnsAssumption DEF TypeOK, FilesInv, LockInv
    <3>3. QED BY <1>1, <3>1, <3>2, FlushedFacts, Zenon
  <2>3. memory = image[root].txs \o wal.txs
    BY <1>1, <2>1 DEF ContentInv, WithSkipped
  <2>4. memory' = image[root].txs \o wal'.txs
    BY <1>1, <1>2, <1>3, <2>2, <2>3
  <2>5. QED BY <1>1, <2>1, <2>4 DEF ContentInv, WithSkipped
<1>6. QED BY <1>4, <1>5

LEMMA WALStartCheckpointContent ==
  ASSUME Base, ContentInv, NEW b \in Blocks, WALStartCheckpoint(b)
  PROVE  ContentInv'
<1> USE DEF Base
<1>0. merges' = merges /\ checkpoint_wal' = checkpoint_wal
  BY DEF WALStartCheckpoint
<1>1. /\ Running /\ stage = "none" /\ Live = Absent /\ Live' = Absent
      /\ UNCHANGED <<image, root, phase, memory, skipping>>
      /\ stage' \in {"marked", "writing"}
      /\ plan'.txs = memory
  BY <1>0, LiveFacts DEF WALStartCheckpoint, CheckpointLockFree, FilesInv, CheckpointInv,
     OnCheckpointWal, Running, fileVars, memoryVars, commitVars
<1>2. wal'.txs = wal.txs
  <2>1. CASE Bare(wal)
    BY <2>1 DEF WALStartCheckpoint
  <2>2. CASE ~ Bare(wal)
    <3>1. [block |-> b, at |-> Len(wal.txs)] \in MarkType
      BY PlanTypes DEF MarkType
    <3>2. wal' = [Truncated(wal) EXCEPT !.marks = Append(@, [block |-> b, at |-> Len(wal.txs)])]
      BY <2>2 DEF WALStartCheckpoint
    <3>3. QED BY <2>2, <3>1, <3>2, MarkedFacts DEF TypeOK, FilesInv
  <2>3. QED BY <2>1, <2>2
<1>3. memory = WithSkipped(image[root].txs \o wal.txs)
  BY <1>1 DEF ContentInv
<1>4. memory \o Absent.txs = memory
  BY AbsentTxs, ConcatEmptySeq DEF TypeOK
<1>5. QED BY <1>1, <1>2, <1>3, <1>4 DEF ContentInv, WithSkipped

LEMMA WALFinishCheckpointContent ==
  ASSUME Base, ContentInv, WALFinishCheckpoint
  PROVE  ContentInv'
<1> USE DEF Base
<1>1. /\ stage = "headed" /\ stage' = "none" /\ skipping' = NoTxn
      /\ UNCHANGED <<image, root, phase, memory>>
      /\ image[root].txs = plan.txs
      /\ memory = plan.txs \o Live.txs
  BY DEF WALFinishCheckpoint, FilesInv, CheckpointInv, ContentInv, fileVars, memoryVars
<1>2. wal'.txs = Live.txs
  <2>1. CASE plan.has_wal
    <3>1. wal' = checkpoint_wal /\ ~ Leftover
      BY <1>1, <2>1 DEF WALFinishCheckpoint, FinishedLog, FilesInv, CheckpointInv, OnCheckpointWal
    <3>2. QED BY <3>1, LiveFacts
  <2>2. CASE ~ plan.has_wal
    <3>1. wal' = wal /\ Bare(wal) /\ Live = Absent
      BY <1>1, <2>2 DEF WALFinishCheckpoint, FilesInv, CheckpointInv, LockInv, logVars
    <3>2. QED BY <3>1, AbsentTxs DEF Bare
  <2>3. QED BY <2>1, <2>2, PlanTypes
<1>3. QED BY <1>1, <1>2 DEF ContentInv, WithSkipped

LEMMA RecoverContent ==
  ASSUME Base, ContentInv, Recover, ~ MergedTwice'
  PROVE  /\ ContentInv'
         /\ Recovered' = Recovered
         /\ memory' = IF Running' THEN Recovered ELSE <<>>
<1> USE DEF Base
<1>1. /\ ~ Running /\ skipping = NoTxn /\ stage = "none" /\ memory = <<>>
      /\ UNCHANGED <<fileVars, skipping, stage, plan>>
  BY DEF Recover, RemoveWAL, TakeCheckpointWAL, MergeIntoRecoveryWAL, RemoveCheckpointWAL, ReplayLog,
     Refuse, Running, FilesInv, LockInv, commitVars, checkpointVars
<1>2. image' = image /\ root' = root /\ skipping' = NoTxn /\ stage' = "none"
  BY <1>1 DEF fileVars
<1>3. Base' /\ (Marked(wal) /\ Clean => ~ Leftover)
  BY RecoverBase, LastMark DEF FilesInv, MarkInv, Clean, Last
<1>4. ASSUME Replayed' = Replayed, ~ Running', memory' = memory
      PROVE  /\ ContentInv'
             /\ Recovered' = Recovered
             /\ memory' = IF Running' THEN Recovered ELSE <<>>
  BY <1>1, <1>2, <1>4 DEF ContentInv, Recovered
<1>5. ASSUME NEW txs \in Seq(Txns), Loaded(txs), Replayed = txs, wal'.txs = txs
      PROVE  /\ ContentInv'
             /\ Recovered' = Recovered
             /\ memory' = IF Running' THEN Recovered ELSE <<>>
  <2>1. Running' /\ memory' = image[root].txs \o txs
    BY <1>5 DEF Loaded, Running
  <2>2. Replayed' = wal'.txs
    <3>1. (Base /\ Running /\ stage = "none" => Replayed = wal.txs)'
      BY ReplayedAtRest, PTL
    <3>2. QED BY <1>2, <1>3, <2>1, <3>1
  <2>3. QED BY <1>2, <1>5, <2>1, <2>2 DEF ContentInv, Recovered, WithSkipped
<1>6. CASE RemoveWAL
  <2>1. Loaded(<<>>) /\ wal'.txs = <<>>
    BY <1>6, AbsentTxs DEF RemoveWAL
  <2>2. Replayed = <<>>
    <3>1. CASE wal.iter \in {-1, 0}
      BY <3>1 DEF Replayed, FilesInv, FileOK, Marked, Absent, Empty
    <3>2. CASE phase = "closed" /\ Marked(wal) /\ Clean /\ checkpoint_wal = Absent
      BY <1>3, <3>2, AbsentTxs DEF Replayed
    <3>3. QED BY <1>6, <3>1, <3>2 DEF RemoveWAL
  <2>3. <<>> \in Seq(Txns)
    OBVIOUS
  <2>4. QED BY <1>5, <2>1, <2>2, <2>3
<1>7. CASE ReplayLog
  <2>1. Loaded(wal.txs) /\ wal' = wal
    BY <1>7 DEF ReplayLog, logVars
  <2>2. Replayed = wal.txs
    BY <1>7 DEF ReplayLog, Replayed
  <2>3. QED BY <1>5, <2>1, <2>2, PlanTypes
<1>8. CASE TakeCheckpointWAL
  <2>1. wal' = checkpoint_wal /\ phase = "closed" /\ phase' = "nested" /\ memory' = memory
        /\ Marked(wal) /\ Clean
    BY <1>8 DEF TakeCheckpointWAL, memoryVars
  <2>2. Replayed = checkpoint_wal.txs /\ Replayed' = wal'.txs /\ ~ Running'
    BY <1>3, <2>1 DEF Replayed, Running
  <2>3. QED BY <1>4, <2>1, <2>2
<1>9. CASE MergeIntoRecoveryWAL
  <2>1. wal' = Merged(wal, checkpoint_wal) /\ phase = "closed" /\ phase' = "merged" /\ memory' = memory
        /\ Marked(wal) /\ ~ Clean /\ checkpoint_wal # Absent
        /\ ~ Leftover /\ Leftover'
    BY <1>9 DEF Leftover, MergedTwice, MergeIntoRecoveryWAL, memoryVars
  <2>2. Replayed = SubSeq(wal.txs, 1, Last(wal.marks).at) \o checkpoint_wal.txs
    BY <2>1 DEF Replayed
  <2>3. wal'.txs = SubSeq(wal.txs, 1, Last(wal.marks).at) \o checkpoint_wal.txs
    BY <2>1 DEF Merged
  <2>4. Replayed' = wal'.txs /\ ~ Running'
    BY <2>1 DEF Replayed, Running
  <2>5. QED BY <1>4, <2>1, <2>2, <2>3, <2>4
<1>10. CASE RemoveCheckpointWAL
  <2>1. wal' = wal /\ phase = "merged" /\ phase' = "nested" /\ memory' = memory
    BY <1>10 DEF RemoveCheckpointWAL, memoryVars
  <2>2. Leftover
    BY <2>1 DEF FilesInv, CheckpointInv
  <2>3. Replayed = wal.txs /\ Replayed' = wal'.txs /\ ~ Running'
    BY <2>1, <2>2 DEF Replayed, Running
  <2>4. QED BY <1>4, <2>1, <2>3
<1>11. CASE Refuse
  <2>1. wal' = wal /\ Live = Absent /\ Live' = Absent /\ phase = "nested" /\ phase' = "closed"
        /\ memory' = memory
    BY <1>11, LiveFacts DEF Refuse, logVars, memoryVars, FilesInv, CheckpointInv, Running
  <2>2. Marked(wal) => ~ Clean
    BY <1>1, <2>1, LastMark DEF FilesInv, MarkInv, Clean, Last, Running
  <2>3. Replayed = wal.txs /\ ~ Running'
    BY <2>1 DEF Replayed, Running
  <2>4. Replayed' = wal.txs
    BY <1>2, <2>1, <2>2, LiveFacts DEF Replayed, Marked, Clean
  <2>5. QED BY <1>4, <2>1, <2>3, <2>4
<1>12. QED BY <1>6, <1>7, <1>8, <1>9, <1>10, <1>11 DEF Recover
-----------------------------------------------------------------------------
(* Steps of DurableLog. *)

Safe == Base /\ ContentInv /\ AckInv

LEMMA SafeFacts ==
  Safe => /\ Recovered \in Seq(Txns)
          /\ memory \in Seq(Txns)
          /\ Recoverable
          /\ \A e \in Txns : /\ Elems(Append(Recovered, e)) = Elems(Recovered) \cup {e}
                              /\ Elems(Append(memory, e)) = Elems(memory) \cup {e}
<1> SUFFICES ASSUME Safe
             PROVE  /\ Recovered \in Seq(Txns)
                    /\ memory \in Seq(Txns)
                    /\ Recoverable
                    /\ \A e \in Txns : /\ Elems(Append(Recovered, e)) = Elems(Recovered) \cup {e}
                                        /\ Elems(Append(memory, e)) = Elems(memory) \cup {e}
  OBVIOUS
<1>1. Recovered \in Seq(Txns) /\ memory \in Seq(Txns)
  BY ReplayedType DEF Safe, Base, TypeOK
<1>2. Recoverable
  BY MemoryFromContent DEF Safe
<1>3. ASSUME NEW e \in Txns
      PROVE  /\ Elems(Append(Recovered, e)) = Elems(Recovered) \cup {e}
             /\ Elems(Append(memory, e)) = Elems(memory) \cup {e}
  BY <1>1, ElemsAppend
<1>4. QED BY <1>1, <1>2, <1>3

LEMMA MemoryNext == (Base /\ ContentInv => Recoverable)' /\ (Base => Recovered \in Seq(Txns))'
<1>1. Base /\ ContentInv => Recoverable
  BY MemoryFromContent
<1>2. Base => Recovered \in Seq(Txns)
  BY ReplayedType
<1>3. QED BY <1>1, <1>2, PTL

LEMMA CommitSteps ==
  ASSUME Safe, (\E t \in Txns : WriteToWAL(t) \/ CommitSkippingWAL(t)) \/ FlushCommit \/ RevertCommit
  PROVE  Safe' /\ [Durable!Next]_(Durable!vars)
<1> USE DEF Safe
<1>1. Recovered \in Seq(Txns) /\ memory \in Seq(Txns) /\ Recoverable
  BY SafeFacts
<1>2. CASE (\E t \in Txns : WriteToWAL(t)) \/ RevertCommit
  <2>1. Base'
    BY <1>2, WriteToWALBase, RevertCommitBase
  <2>2. /\ Running /\ Running' /\ skipping = NoTxn /\ skipping' = NoTxn /\ stage' = stage
        /\ UNCHANGED <<image, root, memory, plan, acked>>
    BY <1>2 DEF WriteToWAL, RevertCommit, WalLockFree, Running, Base, FilesInv, LockInv, fileVars,
       memoryVars, checkpointVars
  <2>3. ContentInv'
    BY <1>2, <2>2, UnflushedTxs, LiveFacts DEF ContentInv, WithSkipped
  <2>4. Recovered' = Recovered
    BY <1>1, <2>1, <2>2, <2>3, MemoryNext DEF Recoverable
  <2>5. AckInv'
    <3>1. ASSUME NEW t \in Txns, WriteToWAL(t)
          PROVE  AckInv'
      BY <2>2, <2>4, <3>1 DEF AckInv, WriteToWAL
    <3>2. CASE RevertCommit
      BY <2>2, <2>4, <3>2 DEF AckInv, RevertCommit
    <3>3. QED BY <1>2, <3>1, <3>2
  <2>6. QED BY <2>1, <2>2, <2>3, <2>4, <2>5 DEF Durable!vars
<1>3. CASE FlushCommit
  <2>1. Base' /\ ContentInv'
    BY <1>3, FlushCommitBase, FlushCommitContent
  <2>2. /\ Running /\ Running' /\ skipping = NoTxn /\ skipping' = NoTxn /\ committing \in Txns
        /\ committing # NoTxn /\ committing' = NoTxn
        /\ memory' = Append(memory, committing)
        /\ acked' = acked \cup {committing} /\ started' = started
    BY <1>3 DEF FlushCommit, Acknowledge, Running, Base, TypeOK, FilesInv, LockInv
  <2>3. Recovered = memory /\ Recovered' = memory'
    BY <1>1, <2>1, <2>2, MemoryNext DEF Recoverable
  <2>4. Elems(memory') = Elems(memory) \cup {committing}
    BY <2>2, SafeFacts
  <2>5. AckInv'
    BY <2>2, <2>3, <2>4 DEF AckInv
  <2>6. Durable!Commit(committing)
    BY <2>2, <2>3 DEF Durable!Commit, Durable!New, AckInv, Elems
  <2>7. QED BY <2>1, <2>2, <2>5, <2>6 DEF Durable!Next
<1>4. ASSUME NEW t \in Txns, CommitSkippingWAL(t)
      PROVE  Safe' /\ [Durable!Next]_(Durable!vars)
  <2>1. Base'
    BY <1>4, CommitSkippingWALBase
  <2>2. /\ Running /\ Running' /\ skipping = NoTxn /\ skipping' = t /\ t # NoTxn /\ t \notin started
        /\ stage = "none" /\ committing' = NoTxn /\ started' = started \cup {t}
        /\ memory' = Append(memory, t)
        /\ UNCHANGED <<image, root, wal, stage, acked>>
    BY <1>4, TxnsAssumption DEF CommitSkippingWAL, WalLockFree, CheckpointLockFree, Running, logVars,
       fileVars, checkpointVars
  <2>3. ContentInv'
    BY <2>2 DEF ContentInv, WithSkipped
  <2>4. Recovered = memory
    BY <1>1, <2>2 DEF Recoverable
  <2>5. Append(memory, t) = Append(Recovered', t)
    BY <2>1, <2>2, <2>3, MemoryNext DEF Recoverable
  <2>6. Recovered' \in Seq(Txns)
    BY <2>1, MemoryNext
  <2>7. Recovered' = memory
    <3>1. \A s \in Seq(Txns) : Append(memory, t) = Append(s, t) => s = memory
      BY <1>1, AppendIsInjective
    <3>2. QED BY <2>5, <2>6, <3>1
  <2>8. Elems(memory') = Elems(memory) \cup {t}
    BY <2>2, SafeFacts
  <2>9. AckInv'
    BY <2>2, <2>4, <2>7, <2>8 DEF AckInv
  <2>10. Durable!Publish(t)
    BY <2>2, <2>4, <2>7 DEF Durable!Publish, Durable!New, AckInv, Elems
  <2>11. QED BY <2>1, <2>3, <2>9, <2>10 DEF Durable!Next
<1>5. QED BY <1>2, <1>3, <1>4

LEMMA CheckpointSteps ==
  ASSUME Safe, (\E b \in Blocks : WALStartCheckpoint(b)) \/ SwitchWAL \/ WriteHeader
               \/ WALFinishCheckpoint
  PROVE  Safe' /\ [Durable!Next]_(Durable!vars)
<1> USE DEF Safe
<1>1. Recovered \in Seq(Txns) /\ memory \in Seq(Txns) /\ Recoverable
  BY SafeFacts
<1>2. CASE (\E b \in Blocks : WALStartCheckpoint(b)) \/ SwitchWAL
  <2>1. Base'
    BY <1>2, WALStartCheckpointBase, SwitchWALBase
  <2>2. /\ Running /\ Running' /\ stage # "headed" /\ stage' # "headed"
        /\ UNCHANGED <<image, root, memory, skipping, committing, started, acked>>
    BY <1>2 DEF WALStartCheckpoint, SwitchWAL, CheckpointLockFree, Running, fileVars, memoryVars,
       commitVars
  <2>3. ContentInv'
    <3>1. CASE SwitchWAL
      <4>1. Live = Absent /\ Live' = Absent /\ wal' = wal /\ plan' = plan
            /\ stage = "marked" /\ stage' = "writing"
        BY <3>1 DEF SwitchWAL, NoCheckpointWAL, Live, Base, FilesInv, CheckpointInv, OnCheckpointWal,
           Running
      <4>2. QED BY <2>2, <4>1 DEF ContentInv, WithSkipped
    <3>2. QED BY <1>2, <3>1, WALStartCheckpointContent
  <2>4. Recovered' = Recovered
    <3>1. CASE skipping = NoTxn
      BY <1>1, <2>1, <2>2, <2>3, <3>1, MemoryNext DEF Recoverable
    <3>2. CASE skipping # NoTxn
      <4>1. Append(Recovered, skipping) = Append(Recovered', skipping)
        BY <1>1, <2>1, <2>2, <2>3, <3>2, MemoryNext DEF Recoverable
      <4>2. Recovered' \in Seq(Txns)
        BY <2>1, MemoryNext
      <4>3. skipping \in Txns
        BY <3>2 DEF Base, TypeOK
      <4>4. \A s \in Seq(Txns) : Append(Recovered, skipping) = Append(s, skipping) => s = Recovered
        BY <1>1, <4>3, AppendIsInjective
      <4>5. QED BY <4>1, <4>2, <4>4
    <3>3. QED BY <3>1, <3>2
  <2>5. AckInv'
    BY <2>2, <2>4 DEF AckInv
  <2>6. QED BY <2>1, <2>2, <2>3, <2>4, <2>5 DEF Durable!vars
<1>3. CASE WriteHeader
  <2>1. Base'
    BY <1>3, WriteHeaderBase
  <2>2. /\ Running /\ Running' /\ stage = "writing" /\ stage' = "headed"
        /\ UNCHANGED <<plan, memory, skipping, committing, started, acked>>
        /\ Live' = Live
    BY <1>3, LiveFacts DEF WriteHeader, Running, logVars, memoryVars, commitVars
  <2>3. ContentInv'
    BY <2>2 DEF ContentInv
  <2>4. Recovered' = memory
    BY <2>1, <2>2, <2>3, MemoryNext DEF Recoverable
  <2>5. Elems(Recovered) \subseteq Elems(memory)
    <3>1. CASE skipping = NoTxn
      BY <1>1, <2>2, <3>1 DEF Recoverable
    <3>2. CASE skipping # NoTxn
      <4>1. memory = Append(Recovered, skipping) /\ skipping \in Txns
        BY <1>1, <2>2, <3>2 DEF Recoverable, Base, TypeOK
      <4>2. QED BY <4>1, SafeFacts
    <3>3. QED BY <3>1, <3>2
  <2>6. AckInv'
    BY <2>2, <2>4, <2>5 DEF AckInv
  <2>7. Durable!Harden
    BY <2>2, <2>4 DEF Durable!Harden
  <2>8. QED BY <2>1, <2>3, <2>6, <2>7 DEF Durable!Next
<1>4. CASE WALFinishCheckpoint
  <2>1. Base' /\ ContentInv'
    BY <1>4, WALFinishCheckpointBase, WALFinishCheckpointContent
  <2>2. /\ Running /\ Running' /\ stage = "headed" /\ skipping' = NoTxn
        /\ UNCHANGED <<memory, committing, started>>
        /\ acked' = IF skipping = NoTxn THEN acked ELSE acked \cup {skipping}
    BY <1>4 DEF WALFinishCheckpoint, Running, memoryVars
  <2>3. Recovered = memory /\ Recovered' = memory
    BY <1>1, <2>1, <2>2, MemoryNext DEF Recoverable
  <2>4. AckInv'
    BY <2>2, <2>3 DEF AckInv
  <2>5. QED BY <2>1, <2>2, <2>3, <2>4 DEF Durable!vars
<1>5. QED BY <1>2, <1>3, <1>4

\* A crash leaves what was there to replay, or that and the commit under way.
LEMMA CrashReplayed ==
  ASSUME Base, Crash
  PROVE  \/ Replayed' = Replayed
         \/ committing # NoTxn /\ Replayed' = Append(Replayed, committing)
<1> USE DEF Base
<1>1. /\ phase' = "closed" /\ root' = root
      /\ wal'.marks = wal.marks
      /\ Live' = Absent <=> Live = Absent
      /\ Marked(wal') <=> Marked(wal)
      /\ Last(wal'.marks) = Last(wal.marks)
      /\ Clean' <=> Clean
  BY CrashFiles DEF Crash, fileVars, Marked, Clean
<1>2. \/ wal'.txs = wal.txs /\ Live'.txs = Live.txs
      \/ /\ committing # NoTxn /\ OnCheckpointWal /\ wal'.txs = wal.txs
         /\ Live # Absent /\ Live'.txs = Append(Live.txs, committing)
      \/ /\ committing # NoTxn /\ ~ OnCheckpointWal
         /\ wal'.txs = Append(wal.txs, committing) /\ Live'.txs = Live.txs
  <2>1. OnCheckpointWal => Live = checkpoint_wal /\ ~ Leftover
    BY LiveFacts DEF FilesInv, CheckpointInv
  <2>2. committing # NoTxn /\ OnCheckpointWal => checkpoint_wal # Absent
    BY DEF FilesInv, LockInv, Absent
  <2>3. checkpoint_wal'.txs = checkpoint_wal.txs => Live'.txs = Live.txs
    BY CrashFiles, LiveFacts
  <2>4. OnCheckpointWal => Live' = checkpoint_wal'
    BY <2>1, CrashFiles, LiveFacts
  <2>5. QED BY <2>1, <2>2, <2>3, <2>4, CrashFiles
<1>3. Replayed' = IF ~ Marked(wal) THEN wal'.txs
                  ELSE IF Clean THEN Live'.txs
                  ELSE IF Live = Absent THEN wal'.txs
                  ELSE SubSeq(wal'.txs, 1, Last(wal.marks).at) \o Live'.txs
  <2>1. (Base => Replayed = IF phase = "nested" \/ ~ Marked(wal) THEN wal.txs
                            ELSE IF Clean THEN Live.txs
                            ELSE IF Live = Absent THEN wal.txs
                            ELSE SubSeq(wal.txs, 1, Last(wal.marks).at) \o Live.txs)'
    BY ReplayedLive, PTL
  <2>2. Base'
    BY CrashBase
  <2>3. QED BY <1>1, <2>1, <2>2
<1>4. CASE ~ Running
  <2>1. phase \in {"nested", "merged"} /\ committing = NoTxn /\ stage = "none"
    BY <1>4 DEF Crash, Running, FilesInv, LockInv
  <2>2. wal'.txs = wal.txs /\ Live = Absent
    BY <1>2, <1>4, <2>1 DEF FilesInv, CheckpointInv, Running
  <2>3. Marked(wal) => ~ Clean
    BY <2>1, LastMark DEF FilesInv, MarkInv, Clean, Last
  <2>4. Replayed = wal.txs /\ Replayed' = wal.txs
    BY <1>3, <2>2, <2>3, ReplayedLive
  <2>5. QED BY <2>4
<1>5. CASE Running
  <2>1. Replayed = IF ~ Marked(wal) THEN wal.txs
                   ELSE IF Clean THEN Live.txs
                   ELSE IF Live = Absent THEN wal.txs
                   ELSE SubSeq(wal.txs, 1, Last(wal.marks).at) \o Live.txs
    BY <1>5, ReplayedLive DEF Running
  <2>2. CASE wal'.txs = wal.txs /\ Live'.txs = Live.txs
    BY <1>3, <2>1, <2>2
  <2>3. CASE /\ committing # NoTxn /\ OnCheckpointWal /\ wal'.txs = wal.txs
             /\ Live # Absent /\ Live'.txs = Append(Live.txs, committing)
    <3>1. Marked(wal) /\ Last(wal.marks).at = Len(wal.txs)
      BY <2>3 DEF FilesInv, CheckpointInv, OnCheckpointWal
    <3>2. SubSeq(wal.txs, 1, Last(wal.marks).at) = wal.txs
      BY <3>1, PlanTypes, SubSeqFull
    <3>3. committing \in Txns
      BY <2>3 DEF TypeOK
    <3>4. Append(wal.txs \o Live.txs, committing) = wal.txs \o Append(Live.txs, committing)
      BY <3>3, PlanTypes, LiveType, AppendConcatTxns
    <3>5. CASE Clean
      BY <1>3, <2>1, <2>3, <3>1, <3>5
    <3>6. CASE ~ Clean
      BY <1>3, <2>1, <2>3, <3>1, <3>2, <3>4, <3>6
    <3>7. QED BY <3>5, <3>6
  <2>4. CASE /\ committing # NoTxn /\ ~ OnCheckpointWal
             /\ wal'.txs = Append(wal.txs, committing) /\ Live'.txs = Live.txs
    <3>1. stage = "none"
      BY <2>4 DEF FilesInv, LockInv, CheckpointInv, OnCheckpointWal, TypeOK
    <3>2. Live = Absent
      BY <1>5, <2>4 DEF FilesInv, CheckpointInv, Running
    <3>3. Marked(wal) => ~ Clean
      BY <1>5, <3>1, LastMark DEF FilesInv, MarkInv, Clean, Last, Running
    <3>4. QED BY <1>3, <2>1, <2>4, <3>2, <3>3
  <2>5. QED BY <1>2, <2>2, <2>3, <2>4
<1>6. QED BY <1>4, <1>5

LEMMA CrashSteps ==
  ASSUME Safe, Crash
  PROVE  Safe' /\ [Durable!Next]_(Durable!vars)
<1> USE DEF Safe
<1>1. Recovered \in Seq(Txns) /\ memory \in Seq(Txns) /\ Recoverable
  BY SafeFacts
<1>2. Base'
  BY CrashBase
<1>3. /\ ~ Running' /\ memory' = <<>> /\ committing' = NoTxn /\ skipping' = NoTxn /\ stage' = "none"
      /\ UNCHANGED <<image, root, started, acked>>
  BY DEF Crash, Running, fileVars
<1>4. ContentInv'
  BY <1>3 DEF ContentInv
<1>5. \/ Recovered' = Recovered
      \/ committing # NoTxn /\ Recovered' = Append(Recovered, committing)
  <2>1. CASE Replayed' = Replayed
    BY <1>3, <2>1 DEF Recovered
  <2>2. CASE committing # NoTxn /\ Replayed' = Append(Replayed, committing)
    <3>1. committing \in Txns /\ image[root].txs \in Seq(Txns) /\ Replayed \in Seq(Txns)
      BY <2>2, PlanTypes, ReplayedType DEF Base, TypeOK
    <3>2. QED BY <1>3, <2>2, <3>1, AppendConcatTxns DEF Recovered
  <2>3. QED BY <2>1, <2>2, CrashReplayed
<1>6. CASE Recovered' = Recovered
  <2>1. AckInv'
    BY <1>3, <1>6, ElemsEmpty DEF AckInv
  <2>2. CASE Running
    BY <1>2, <1>3, <1>4, <1>6, <2>1, <2>2 DEF Durable!Next, Durable!Crash, Running
  <2>3. CASE ~ Running
    <3>1. memory = <<>>
      BY <2>3 DEF Base, FilesInv, LockInv
    <3>2. QED BY <1>2, <1>3, <1>4, <1>6, <2>1, <2>3, <3>1 DEF Durable!vars, Running
  <2>4. QED BY <1>2, <1>4, <2>1, <2>2, <2>3
<1>7. CASE committing # NoTxn /\ Recovered' = Append(Recovered, committing)
  <2>1. Running /\ committing \in Txns /\ skipping = NoTxn
    BY <1>7 DEF Base, TypeOK, FilesInv, LockInv
  <2>2. Recovered = memory
    BY <1>1, <2>1 DEF Recoverable
  <2>3. Elems(Recovered') = Elems(Recovered) \cup {committing}
    BY <1>7, <2>1, SafeFacts
  <2>4. AckInv'
    BY <1>3, <1>7, <2>3, ElemsEmpty DEF AckInv
  <2>5. Durable!New(committing, Recovered)
    BY <1>7, <2>2 DEF AckInv, Elems, Durable!New
  <2>6. Durable!Crash
    BY <1>3, <1>7, <2>1, <2>5 DEF Durable!Crash
  <2>7. QED BY <1>2, <1>4, <2>4, <2>6 DEF Durable!Next
<1>8. QED BY <1>5, <1>6, <1>7

LEMMA RecoverSteps ==
  ASSUME Safe, Recover, ~ MergedTwice'
  PROVE  Safe' /\ [Durable!Next]_(Durable!vars)
<1> USE DEF Safe
<1>1. Base' /\ ContentInv' /\ Recovered' = Recovered
      /\ memory' = IF Running' THEN Recovered ELSE <<>>
  BY RecoverBase, RecoverContent
<1>2. /\ ~ Running /\ memory = <<>> /\ committing = NoTxn /\ skipping = NoTxn
      /\ UNCHANGED commitVars
  BY DEF Recover, RemoveWAL, TakeCheckpointWAL, MergeIntoRecoveryWAL, RemoveCheckpointWAL, ReplayLog,
     Refuse, Running, Base, FilesInv, LockInv
<1>3. AckInv'
  BY <1>1, <1>2, ElemsEmpty DEF AckInv, commitVars
<1>4. CASE Running'
  BY <1>1, <1>2, <1>3, <1>4 DEF Durable!Next, Durable!Open
<1>5. CASE ~ Running'
  BY <1>1, <1>2, <1>3, <1>5 DEF Durable!vars, Running
<1>6. QED BY <1>4, <1>5

LEMMA StutterSteps ==
  ASSUME Safe, UNCHANGED vars
  PROVE  Safe' /\ UNCHANGED Durable!vars
<1>1. Recovered' = Recovered /\ memory' = memory /\ (Running' <=> Running)
  BY DEF vars, Recovered, Replayed, Running, Marked, Clean, Leftover
<1>2. Base'
  BY DEF vars, Safe, Base, TypeOK, OrderInv, FilesInv, LockInv, MarkInv, CheckpointInv, Running,
     OnCheckpointWal, Clean, Marked, Bare, Live, Leftover, MergedTwice
<1>3. ContentInv' /\ AckInv'
  BY <1>1 DEF vars, Safe, ContentInv, WithSkipped, AckInv, Live, Leftover
<1>4. UNCHANGED Durable!vars
  <2>1. phase' = phase
    BY DEF vars
  <2>2. QED BY <1>1, <2>1 DEF Durable!vars, Running
<1>5. QED BY <1>2, <1>3, <1>4 DEF Safe

LEMMA InitSafe ==
  ASSUME Init
  PROVE  Safe /\ Durable!Init
<1>1. image[root].txs = <<>> /\ Replayed = <<>> /\ Recovered = <<>> /\ Running
  BY AbsentTxs DEF Init, Replayed, Recovered, Marked, Running
<1>2. Base
  BY InitBase
<1>3. ContentInv
  BY <1>1, AbsentTxs DEF Init, ContentInv, WithSkipped
<1>4. AckInv
  BY <1>1, ElemsEmpty DEF Init, AckInv
<1>5. QED BY <1>1, <1>2, <1>3, <1>4 DEF Init, Safe, Durable!Init

LEMMA Step ==
  ASSUME Safe, [Next]_vars, ~ MergedTwice'
  PROVE  Safe' /\ [Durable!Next]_(Durable!vars)
  BY CommitSteps, CheckpointSteps, CrashSteps, RecoverSteps, StutterSteps DEF Next

\* A log that has been merged twice has been so for good.
LEMMA MergedTwiceStays ==
  ASSUME MergedTwice, [Next]_vars
  PROVE  MergedTwice'
<1>1. CASE merges' = merges
  BY <1>1 DEF MergedTwice
<1>2. CASE NoCheckpointWAL
  BY <1>2 DEF MergedTwice, NoCheckpointWAL
<1>3. CASE MergeIntoRecoveryWAL
  BY <1>3 DEF MergedTwice, MergeIntoRecoveryWAL
<1>4. ASSUME NEW t \in Txns, WriteToWAL(t) \/ CommitSkippingWAL(t)
      PROVE  merges' = merges
  BY <1>4 DEF WriteToWAL, CommitSkippingWAL, logVars
<1>5. ASSUME FlushCommit \/ RevertCommit
      PROVE  merges' = merges
  BY <1>5 DEF FlushCommit, RevertCommit
<1>6. ASSUME NEW b \in Blocks, WALStartCheckpoint(b)
      PROVE  merges' = merges
  BY <1>6 DEF WALStartCheckpoint
<1>7. ASSUME WriteHeader \/ Crash \/ UNCHANGED vars
      PROVE  merges' = merges
  BY <1>7 DEF WriteHeader, Crash, logVars, vars
<1>8. ASSUME SwitchWAL \/ WALFinishCheckpoint
      PROVE  NoCheckpointWAL \/ merges' = merges
  BY <1>8 DEF SwitchWAL, WALFinishCheckpoint, logVars
<1>9. ASSUME Recover
      PROVE  NoCheckpointWAL \/ MergeIntoRecoveryWAL \/ merges' = merges
  BY <1>9 DEF Recover, RemoveWAL, TakeCheckpointWAL, RemoveCheckpointWAL, ReplayLog, Refuse, logVars
<1>10. QED BY <1>1, <1>2, <1>3, <1>4, <1>5, <1>6, <1>7, <1>8, <1>9 DEF Next

Always == Sound /\ (MergedTwice \/ Safe)

LEMMA SafeAlways == Spec => []Always
<1>1. Init => Always
  BY InitSound, InitSafe DEF Always
<1>2. Always /\ [Next]_vars => Always'
  BY SoundStep, MergedTwiceStays, Step DEF Always
<1>3. QED BY <1>1, <1>2, PTL DEF Spec
-----------------------------------------------------------------------------
(* Theorems. *)

\* The variables keep their types (TypeOK).
THEOREM TypeCorrect == Spec => []TypeOK
<1>1. Always => TypeOK
  BY DEF Always, Sound
<1>2. QED BY <1>1, SafeAlways, PTL

\* The inductive invariant holds: types and the order of markers in any case, and, until a
\* recovery has merged a checkpoint log twice, which logs and markers there are at each
\* stage, what they hold, and what was acknowledged (IInv).
THEOREM Invariance == Spec => []IInv
<1>1. Always => IInv
  BY DEF Always, Sound, Safe, Base, IInv
<1>2. QED BY <1>1, SafeAlways, PTL

\* CommitTransaction, checkpoints and recovery: no acknowledged transaction is lost, whatever
\* crashes there are, the one before the removal of a merged log included, until a recovery
\* has merged that log a second time.
THEOREM Durability == Spec => []AckedSurvive
<1>1. Always => AckedSurvive
  BY DEF Always, Safe, AckInv, AckedSurvive
<1>2. QED BY <1>1, SafeAlways, PTL

\* What queries see is what a crash would leave, but for one commit waiting for its
\* checkpoint, until a recovery has merged a checkpoint log twice.
THEOREM MemoryIsRecoverable == Spec => []MemoryRecoverable
<1>1. Always => MemoryRecoverable
  BY SafeFacts DEF Always, MemoryRecoverable, Recoverable
<1>2. QED BY <1>1, SafeAlways, PTL

\* The storage manager implements the durable log that its clients rely on, up to the step
\* in which a recovery merges a checkpoint log a second time.
THEOREM Contract == Spec => KeepsContract
<1>1. Init => Durable!Init
  BY InitSafe
<1>2. Always /\ [Next]_vars => [Durable!Next \/ MergedTwice']_(Durable!vars)
  BY Step, MergedTwiceStays DEF Always
<1>3. QED BY <1>1, <1>2, SafeAlways, PTL DEF Spec, KeepsContract

(* Vectors: those of the snapshot are in memory, and in the snapshot being written. *)
FilledInv ==
    /\ stage # "none" => Running
    /\ Running => image[root].filled \subseteq filled
    /\ stage \in {"marked", "writing"} =>
          image[root].filled \subseteq plan.filled /\ plan.filled \subseteq filled

LEMMA FilledStep ==
  ASSUME TypeOK, FilledInv, [Next]_vars
  PROVE  FilledInv' /\ image[root].filled \subseteq image'[root'].filled
<1> USE DEF FilledInv
<1>1. stage # "none" => Running
  OBVIOUS
<1>2. CASE WriteHeader
  <2>1. image' = [image EXCEPT ![plan.block] = Written] /\ root' = plan.block /\ filled' = filled
        /\ stage = "writing" /\ stage' = "headed" /\ Running /\ Running'
    BY <1>2 DEF WriteHeader, memoryVars, Running
  <2>2. image'[root'] = Written
    BY <2>1, PlanTypes DEF TypeOK
  <2>3. QED BY <2>1, <2>2 DEF Written
<1>3. ASSUME ~ WriteHeader
      PROVE  image' = image /\ root' = root
  BY <1>3 DEF Next, WriteToWAL, FlushCommit, RevertCommit, CommitSkippingWAL, WALStartCheckpoint,
     SwitchWAL, WALFinishCheckpoint, Crash, Recover, RemoveWAL, TakeCheckpointWAL,
     MergeIntoRecoveryWAL, RemoveCheckpointWAL, ReplayLog, Refuse, fileVars, vars
<1>4. ASSUME NEW t \in Txns, WriteToWAL(t) \/ CommitSkippingWAL(t)
      PROVE  FilledInv'
  BY <1>4 DEF WriteToWAL, CommitSkippingWAL, Running, fileVars, memoryVars, checkpointVars
<1>5. CASE FlushCommit \/ RevertCommit
  BY <1>5 DEF FlushCommit, RevertCommit, Running, fileVars, memoryVars, checkpointVars
<1>6. ASSUME NEW b \in Blocks, WALStartCheckpoint(b)
      PROVE  FilledInv'
  <2>1. Running /\ plan'.filled = filled /\ UNCHANGED <<image, root, filled, phase>>
    BY <1>6 DEF WALStartCheckpoint, fileVars, memoryVars
  <2>2. QED BY <2>1 DEF Running
<1>7. CASE SwitchWAL \/ WALFinishCheckpoint
  BY <1>7 DEF SwitchWAL, WALFinishCheckpoint, Running, fileVars, memoryVars
<1>8. CASE Crash
  BY <1>8 DEF Crash, Running, fileVars
<1>9. CASE Recover
  <2>1. stage' = "none" /\ UNCHANGED <<image, root>>
    BY <1>1, <1>9 DEF Recover, RemoveWAL, TakeCheckpointWAL, MergeIntoRecoveryWAL, RemoveCheckpointWAL,
       ReplayLog, Refuse, Running, fileVars, checkpointVars
  <2>2. Running' => filled' = image[root].filled
    BY <1>9 DEF Recover, RemoveWAL, TakeCheckpointWAL, MergeIntoRecoveryWAL, RemoveCheckpointWAL,
       ReplayLog, Refuse, Running, Loaded
  <2>3. QED BY <2>1, <2>2
<1>10. CASE UNCHANGED vars
  BY <1>10 DEF vars, Running
<1>11. QED BY <1>2, <1>3, <1>4, <1>5, <1>6, <1>7, <1>8, <1>9, <1>10 DEF Next

\* Checkpoints and recoveries keep the vectors that a snapshot of the file has.
THEOREM VectorsKept == Spec => CheckpointedVectorsKept
<1>1. Init => FilledInv
  BY DEF Init, FilledInv
<1>2. TypeOK /\ FilledInv /\ [Next]_vars => FilledInv'
  BY FilledStep
<1>3. TypeOK /\ FilledInv /\ [Next]_vars => [image[root].filled \subseteq image'[root'].filled]_vars
  BY FilledStep
<1>4. QED BY <1>1, <1>2, <1>3, TypeCorrect, PTL DEF Spec, CheckpointedVectorsKept
=============================================================================
