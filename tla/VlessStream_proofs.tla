------------------------- MODULE VlessStream_proofs -------------------------
(***************************************************************************)
(* What is proved about the upload of a VLESS stream, for every set of     *)
(* connections, every upload and every size of the buffers.                *)
(***************************************************************************)
EXTENDS VlessStream, WellFoundedInduction, TLAPS

\* Of a set of numbers, one is the least.
LEMMA Least ==
    ASSUME NEW S, S \subseteq Nat, S # {}
    PROVE  \E x \in S : \A y \in S : x <= y
<1>1. PICK x \in S : \A y \in S : ~(<<y, x>> \in OpToRel(<, Nat))
  BY WFMin, NatLessThanWellFounded, Zenon
<1>2. \A y \in S : ~(y < x)
  BY <1>1, Zenon DEF OpToRel
<1> QED BY <1>2

\* If the numbers that lack something go down, there are none.
LEMMA NoneLeft ==
    ASSUME NEW S, S \subseteq Nat, 0 \notin S, \A n \in Nat : n + 1 \in S => n \in S
    PROVE  S = {}
<1> SUFFICES ASSUME S # {} PROVE FALSE
  OBVIOUS
<1>1. PICK x \in S : \A y \in S : x <= y
  BY Least, Zenon
<1>2. x \in Nat /\ x # 0
  OBVIOUS
<1>3. x - 1 \in Nat /\ (x - 1) + 1 = x
  BY <1>2
<1>4. x - 1 \in S
  BY <1>3
<1> QED BY <1>1, <1>2, <1>4

-----------------------------------------------------------------------------
\* One cell more of what Says keeps.
Pick(s, i, before) == IF IsData(s[i]) THEN Append(before, s[i]) ELSE before

\* What Says keeps of the first cells, cell by cell.
LEMMA SaysSteps ==
    ASSUME NEW s, Len(s) \in Nat
    PROVE  \E kept :
             /\ kept[0] = <<>>
             /\ \A n \in Nat : n + 1 <= Len(s) => kept[n + 1] = Pick(s, n + 1, kept[n])
             /\ Says(s) = kept[Len(s)]
<1> DEFINE Is(f, m) == f = [n \in 0..m |-> IF n = 0 THEN <<>> ELSE Pick(s, n, f[n - 1])]
           N == Len(s)
<1>2. \E f : Is(f, N)
  <2> DEFINE Bad == {m \in Nat : ~\E f : Is(f, m)}
  <2>1. 0 \notin Bad
    <3> DEFINE f == [n \in 0..0 |-> <<>>]
    <3>1. Is(f, 0)
      OBVIOUS
    <3> QED BY <3>1, Zenon
  <2>2. ASSUME NEW m \in Nat, m \notin Bad PROVE m + 1 \notin Bad
    <3>1. PICK f : Is(f, m)
      BY <2>2, Zenon
    <3> DEFINE h == [n \in 0..(m + 1) |-> IF n = m + 1 THEN Pick(s, m + 1, f[m]) ELSE f[n]]
    <3>2. ASSUME NEW n \in 0..(m + 1)
          PROVE  h[n] = IF n = 0 THEN <<>> ELSE Pick(s, n, h[n - 1])
      <4>1. CASE n = 0
        BY <3>1, <4>1
      <4>2. CASE n # 0 /\ n # m + 1
        <5>1. n \in 0..m /\ n - 1 \in 0..(m + 1) /\ n - 1 # m + 1
          BY <4>2
        <5>2. h[n] = f[n] /\ h[n - 1] = f[n - 1]
          BY <4>2, <5>1
        <5>3. f[n] = Pick(s, n, f[n - 1])
          BY <3>1, <4>2, <5>1
        <5> QED BY <4>2, <5>2, <5>3, Zenon
      <4>3. CASE n = m + 1
        <5>1. m \in 0..(m + 1) /\ m # m + 1 /\ n # 0 /\ n - 1 = m
          BY <4>3
        <5> QED BY <4>3, <5>1
      <4> QED BY <4>1, <4>2, <4>3, Zenon
    <3>3. Is(h, m + 1)
      BY <3>2
    <3> QED BY <3>3, Zenon
  <2>3. Bad = {}
    <3> HIDE DEF Is
    <3>1. Bad \subseteq Nat
      OBVIOUS
    <3>2. \A n \in Nat : n + 1 \in Bad => n \in Bad
      BY <2>2, Zenon
    <3> HIDE DEF Bad
    <3> QED BY <2>1, <3>1, <3>2, NoneLeft, Zenon
  <2> QED BY <2>3, Zenon
<1> DEFINE kept == CHOOSE f : Is(f, N)
<1>3. Is(kept, N)
  BY <1>2, Zenon
<1>4. Says(s) = kept[N]
  BY Zenon DEF Says, Pick
<1>5. kept = [n \in 0..N |-> IF n = 0 THEN <<>> ELSE Pick(s, n, kept[n - 1])]
  BY <1>3
<1> HIDE DEF kept
<1>6. kept[0] = <<>>
  BY <1>5
<1>7. ASSUME NEW n \in Nat, n + 1 <= N PROVE kept[n + 1] = Pick(s, n + 1, kept[n])
  <2>1. n + 1 \in 0..N /\ n + 1 # 0 /\ (n + 1) - 1 = n
    BY <1>7
  <2> HIDE DEF N
  <2> QED BY <1>5, <2>1
<1> QED BY <1>4, <1>6, <1>7, Zenon

\* No cells, no payload.
LEMMA SaysNothing == Says(<<>>) = <<>>
<1>1. Len(<<>>) = 0
  OBVIOUS
<1> QED BY <1>1, SaysSteps

\* A cell more is a cell of payload more, or none.
LEMMA SaysAppend ==
    ASSUME NEW T, NEW s \in Seq(T), NEW c \in T
    PROVE  Says(Append(s, c)) = IF IsData(c) THEN Append(Says(s), c) ELSE Says(s)
<1> DEFINE t == Append(s, c)
           N == Len(s)
<1>1. N \in Nat /\ Len(t) = N + 1 /\ t[N + 1] = c /\ \A i \in 1..N : t[i] = s[i]
  OBVIOUS
<1>2. PICK f : /\ f[0] = <<>>
               /\ \A n \in Nat : n + 1 <= N => f[n + 1] = Pick(s, n + 1, f[n])
               /\ Says(s) = f[N]
  BY <1>1, SaysSteps, Zenon
<1>3. PICK h : /\ h[0] = <<>>
               /\ \A n \in Nat : n + 1 <= Len(t) => h[n + 1] = Pick(t, n + 1, h[n])
               /\ Says(t) = h[Len(t)]
  <2>1. Len(t) \in Nat
    BY <1>1
  <2> HIDE DEF t
  <2> QED BY <2>1, SaysSteps, Zenon
<1> HIDE DEF t, N
<1>4. h[N] = f[N]
  <2> DEFINE Bad == {m \in Nat : m <= N /\ h[m] # f[m]}
  <2>1. 0 \notin Bad
    BY <1>2, <1>3, Zenon
  <2>2. ASSUME NEW m \in Nat, m + 1 \in Bad PROVE m \in Bad
    <3>1. m + 1 <= N /\ m + 1 <= Len(t) /\ m <= N /\ m + 1 \in 1..N
      BY <1>1, <2>2
    <3>2. h[m + 1] = Pick(t, m + 1, h[m]) /\ f[m + 1] = Pick(s, m + 1, f[m])
      BY <1>2, <1>3, <3>1, Zenon
    <3>3. t[m + 1] = s[m + 1]
      BY <1>1, <3>1, Zenon
    <3>4. h[m + 1] # f[m + 1]
      BY <2>2, Zenon
    <3>5. h[m] # f[m]
      <4>1. SUFFICES ASSUME h[m] = f[m] PROVE FALSE
        OBVIOUS
      <4>2. Pick(t, m + 1, h[m]) = Pick(s, m + 1, f[m])
        BY <3>3, <4>1, Zenon DEF Pick
      <4> QED BY <3>2, <3>4, <4>2, Zenon
    <3> QED BY <3>1, <3>5, Zenon
  <2>3. Bad = {}
    <3>1. Bad \subseteq Nat
      OBVIOUS
    <3> HIDE DEF Bad
    <3> QED BY <2>1, <2>2, <3>1, NoneLeft, Zenon
  <2>4. N \in Nat /\ N <= N
    BY <1>1
  <2> QED BY <2>3, <2>4, Zenon
<1>5. h[N + 1] = Pick(t, N + 1, h[N])
  BY <1>1, <1>3
<1>6. Says(t) = h[N + 1]
  BY <1>1, <1>3, Zenon
<1> QED BY <1>1, <1>2, <1>4, <1>5, <1>6, Zenon DEF Pick, t

-----------------------------------------------------------------------------
\* the cells of an upload, and how they go out
Cells == [k : {"data", "msg", "ws", "id", "cmd", "pad"}, v : Nat, n : Nat, p : Nat]
Outgoing == [cell : Cells, sealed : BOOLEAN]
CellsOf(s) == [i \in DOMAIN s |-> s[i].cell]
\* what the peer gets of the upload so far, and what it is about to get
Upload == CellsOf(sent) \o pending

\* The writing half of the state; only WebSocket and Vision streams keep a frame.
WriteTypes ==
    /\ link \in Links /\ accepted \in Nat /\ accepted <= Len(link.up)
    /\ pending \in Seq(Cells) /\ sent \in Seq(Outgoing)
    /\ pad \in [first : BOOLEAN, plain : BOOLEAN, switch : BOOLEAN] /\ writeDirect \in BOOLEAN
    /\ Kind \in {"tcp", "raw", "grpc"} => pending = <<>>

\* A cell ends the outer TLS, at the end of its frame; it is the only one.
Switches(c) == c.k = "cmd" /\ c.v = 2
Announces(s, j) ==
    /\ j \in 1..Len(s) /\ Switches(s[j])
    /\ \A i \in 1..Len(s) : Switches(s[i]) => i = j
FrameEnd(s, j) == j + s[j].n + s[j].p

\* Before the switch all is sealed; it is due when its frame is the last one; after
\* it the outer TLS covers what the frame ends.
SealInv ==
    /\ ~writeDirect => \A i \in 1..Len(sent) : sent[i].sealed
    /\ ~writeDirect /\ ~pad.switch => \A i \in 1..Len(Upload) : ~Switches(Upload[i])
    /\ pad.switch => /\ ~writeDirect /\ pad.plain
                     /\ \E j \in Nat : Announces(Upload, j) /\ FrameEnd(Upload, j) = Len(Upload)
    /\ writeDirect => /\ ~pad.switch /\ pad.plain /\ pending = <<>>
                      /\ \E j \in Nat :
                           /\ Announces(Upload, j) /\ FrameEnd(Upload, j) <= Len(sent)
                           /\ \A i \in 1..Len(sent) : sent[i].sealed <=> i <= FrameEnd(Upload, j)

\* The inductive invariant.
UploadInv ==
    /\ WriteTypes
    /\ Says(Upload) = First(link.up, accepted)
    /\ Vision => SealInv

-----------------------------------------------------------------------------
\* The cells of what is sent.
LEMMA CellsFacts ==
    ASSUME NEW s \in Seq(Outgoing)
    PROVE  /\ CellsOf(s) \in Seq(Cells) /\ Len(CellsOf(s)) = Len(s)
           /\ \A i \in 1..Len(s) : CellsOf(s)[i] = s[i].cell
           /\ \A c \in Cells, b \in BOOLEAN : CellsOf(Append(s, [cell |-> c, sealed |-> b])) = Append(CellsOf(s), c)
<1>1. CellsOf(s) \in Seq(Cells) /\ Len(CellsOf(s)) = Len(s) /\ \A i \in 1..Len(s) : CellsOf(s)[i] = s[i].cell
  <2>1. DOMAIN s = 1..Len(s) /\ Len(s) \in Nat
    OBVIOUS
  <2>2. \A i \in 1..Len(s) : s[i] \in Outgoing
    OBVIOUS
  <2>3. \A i \in 1..Len(s) : s[i].cell \in Cells
    BY <2>2 DEF Outgoing
  <2>4. CellsOf(s) = [i \in 1..Len(s) |-> s[i].cell]
    BY <2>1, Zenon DEF CellsOf
  <2>5. CellsOf(s) \in [1..Len(s) -> Cells]
    BY <2>3, <2>4, Zenon
  <2>6. CellsOf(s) \in Seq(Cells) /\ Len(CellsOf(s)) = Len(s)
    BY <2>1, <2>5
  <2> QED BY <2>4, <2>6, Zenon
<1>2. ASSUME NEW c \in Cells, NEW b \in BOOLEAN
      PROVE  CellsOf(Append(s, [cell |-> c, sealed |-> b])) = Append(CellsOf(s), c)
  <2> DEFINE r == [cell |-> c, sealed |-> b]
             t == Append(s, r)
  <2>1. r \in Outgoing /\ r.cell = c
    BY DEF Outgoing
  <2> HIDE DEF r
  <2>2. t \in Seq(Outgoing) /\ DOMAIN t = 1..(Len(s) + 1) /\ t[Len(s) + 1] = r
        /\ \A i \in 1..Len(s) : t[i] = s[i]
    BY <2>1
  <2> HIDE DEF t
  <2>3. CellsOf(t) = [i \in 1..(Len(s) + 1) |-> t[i].cell]
    BY <2>2, Zenon DEF CellsOf
  <2>4. ASSUME NEW i \in 1..(Len(s) + 1) PROVE t[i].cell = Append(CellsOf(s), c)[i]
    <3>1. Len(s) \in Nat
      OBVIOUS
    <3>2. CASE i = Len(s) + 1
      <4>1. Append(CellsOf(s), c)[i] = c
        BY <1>1, <3>1, <3>2
      <4> QED BY <2>1, <2>2, <3>2, <4>1, Zenon
    <3>3. CASE i \in 1..Len(s)
      <4>1. Append(CellsOf(s), c)[i] = CellsOf(s)[i]
        BY <1>1, <3>1, <3>3
      <4> QED BY <1>1, <2>2, <3>3, <4>1, Zenon
    <3>4. i = Len(s) + 1 \/ i \in 1..Len(s)
      BY <3>1
    <3> QED BY <3>2, <3>3, <3>4, Zenon
  <2>5. Append(CellsOf(s), c) \in Seq(Cells) /\ Len(Append(CellsOf(s), c)) = Len(s) + 1
    BY <1>1
  <2>6. Append(CellsOf(s), c) = [i \in 1..(Len(s) + 1) |-> Append(CellsOf(s), c)[i]]
    <3> DEFINE u == Append(CellsOf(s), c)
    <3>1. u \in Seq(Cells) /\ Len(u) = Len(s) + 1
      BY <2>5, Zenon
    <3> HIDE DEF u
    <3>2. u = [i \in 1..(Len(s) + 1) |-> u[i]]
      BY <3>1
    <3> QED BY <3>2, Zenon DEF u
  <2>7. CellsOf(t) = Append(CellsOf(s), c)
    BY <2>3, <2>4, <2>6, Zenon
  <2> QED BY <2>7, Zenon DEF t, r
<1> QED BY <1>1, <1>2, Zenon

\* A cell goes out.
LEMMA OnWireOne ==
    ASSUME NEW c \in Cells
    PROVE  OnWire(<<c>>) = <<[cell |-> c, sealed |-> ~writeDirect]>>
BY DEF OnWire

\* Accepting one more cell of what the application writes.
LEMMA FirstOfUpload ==
    ASSUME WriteTypes, MoreToWrite
    PROVE  /\ link.up[accepted + 1] \in Cells /\ IsData(link.up[accepted + 1])
           /\ First(link.up, accepted + 1) = Append(First(link.up, accepted), link.up[accepted + 1])
           /\ accepted + 1 \in Nat /\ accepted + 1 <= Len(link.up)
<1>1. link.up \in Seq(Payload) /\ accepted \in Nat /\ accepted < Len(link.up) /\ Len(link.up) \in Nat
  BY LinksAssumption DEF WriteTypes, MoreToWrite
<1>2. accepted + 1 \in 1..Len(link.up)
  BY <1>1
<1>3. link.up[accepted + 1] \in Payload
  BY <1>1, <1>2
<1>4. First(link.up, accepted + 1) = SubSeq(link.up, 1, accepted + 1) /\ First(link.up, accepted) = SubSeq(link.up, 1, accepted)
  BY <1>1 DEF First, Smaller
<1>5. SubSeq(link.up, 1, accepted + 1) = Append(SubSeq(link.up, 1, accepted), link.up[accepted + 1])
  BY <1>1
<1>6. link.up[accepted + 1] \in Cells /\ IsData(link.up[accepted + 1])
  BY <1>3 DEF Payload, Cells, IsData
<1>7. accepted + 1 \in Nat /\ accepted + 1 <= Len(link.up)
  BY <1>1
<1> QED BY <1>4, <1>5, <1>6, <1>7, Zenon

-----------------------------------------------------------------------------
\* No cell ends the outer TLS.
Quiet(s) == \A i \in 1..Len(s) : ~Switches(s[i])

\* One more cell, and the switches among them.
LEMMA AppendCell ==
    ASSUME NEW s \in Seq(Cells), NEW c \in Cells
    PROVE  /\ Append(s, c) \in Seq(Cells) /\ Len(Append(s, c)) = Len(s) + 1 /\ Len(s) \in Nat
           /\ Append(s, c)[Len(s) + 1] = c
           /\ \A i \in 1..Len(s) : Append(s, c)[i] = s[i]
           /\ \A i \in 1..(Len(s) + 1) : i \in 1..Len(s) \/ i = Len(s) + 1
  OBVIOUS

\* Without a switch before and without one now.
LEMMA StaysQuiet ==
    ASSUME NEW s \in Seq(Cells), NEW c \in Cells, Quiet(s), ~Switches(c)
    PROVE  Quiet(Append(s, c))
<1> DEFINE t == Append(s, c)
<1>1. SUFFICES ASSUME NEW i \in 1..Len(t) PROVE ~Switches(t[i])
  BY Zenon DEF Quiet
<1>2. i \in 1..(Len(s) + 1)
  BY AppendCell, Zenon
<1>3. CASE i \in 1..Len(s)
  <2>1. t[i] = s[i]
    BY <1>3, AppendCell, Zenon
  <2> QED BY <1>3, <2>1, Zenon DEF Quiet
<1>4. CASE i = Len(s) + 1
  BY <1>4, AppendCell, Zenon
<1> QED BY <1>2, <1>3, <1>4, AppendCell, Zenon

\* A switch stays where it is.
LEMMA StaysAnnounced ==
    ASSUME NEW s \in Seq(Cells), NEW c \in Cells, NEW j \in Nat, Announces(s, j), ~Switches(c)
    PROVE  Announces(Append(s, c), j) /\ FrameEnd(Append(s, c), j) = FrameEnd(s, j)
<1> DEFINE t == Append(s, c)
<1>1. j \in 1..Len(s) /\ t[j] = s[j] /\ Switches(s[j])
  BY AppendCell, Zenon DEF Announces
<1>2. j \in 1..(Len(s) + 1)
  BY <1>1, AppendCell
<1>3. ASSUME NEW i \in 1..Len(t), Switches(t[i]) PROVE i = j
  <2>1. i \in 1..(Len(s) + 1)
    BY <1>3, AppendCell, Zenon
  <2>2. i \in 1..Len(s)
    <3>1. i # Len(s) + 1
      BY <1>3, AppendCell, Zenon
    <3> QED BY <2>1, <3>1, AppendCell, Zenon
  <2>3. t[i] = s[i]
    BY <2>2, AppendCell, Zenon
  <2> QED BY <1>3, <2>2, <2>3, Zenon DEF Announces
<1>4. j \in 1..Len(t)
  BY <1>2, AppendCell, Zenon
<1>5. Announces(t, j)
  BY <1>1, <1>3, <1>4, Zenon DEF Announces
<1> QED BY <1>1, <1>5, Zenon DEF FrameEnd

\* The first switch.
LEMMA NowAnnounced ==
    ASSUME NEW s \in Seq(Cells), NEW c \in Cells, Quiet(s), Switches(c)
    PROVE  /\ Announces(Append(s, c), Len(s) + 1)
           /\ FrameEnd(Append(s, c), Len(s) + 1) = Len(s) + 1 + c.n + c.p
<1> DEFINE t == Append(s, c)
<1>1. Len(s) + 1 \in 1..(Len(s) + 1)
  BY AppendCell
<1>2. Len(s) + 1 \in 1..Len(t) /\ t[Len(s) + 1] = c
  BY <1>1, AppendCell, Zenon
<1>3. ASSUME NEW i \in 1..Len(t), Switches(t[i]) PROVE i = Len(s) + 1
  <2>1. i \in 1..(Len(s) + 1)
    BY <1>3, AppendCell, Zenon
  <2>2. CASE i \in 1..Len(s)
    <3>1. t[i] = s[i]
      BY <2>2, AppendCell, Zenon
    <3> QED BY <1>3, <2>2, <3>1, Zenon DEF Quiet
  <2> QED BY <2>1, <2>2, AppendCell, Zenon
<1>4. Announces(t, Len(s) + 1)
  BY <1>2, <1>3, Zenon DEF Announces
<1> QED BY <1>2, <1>4, Zenon DEF FrameEnd

\* With nothing pending, the upload is what was sent.
LEMMA AllIsSent ==
    ASSUME WriteTypes
    PROVE  /\ CellsOf(sent) \in Seq(Cells) /\ Upload \in Seq(Cells) /\ Len(Upload) = Len(sent) + Len(pending)
           /\ Len(sent) \in Nat /\ Len(pending) \in Nat
           /\ \A i \in 1..Len(sent) : Upload[i] = sent[i].cell
           /\ pending = <<>> => Upload = CellsOf(sent)
<1>1. sent \in Seq(Outgoing) /\ pending \in Seq(Cells)
  BY Zenon DEF WriteTypes
<1>2. CellsOf(sent) \in Seq(Cells) /\ Len(CellsOf(sent)) = Len(sent) /\ \A i \in 1..Len(sent) : CellsOf(sent)[i] = sent[i].cell
  BY <1>1, CellsFacts, Zenon
<1>3. Len(sent) \in Nat /\ Len(pending) \in Nat
  BY <1>1
<1>4. Upload \in Seq(Cells) /\ Len(Upload) = Len(sent) + Len(pending)
  BY <1>1, <1>2 DEF Upload
<1>5. \A i \in 1..Len(sent) : Upload[i] = CellsOf(sent)[i]
  BY <1>1, <1>2 DEF Upload
<1>6. pending = <<>> => Upload = CellsOf(sent)
  BY <1>2 DEF Upload
<1> QED BY <1>2, <1>3, <1>4, <1>5, <1>6, Zenon

\* Nothing of the upload moves.
LEMMA UploadStays ==
    ASSUME UploadInv, UNCHANGED <<link, writeVars>> PROVE UploadInv'
<1>1. UNCHANGED <<link, accepted, pending, pad, writeDirect, sent>>
  BY Zenon DEF writeVars
<1>2. Upload' = Upload
  BY <1>1, Zenon DEF Upload, CellsOf
<1>3. WriteTypes'
  BY <1>1, Zenon DEF UploadInv, WriteTypes, Kind
<1>4. SealInv => SealInv'
  BY <1>1, <1>2, Zenon DEF SealInv
<1> QED BY <1>1, <1>2, <1>3, <1>4, Zenon DEF UploadInv, Vision, Kind

\* A cell is sent at once.
LEMMA SendOne ==
    ASSUME WriteTypes, NEW c \in Cells, sent' = sent \o OnWire(<<c>>)
    PROVE  /\ sent' = Append(sent, [cell |-> c, sealed |-> ~writeDirect])
           /\ sent' \in Seq(Outgoing) /\ CellsOf(sent') = Append(CellsOf(sent), c)
           /\ Len(sent') = Len(sent) + 1
           /\ \A i \in 1..Len(sent) : sent'[i] = sent[i]
           /\ sent'[Len(sent) + 1].sealed = ~writeDirect
<1> DEFINE r == [cell |-> c, sealed |-> ~writeDirect]
<1>1. sent \in Seq(Outgoing) /\ writeDirect \in BOOLEAN
  BY Zenon DEF WriteTypes
<1>2. r \in Outgoing /\ r.sealed = ~writeDirect
  BY <1>1 DEF Outgoing
<1>3. sent' = sent \o <<r>>
  BY OnWireOne, Zenon
<1>4. CellsOf(Append(sent, r)) = Append(CellsOf(sent), c)
  BY <1>1, CellsFacts
<1> HIDE DEF r
<1>5. sent' = Append(sent, r)
  <2>1. sent \o <<r>> = Append(sent, r)
    BY <1>1, <1>2
  <2> QED BY <1>3, <2>1, Zenon
<1>6. Append(sent, r) \in Seq(Outgoing) /\ Len(Append(sent, r)) = Len(sent) + 1
      /\ Append(sent, r)[Len(sent) + 1] = r
      /\ \A i \in 1..Len(sent) : Append(sent, r)[i] = sent[i]
  BY <1>1, <1>2
<1> QED BY <1>2, <1>4, <1>5, <1>6, Zenon DEF r

-----------------------------------------------------------------------------
\* Initially nothing is accepted and nothing is sent.
LEMMA UploadInit == Init => UploadInv
<1> SUFFICES ASSUME Init PROVE UploadInv
  OBVIOUS
<1>1. link \in Links /\ accepted = 0 /\ pending = <<>> /\ sent = <<>> /\ writeDirect = FALSE
      /\ pad = [first |-> TRUE, plain |-> FALSE, switch |-> FALSE]
  BY Zenon DEF Init
<1>2. link.up \in Seq(Payload)
  BY <1>1, LinksAssumption, Zenon
<1>3. WriteTypes
  <2>1. Len(link.up) \in Nat /\ 0 <= Len(link.up) /\ <<>> \in Seq(Cells) /\ <<>> \in Seq(Outgoing)
    BY <1>2
  <2>2. pad \in [first : BOOLEAN, plain : BOOLEAN, switch : BOOLEAN]
    BY <1>1
  <2>3. 0 \in Nat
    OBVIOUS
  <2> QED BY <1>1, <2>1, <2>2, <2>3, Zenon DEF WriteTypes
<1>4. CellsOf(sent) = <<>> /\ Len(sent) = 0
  BY <1>1 DEF CellsOf
<1>5. Upload = <<>> /\ Len(Upload) = 0
  BY <1>1, <1>4 DEF Upload
<1>6. Says(Upload) = First(link.up, accepted)
  <2>1. First(link.up, 0) = <<>>
    BY <1>2 DEF First, Smaller
  <2> QED BY <1>1, <1>5, <2>1, SaysNothing, Zenon
<1>7. SealInv
  BY <1>1, <1>4, <1>5 DEF SealInv
<1> QED BY <1>3, <1>6, <1>7, Zenon DEF UploadInv

\* What a cell may carry.
LEMMA OwnCells ==
    /\ \A n \in Nat : Cell("msg", 0, n, 0) \in Cells /\ ~IsData(Cell("msg", 0, n, 0))
    /\ \A v, n \in Nat : Cell("ws", v, n, 0) \in Cells /\ ~IsData(Cell("ws", v, n, 0))
    /\ \A v, n, p \in Nat : /\ Cell("cmd", v, n, p) \in Cells /\ ~IsData(Cell("cmd", v, n, p))
                            /\ (Switches(Cell("cmd", v, n, p)) <=> v = 2)
                            /\ Cell("cmd", v, n, p).n = n /\ Cell("cmd", v, n, p).p = p
    /\ \A k \in {"id", "pad"} : /\ Cell(k, 0, 0, 0) \in Cells /\ ~IsData(Cell(k, 0, 0, 0))
                                /\ ~Switches(Cell(k, 0, 0, 0))
    /\ \A c \in Cells : IsData(c) => ~Switches(c)
BY DEF Cell, Cells, IsData, Switches

\* A write that goes straight to the socket.
LEMMA WriteThroughStep == ASSUME UploadInv, WriteThrough PROVE UploadInv'
<1> DEFINE c == link.up[accepted + 1]
<1>1. /\ UNCHANGED <<link, pending, pad, writeDirect>> /\ pending = <<>> /\ ~pad.switch
      /\ sent' = sent \o OnWire(<<c>>) /\ accepted' = accepted + 1
      /\ MoreToWrite /\ (Vision => pad.plain)
  BY DEF WriteThrough, Flushed, Accept, WriteUnchanged, socketVars, Chunk, Vision
<1>2. WriteTypes /\ accepted \in Nat /\ link.up \in Seq(Payload)
  BY LinksAssumption, Zenon DEF UploadInv, WriteTypes
<1>3. c \in Cells /\ IsData(c) /\ First(link.up, accepted + 1) = Append(First(link.up, accepted), c)
  BY <1>1, <1>2, FirstOfUpload, Zenon
<1>4. ~Switches(c)
  BY <1>3, OwnCells, Zenon
<1> HIDE DEF c
<1>5. /\ sent' \in Seq(Outgoing) /\ CellsOf(sent') = Append(CellsOf(sent), c) /\ Len(sent') = Len(sent) + 1
      /\ \A i \in 1..Len(sent) : sent'[i] = sent[i]
      /\ sent'[Len(sent) + 1].sealed = ~writeDirect
  BY <1>1, <1>2, <1>3, SendOne, Zenon
<1>6. /\ Upload \in Seq(Cells) /\ CellsOf(sent) = Upload /\ Len(Upload) = Len(sent) /\ Len(sent) \in Nat
  BY <1>1, <1>2, AllIsSent
<1>7. Upload' = Append(Upload, c)
  <2>1. Upload' = Append(Upload, c) \o <<>>
    BY <1>1, <1>5, <1>6, Zenon DEF Upload, CellsOf
  <2>2. Append(Upload, c) \in Seq(Cells)
    BY <1>3, <1>6
  <2> QED BY <2>1, <2>2
<1>8. WriteTypes'
  <2>1. accepted + 1 \in Nat /\ accepted + 1 <= Len(link.up)
    BY <1>1, <1>2 DEF MoreToWrite
  <2> QED BY <1>1, <1>2, <1>5, <2>1, Zenon DEF WriteTypes, Kind
<1>9. Says(Upload)' = First(link.up, accepted)'
  <2>1. Says(Append(Upload, c)) = Append(Says(Upload), c)
    BY <1>3, <1>6, SaysAppend, Zenon
  <2>2. First(link.up, accepted)' = First(link.up, accepted + 1)
    BY <1>1, Zenon DEF First
  <2> QED BY <1>3, <1>7, <2>1, <2>2, Zenon DEF UploadInv
<1>10. ASSUME Vision PROVE SealInv'
  <2>1. SealInv /\ writeDirect \in BOOLEAN /\ pad.plain
    BY <1>1, <1>2, <1>10, Zenon DEF UploadInv, WriteTypes
  <2>2. \A i \in 1..Len(sent') : i \in 1..Len(sent) \/ i = Len(sent) + 1
    BY <1>5, <1>6
  <2>3. CASE ~writeDirect
    <3>1. \A i \in 1..Len(sent') : sent'[i].sealed
      BY <1>5, <2>1, <2>2, <2>3, Zenon DEF SealInv
    <3>2. Quiet(Upload)
      BY <1>1, <2>1, <2>3, Zenon DEF SealInv, Quiet
    <3>3. Quiet(Append(Upload, c))
      BY <1>3, <1>4, <1>6, <3>2, StaysQuiet, Zenon
    <3> QED BY <1>1, <1>7, <2>3, <3>1, <3>3, Zenon DEF SealInv, Quiet
  <2>4. CASE writeDirect
    <3>1. PICK j \in Nat : /\ Announces(Upload, j) /\ FrameEnd(Upload, j) <= Len(sent)
                           /\ \A i \in 1..Len(sent) : sent[i].sealed <=> i <= FrameEnd(Upload, j)
      BY <2>1, <2>4, Zenon DEF SealInv
    <3>2. Announces(Append(Upload, c), j) /\ FrameEnd(Append(Upload, c), j) = FrameEnd(Upload, j)
      BY <1>3, <1>4, <1>6, <3>1, StaysAnnounced, Zenon
    <3>3. FrameEnd(Upload, j) \in Nat
      <4>1. Upload[j] \in Cells
        BY <1>6, <3>1 DEF Announces
      <4> QED BY <4>1 DEF FrameEnd, Cells
    <3> DEFINE e == FrameEnd(Upload, j)
    <3> HIDE DEF e
    <3>4. e <= Len(sent') /\ ~(Len(sent) + 1 <= e)
      BY <1>5, <1>6, <3>1, <3>3 DEF e
    <3>5. \A i \in 1..Len(sent') : sent'[i].sealed <=> i <= e
      <4>1. TAKE i \in 1..Len(sent')
      <4>2. CASE i \in 1..Len(sent)
        BY <1>5, <3>1, <4>2, Zenon DEF e
      <4>3. CASE i = Len(sent) + 1
        BY <1>5, <2>4, <3>4, <4>3, Zenon
      <4> QED BY <2>2, <4>2, <4>3, Zenon
    <3>6. /\ Announces(Upload', j) /\ FrameEnd(Upload', j) <= Len(sent')
          /\ \A i \in 1..Len(sent') : sent'[i].sealed <=> i <= FrameEnd(Upload', j)
      BY <1>7, <3>2, <3>4, <3>5, Zenon DEF e
    <3> QED BY <1>1, <2>1, <2>4, <3>6, Zenon DEF SealInv, Announces, FrameEnd
  <2> QED BY <2>1, <2>3, <2>4, Zenon
<1>11. Vision' <=> Vision
  BY <1>1, Zenon DEF Vision, Kind
<1> QED BY <1>8, <1>9, <1>10, <1>11, Zenon DEF UploadInv

\* A gRPC message with its header.
LEMMA WriteMessageStep == ASSUME UploadInv, WriteMessage PROVE UploadInv'
<1> DEFINE c == link.up[accepted + 1]
           m == Cell("msg", 0, 1, 0)
<1>1. Chunk = <<c>> /\ Len(Chunk) = 1
  BY DEF Chunk
<1>2. /\ UNCHANGED <<link, pending, pad, writeDirect>> /\ sent' = sent \o OnWire(<<m>> \o <<c>>)
      /\ accepted' = accepted + 1 /\ MoreToWrite /\ Kind = "grpc"
  BY <1>1 DEF WriteMessage, Accept, WriteUnchanged, socketVars
<1>3. WriteTypes /\ accepted \in Nat /\ link.up \in Seq(Payload) /\ pending = <<>> /\ sent \in Seq(Outgoing)
      /\ writeDirect \in BOOLEAN
  BY <1>2, LinksAssumption, Zenon DEF UploadInv, WriteTypes
<1>4. c \in Cells /\ IsData(c) /\ First(link.up, accepted + 1) = Append(First(link.up, accepted), c)
  BY <1>2, <1>3, FirstOfUpload, Zenon
<1>5. m \in Cells /\ ~IsData(m)
  BY OwnCells
<1> HIDE DEF c, m
<1> DEFINE rm == [cell |-> m, sealed |-> ~writeDirect]
           rc == [cell |-> c, sealed |-> ~writeDirect]
<1>6. sent' = Append(Append(sent, rm), rc)
  <2>1. OnWire(<<m>> \o <<c>>) = <<rm, rc>>
    BY <1>4, <1>5 DEF OnWire
  <2>2. rm \in Outgoing /\ rc \in Outgoing
    BY <1>3, <1>4, <1>5 DEF Outgoing
  <2> HIDE DEF rm, rc
  <2>3. sent \o <<rm, rc>> = Append(Append(sent, rm), rc)
    BY <1>3, <2>2
  <2> QED BY <1>2, <2>1, <2>3, Zenon
<1>7. sent' \in Seq(Outgoing) /\ CellsOf(sent') = Append(Append(CellsOf(sent), m), c)
  <2>1. Append(sent, rm) \in Seq(Outgoing) /\ CellsOf(Append(sent, rm)) = Append(CellsOf(sent), m)
    <3>1. rm \in Outgoing
      BY <1>3, <1>5 DEF Outgoing
    <3>2. Append(sent, rm) \in Seq(Outgoing)
      BY <1>3, <3>1, Zenon, SMT
    <3> QED BY <1>3, <1>5, <3>2, CellsFacts
  <2>2. rc \in Outgoing
    BY <1>3, <1>4 DEF Outgoing
  <2>3. CellsOf(Append(Append(sent, rm), rc)) = Append(CellsOf(Append(sent, rm)), c)
    BY <1>3, <1>4, <2>1, CellsFacts
  <2> HIDE DEF rm, rc
  <2>4. Append(Append(sent, rm), rc) \in Seq(Outgoing)
    BY <2>1, <2>2
  <2> QED BY <1>6, <2>1, <2>3, <2>4, Zenon
<1>8. Upload \in Seq(Cells) /\ CellsOf(sent) = Upload
  BY <1>3, AllIsSent, Zenon
<1>9. Append(Upload, m) \in Seq(Cells) /\ Append(Append(Upload, m), c) \in Seq(Cells)
  BY <1>4, <1>5, <1>8, AppendCell, Zenon
<1>10. Upload' = Append(Append(Upload, m), c)
  <2>1. Upload' = Append(Append(Upload, m), c) \o <<>>
    BY <1>2, <1>3, <1>7, <1>8, Zenon DEF Upload, CellsOf
  <2> QED BY <1>9, <2>1
<1>11. WriteTypes'
  <2>1. accepted + 1 \in Nat /\ accepted + 1 <= Len(link.up)
    BY <1>2, <1>3 DEF MoreToWrite
  <2> QED BY <1>2, <1>3, <1>7, <2>1, Zenon DEF WriteTypes, Kind
<1>12. Says(Upload)' = First(link.up, accepted)'
  <2>1. Says(Append(Upload, m)) = Says(Upload)
    BY <1>5, <1>8, SaysAppend, Zenon
  <2>2. Says(Append(Append(Upload, m), c)) = Append(Says(Append(Upload, m)), c)
    BY <1>4, <1>9, SaysAppend, Zenon
  <2>3. First(link.up, accepted)' = First(link.up, accepted + 1)
    BY <1>2, Zenon DEF First
  <2> QED BY <1>4, <1>10, <2>1, <2>2, <2>3, Zenon DEF UploadInv
<1>13. ~Vision'
  BY <1>2 DEF Vision, Kind
<1> QED BY <1>11, <1>12, <1>13, Zenon DEF UploadInv

\* Cells added one after the other.
LEMMA TwoMore ==
    ASSUME NEW s \in Seq(Cells), NEW a \in Cells, NEW b \in Cells
    PROVE  s \o (<<a>> \o <<b>>) = Append(Append(s, a), b)
OBVIOUS

\* Taking the last cell of what is added out of it.
LEMMA AddLast ==
    ASSUME NEW s \in Seq(Cells), NEW x \in Seq(Cells), NEW e \in Cells
    PROVE  /\ s \o (x \o <<e>>) = Append(s \o x, e)
           /\ x \o <<e>> \in Seq(Cells)
OBVIOUS

\* Adding nothing.
LEMMA AddNone ==
    ASSUME NEW s \in Seq(Cells) PROVE s \o <<>> = s /\ <<>> \in Seq(Cells)
OBVIOUS

\* A padded frame: what comes first, the header, the chunk and n cells of padding.
Framed(x, cmd, c, pd, n) == x \o <<cmd>> \o <<c>> \o [i \in 1..n |-> pd]

\* The pieces of a padded frame, one after the other.
Pieces(s, id, cmd, c, pd) ==
    /\ Framed(<<>>, cmd, c, pd, 0) \in Seq(Cells) /\ Framed(<<>>, cmd, c, pd, 1) \in Seq(Cells)
    /\ Framed(<<id>>, cmd, c, pd, 0) \in Seq(Cells) /\ Framed(<<id>>, cmd, c, pd, 1) \in Seq(Cells)
    /\ s \o Framed(<<>>, cmd, c, pd, 0) = Append(Append(s, cmd), c)
    /\ s \o Framed(<<>>, cmd, c, pd, 1) = Append(Append(Append(s, cmd), c), pd)
    /\ s \o Framed(<<id>>, cmd, c, pd, 0) = Append(Append(Append(s, id), cmd), c)
    /\ s \o Framed(<<id>>, cmd, c, pd, 1) = Append(Append(Append(Append(s, id), cmd), c), pd)

\* What a padded frame adds, cell by cell.
LEMMA PaddedFrame ==
    ASSUME NEW s \in Seq(Cells), NEW id \in Cells, NEW cmd \in Cells, NEW c \in Cells, NEW pd \in Cells
    PROVE  Pieces(s, id, cmd, c, pd)
<1> DEFINE x0 == <<>> \o <<cmd>>
           x1 == <<id>> \o <<cmd>>
<1>1. [i \in 1..0 |-> pd] = <<>> /\ [i \in 1..1 |-> pd] = <<pd>>
  OBVIOUS
<1>2. <<>> \in Seq(Cells) /\ <<id>> \in Seq(Cells) /\ s \o <<>> = s /\ s \o <<id>> = Append(s, id)
  OBVIOUS
<1>3. /\ x0 \in Seq(Cells) /\ s \o x0 = Append(s, cmd)
      /\ x1 \in Seq(Cells) /\ s \o x1 = Append(Append(s, id), cmd)
  <2>1. x0 \in Seq(Cells) /\ s \o x0 = Append(s \o <<>>, cmd)
    BY <1>2, AddLast
  <2>2. x1 \in Seq(Cells) /\ s \o x1 = Append(s \o <<id>>, cmd)
    BY <1>2, AddLast
  <2> QED BY <1>2, <2>1, <2>2, Zenon
<1> HIDE DEF x0, x1
<1> DEFINE y0 == x0 \o <<c>>
           y1 == x1 \o <<c>>
<1>4. /\ y0 \in Seq(Cells) /\ s \o y0 = Append(Append(s, cmd), c)
      /\ y1 \in Seq(Cells) /\ s \o y1 = Append(Append(Append(s, id), cmd), c)
  <2>1. y0 \in Seq(Cells) /\ s \o y0 = Append(s \o x0, c)
    BY <1>3, AddLast
  <2>2. y1 \in Seq(Cells) /\ s \o y1 = Append(s \o x1, c)
    BY <1>3, AddLast
  <2> QED BY <1>3, <2>1, <2>2, Zenon
<1> HIDE DEF y0, y1
<1>5. /\ y0 \o <<pd>> \in Seq(Cells) /\ s \o (y0 \o <<pd>>) = Append(s \o y0, pd)
      /\ y1 \o <<pd>> \in Seq(Cells) /\ s \o (y1 \o <<pd>>) = Append(s \o y1, pd)
  <2>1. y0 \o <<pd>> \in Seq(Cells) /\ s \o (y0 \o <<pd>>) = Append(s \o y0, pd)
    BY <1>4, AddLast
  <2>2. y1 \o <<pd>> \in Seq(Cells) /\ s \o (y1 \o <<pd>>) = Append(s \o y1, pd)
    BY <1>4, AddLast
  <2> QED BY <2>1, <2>2, Zenon
<1>6. y0 \o <<>> = y0 /\ y1 \o <<>> = y1
  BY <1>4, AddNone, Zenon
<1>7. /\ y0 \o [i \in 1..0 |-> pd] = y0 /\ y1 \o [i \in 1..0 |-> pd] = y1
      /\ y0 \o [i \in 1..1 |-> pd] = y0 \o <<pd>> /\ y1 \o [i \in 1..1 |-> pd] = y1 \o <<pd>>
  BY <1>1, <1>6, Zenon
<1> QED BY <1>4, <1>5, <1>7, Zenon DEF x0, x1, y0, y1, Framed, Pieces

\* The switch is taken back; the other flags stay.
LEMMA SwitchTaken ==
    ASSUME NEW A, NEW p \in [first : A, plain : A, switch : A], NEW f \in A
    PROVE  /\ [p EXCEPT !.switch = f] \in [first : A, plain : A, switch : A]
           /\ [p EXCEPT !.switch = f].switch = f
           /\ [p EXCEPT !.switch = f].plain = p.plain
OBVIOUS

\* A WebSocket frame with its header.
LEMMA WriteFrameStep == ASSUME UploadInv, WriteFrame PROVE UploadInv'
<1> DEFINE c == link.up[accepted + 1]
           w == Cell("ws", 2, 1, 0)
<1>1. Chunk = <<c>> /\ Len(Chunk) = 1
  BY DEF Chunk
<1>2. /\ UNCHANGED <<link, sent, pad, writeDirect>> /\ pending' = <<w>> \o <<c>> /\ pending = <<>>
      /\ accepted' = accepted + 1 /\ MoreToWrite /\ Kind = "ws"
  BY <1>1 DEF WriteFrame, Accept, WriteUnchanged, socketVars, Flushed
<1>3. WriteTypes /\ accepted \in Nat /\ link.up \in Seq(Payload)
  BY <1>2, LinksAssumption, Zenon DEF UploadInv, WriteTypes
<1>4. c \in Cells /\ IsData(c) /\ First(link.up, accepted + 1) = Append(First(link.up, accepted), c)
  BY <1>2, <1>3, FirstOfUpload, Zenon
<1>5. w \in Cells /\ ~IsData(w)
  BY OwnCells
<1> HIDE DEF c, w
<1>6. Upload \in Seq(Cells) /\ CellsOf(sent) = Upload
  BY <1>2, <1>3, AllIsSent, Zenon
<1>7. Append(Upload, w) \in Seq(Cells) /\ Append(Append(Upload, w), c) \in Seq(Cells)
  BY <1>4, <1>5, <1>6, AppendCell, Zenon
<1>8. Upload' = Append(Append(Upload, w), c)
  <2>1. Upload' = Upload \o (<<w>> \o <<c>>)
    BY <1>2, <1>6, Zenon DEF Upload, CellsOf
  <2> QED BY <1>4, <1>5, <1>6, <2>1, TwoMore, Zenon
<1>9. WriteTypes'
  <2>1. accepted + 1 \in Nat /\ accepted + 1 <= Len(link.up)
    BY <1>2, <1>3 DEF MoreToWrite
  <2>2. <<w>> \o <<c>> \in Seq(Cells)
    BY <1>4, <1>5
  <2>3. Kind' = Kind /\ Kind \notin {"tcp", "raw", "grpc"}
    BY <1>2 DEF Kind
  <2> QED BY <1>2, <1>3, <2>1, <2>2, <2>3, Zenon DEF WriteTypes
<1>10. Says(Upload)' = First(link.up, accepted)'
  <2>1. Says(Append(Upload, w)) = Says(Upload)
    BY <1>5, <1>6, SaysAppend, Zenon
  <2>2. Says(Append(Append(Upload, w), c)) = Append(Says(Append(Upload, w)), c)
    BY <1>4, <1>7, SaysAppend, Zenon
  <2>3. First(link.up, accepted)' = First(link.up, accepted + 1)
    BY <1>2, Zenon DEF First
  <2> QED BY <1>4, <1>8, <2>1, <2>2, <2>3, Zenon DEF UploadInv
<1>11. ~Vision'
  BY <1>2 DEF Vision, Kind
<1> QED BY <1>9, <1>10, <1>11, Zenon DEF UploadInv

\* A ping is answered; only WebSocket links have pings.
LEMMA WsSocketStep == ASSUME UploadInv, WsSocket PROVE UploadInv'
<1>1. /\ UNCHANGED <<link, accepted, pad, writeDirect, sent>> /\ Kind = "ws"
      /\ pending' = pending \/ pending' = Append(pending, Pong)
  BY Zenon DEF WsSocket, WsReads, socketVars
<1>2. CASE pending' = pending
  BY <1>1, <1>2, UploadStays, Zenon DEF writeVars
<1>3. CASE pending' = Append(pending, Pong)
  <2>1. WriteTypes /\ CellsOf(sent) \in Seq(Cells) /\ pending \in Seq(Cells) /\ Upload \in Seq(Cells)
    BY AllIsSent, Zenon DEF UploadInv, WriteTypes
  <2>2. Pong \in Cells /\ ~IsData(Pong)
    BY OwnCells DEF Pong
  <2>3. Upload' = Append(Upload, Pong)
    <3>1. Upload' = CellsOf(sent) \o Append(pending, Pong)
      BY <1>1, <1>3, Zenon DEF Upload, CellsOf
    <3>2. CellsOf(sent) \o Append(pending, Pong) = Append(CellsOf(sent) \o pending, Pong)
      BY <2>1, <2>2
    <3> QED BY <3>1, <3>2, Zenon DEF Upload
  <2>4. Says(Append(Upload, Pong)) = Says(Upload)
    BY <2>1, <2>2, SaysAppend, Zenon
  <2>5. Says(Upload)' = First(link.up, accepted)'
    BY <1>1, <2>3, <2>4, Zenon DEF UploadInv, First
  <2>6. WriteTypes'
    <3>1. Append(pending, Pong) \in Seq(Cells)
      BY <2>1, <2>2, AppendCell, Zenon
    <3>2. Kind' = Kind /\ Kind \notin {"tcp", "raw", "grpc"}
      BY <1>1 DEF Kind
    <3> QED BY <1>1, <1>3, <2>1, <3>1, <3>2, Zenon DEF WriteTypes
  <2>7. ~Vision'
    BY <1>1 DEF Vision, Kind
  <2> QED BY <2>5, <2>6, <2>7, Zenon DEF UploadInv
<1> QED BY <1>1, <1>2, <1>3, Zenon

\* Flushing moves the first pending cell to the wire; a frame with command 2 that
\* is all out ends the outer TLS where the frame ends.
LEMMA FlushStep == ASSUME UploadInv, Flush PROVE UploadInv'
<1>1. WriteTypes /\ pending \in Seq(Cells) /\ sent \in Seq(Outgoing) /\ UNCHANGED <<link, accepted>>
      /\ CellsOf(sent) \in Seq(Cells) /\ writeDirect \in BOOLEAN /\ Len(sent) \in Nat
      /\ Len(Upload) = Len(sent) + Len(pending)
      /\ pad \in [first : BOOLEAN, plain : BOOLEAN, switch : BOOLEAN]
  BY AllIsSent, Zenon DEF UploadInv, WriteTypes, Flush, WriteUnchanged, socketVars
<1>2. (Vision' <=> Vision) /\ Kind' = Kind
  BY <1>1, Zenon DEF Vision, Kind
<1>3. CASE /\ pending # <<>> /\ sent' = sent \o OnWire(<<Head(pending)>>)
           /\ pending' = Tail(pending) /\ UNCHANGED <<pad, writeDirect>>
  <2> DEFINE h == Head(pending)
  <2>1. h \in Cells /\ Tail(pending) \in Seq(Cells)
    BY <1>1, <1>3
  <2>2. CellsOf(sent) \o pending = Append(CellsOf(sent), h) \o Tail(pending)
    BY <1>1, <1>3
  <2>3. /\ sent' \in Seq(Outgoing) /\ CellsOf(sent') = Append(CellsOf(sent), h)
        /\ Len(sent') = Len(sent) + 1
        /\ \A i \in 1..Len(sent) : sent'[i] = sent[i]
        /\ sent'[Len(sent) + 1].sealed = ~writeDirect
    BY <1>1, <1>3, <2>1, SendOne, Zenon
  <2>4. Upload' = Upload
    BY <1>3, <2>2, <2>3, Zenon DEF Upload, CellsOf
  <2>5. WriteTypes'
    <3>1. Kind \notin {"tcp", "raw", "grpc"}
      BY <1>1, <1>3, Zenon DEF WriteTypes
    <3> QED BY <1>1, <1>2, <1>3, <2>1, <2>3, <3>1, Zenon DEF WriteTypes
  <2>6. ASSUME Vision PROVE SealInv'
    <3>1. SealInv /\ ~writeDirect
      BY <1>3, <2>6, Zenon DEF UploadInv, SealInv
    <3>2. \A i \in 1..Len(sent') : i \in 1..Len(sent) \/ i = Len(sent) + 1
      BY <1>1, <2>3
    <3>3. \A i \in 1..Len(sent') : sent'[i].sealed
      BY <2>3, <3>1, <3>2, Zenon DEF SealInv
    <3> QED BY <1>3, <2>4, <3>1, <3>3, Zenon DEF SealInv
  <2> QED BY <1>1, <1>2, <2>4, <2>5, <2>6, Zenon DEF UploadInv
<1>4. CASE /\ pending = <<>> /\ pad.switch /\ writeDirect' = TRUE
           /\ pad' = [pad EXCEPT !.switch = FALSE] /\ UNCHANGED <<sent, pending>>
  <2>1. pad' \in [first : BOOLEAN, plain : BOOLEAN, switch : BOOLEAN]
    BY <1>1, <1>4, SwitchTaken, FALSE \in BOOLEAN, Zenon
  <2>9. ~pad'.switch /\ pad'.plain = pad.plain
    BY <1>1, <1>4, SwitchTaken, FALSE \in BOOLEAN, Zenon
  <2>2. Upload' = Upload
    BY <1>4, Zenon DEF Upload, CellsOf
  <2>3. WriteTypes'
    BY <1>1, <1>2, <1>4, <2>1, Zenon DEF WriteTypes
  <2>4. ASSUME Vision PROVE SealInv'
    <3>1. SealInv /\ ~writeDirect /\ pad.plain
      BY <1>4, <2>4, Zenon DEF UploadInv, SealInv
    <3>2. PICK j \in Nat : Announces(Upload, j) /\ FrameEnd(Upload, j) = Len(Upload)
      BY <1>4, <3>1, Zenon DEF SealInv
    <3>3. Len(Upload) = Len(sent) /\ Len(sent) <= Len(sent)
      BY <1>1, <1>4
    <3>4. \A i \in 1..Len(sent) : i <= Len(sent)
      BY <1>1
    <3>5. /\ Announces(Upload', j) /\ FrameEnd(Upload', j) <= Len(sent')
          /\ \A i \in 1..Len(sent') : sent'[i].sealed <=> i <= FrameEnd(Upload', j)
      BY <1>4, <2>2, <3>1, <3>2, <3>3, <3>4, Zenon DEF SealInv
    <3> QED BY <1>4, <2>9, <3>1, <3>5, Zenon DEF SealInv, Announces, FrameEnd
  <2> QED BY <1>1, <1>2, <2>2, <2>3, <2>4, Zenon DEF UploadInv
<1> QED BY <1>3, <1>4, Zenon DEF Flush, FrameOut

\* A padded frame carries one more chunk; the switch it may announce is due at its end.
LEMMA WritePaddedStep == ASSUME UploadInv, WritePadded PROVE UploadInv'
<1> DEFINE c == link.up[accepted + 1]
           command == Command(ObserveClient(Chunk), Chunk)
           id == Cell("id", 0, 0, 0)
           pd == Cell("pad", 0, 0, 0)
<1>1. Chunk = <<c>> /\ Len(Chunk) = 1
  BY DEF Chunk
<1>2. command \in 0..2
  BY DEF Command
<1>3. /\ UNCHANGED <<link, sent, writeDirect>> /\ pending = <<>> /\ ~pad.switch /\ ~pad.plain
      /\ accepted' = accepted + 1 /\ MoreToWrite /\ Vision
      /\ pad' = [first |-> FALSE, plain |-> command # 0, switch |-> command = 2]
      /\ \E padding \in 0..1 :
            pending' = (IF pad.first THEN <<id>> ELSE <<>>)
                       \o <<Cell("cmd", command, 1, padding)>> \o <<c>> \o [i \in 1..padding |-> pd]
  BY <1>1, Zenon DEF WritePadded, Accept, WriteUnchanged, socketVars, Flushed
<1> HIDE DEF command
<1>4. PICK padding \in 0..1 :
            pending' = (IF pad.first THEN <<id>> ELSE <<>>)
                       \o <<Cell("cmd", command, 1, padding)>> \o <<c>> \o [i \in 1..padding |-> pd]
  BY <1>3, Zenon
<1> DEFINE cmd == Cell("cmd", command, 1, padding)
<1>5. /\ WriteTypes /\ accepted \in Nat /\ link.up \in Seq(Payload) /\ SealInv
      /\ writeDirect = FALSE
  BY <1>3, LinksAssumption, Zenon DEF UploadInv, WriteTypes, SealInv
<1>6. c \in Cells /\ IsData(c) /\ First(link.up, accepted + 1) = Append(First(link.up, accepted), c)
  BY <1>3, <1>5, FirstOfUpload, Zenon
<1>7. command \in Nat /\ padding \in Nat /\ 1 \in Nat /\ (padding = 0 \/ padding = 1)
  BY <1>2, <1>4
<1>8. cmd \in Cells /\ ~IsData(cmd) /\ (Switches(cmd) <=> command = 2) /\ cmd.n = 1 /\ cmd.p = padding
  <2>1. Cell("cmd", command, 1, padding) \in Cells /\ ~IsData(Cell("cmd", command, 1, padding))
    BY <1>7, OwnCells, Zenon
  <2>2. Switches(Cell("cmd", command, 1, padding)) <=> command = 2
    BY DEF Switches, Cell
  <2>3. Cell("cmd", command, 1, padding).n = 1 /\ Cell("cmd", command, 1, padding).p = padding
    BY DEF Cell
  <2> QED BY <2>1, <2>2, <2>3, Zenon
<1>9. id \in Cells /\ ~IsData(id) /\ ~Switches(id) /\ pd \in Cells /\ ~IsData(pd) /\ ~Switches(pd) /\ ~Switches(c)
  BY <1>6, OwnCells, Zenon
<1> HIDE DEF c, id, pd, cmd
<1>10. /\ Upload \in Seq(Cells) /\ CellsOf(sent) = Upload /\ Quiet(Upload)
       /\ \A i \in 1..Len(sent) : sent[i].sealed
  BY <1>3, <1>5, AllIsSent, Zenon DEF SealInv, Quiet
<1> DEFINE S == IF pad.first THEN Append(Upload, id) ELSE Upload
           B == Append(S, cmd)
           M == Append(B, c)
           E == IF padding = 1 THEN Append(M, pd) ELSE M
<1>11. S \in Seq(Cells) /\ Quiet(S) /\ Says(S) = Says(Upload)
  <2>1. CASE pad.first
    <3>1. Append(Upload, id) \in Seq(Cells)
      BY <1>9, <1>10, AppendCell, Zenon
    <3>2. Quiet(Append(Upload, id))
      BY <1>9, <1>10, StaysQuiet, Zenon
    <3>3. Says(Append(Upload, id)) = Says(Upload)
      BY <1>9, <1>10, SaysAppend, Zenon
    <3> QED BY <2>1, <3>1, <3>2, <3>3, Zenon
  <2>2. CASE ~pad.first
    BY <1>10, <2>2, Zenon
  <2> QED BY <2>1, <2>2, Zenon
<1>12. Upload' = E /\ pending' \in Seq(Cells)
  <2>1. pending' = (IF pad.first THEN <<id>> ELSE <<>>) \o <<cmd>> \o <<c>> \o [i \in 1..padding |-> pd]
    BY <1>4, Zenon DEF cmd
  <2>2. Upload' = Upload \o pending'
    BY <1>3, <1>10, Zenon DEF Upload, CellsOf
  <2> DEFINE F(x, n) == Framed(x, cmd, c, pd, n)
  <2>7. /\ F(<<>>, 0) \in Seq(Cells) /\ F(<<>>, 1) \in Seq(Cells)
        /\ F(<<id>>, 0) \in Seq(Cells) /\ F(<<id>>, 1) \in Seq(Cells)
        /\ Upload \o F(<<>>, 0) = Append(Append(Upload, cmd), c)
        /\ Upload \o F(<<>>, 1) = Append(Append(Append(Upload, cmd), c), pd)
        /\ Upload \o F(<<id>>, 0) = Append(Append(Append(Upload, id), cmd), c)
        /\ Upload \o F(<<id>>, 1) = Append(Append(Append(Append(Upload, id), cmd), c), pd)
    <3>1. Pieces(Upload, id, cmd, c, pd)
      BY <1>6, <1>8, <1>9, <1>10, PaddedFrame, Zenon
    <3> QED BY <3>1, Zenon DEF Pieces
  <2>8. /\ pad.first => pending' = F(<<id>>, padding)
        /\ ~pad.first => pending' = F(<<>>, padding)
    BY <2>1, Zenon DEF Framed
  <2> HIDE DEF F
  <2>3. CASE pad.first /\ padding = 0
    <3>1. E = Append(Append(Append(Upload, id), cmd), c)
      BY <2>3
    <3>2. pending' = F(<<id>>, 0)
      BY <2>3, <2>8, Zenon
    <3> QED BY <2>2, <2>7, <3>1, <3>2, Zenon
  <2>4. CASE pad.first /\ padding = 1
    <3>1. E = Append(Append(Append(Append(Upload, id), cmd), c), pd)
      BY <2>4
    <3>2. pending' = F(<<id>>, 1)
      BY <2>4, <2>8, Zenon
    <3> QED BY <2>2, <2>7, <3>1, <3>2, Zenon
  <2>5. CASE ~pad.first /\ padding = 0
    <3>1. E = Append(Append(Upload, cmd), c)
      BY <2>5
    <3>2. pending' = F(<<>>, 0)
      BY <2>5, <2>8, Zenon
    <3> QED BY <2>2, <2>7, <3>1, <3>2, Zenon
  <2>6. CASE ~pad.first /\ padding = 1
    <3>1. E = Append(Append(Append(Upload, cmd), c), pd)
      BY <2>6
    <3>2. pending' = F(<<>>, 1)
      BY <2>6, <2>8, Zenon
    <3> QED BY <2>2, <2>7, <3>1, <3>2, Zenon
  <2> QED BY <1>7, <2>3, <2>4, <2>5, <2>6, Zenon
<1> HIDE DEF S
<1>13. B \in Seq(Cells) /\ Len(B) = Len(S) + 1 /\ Len(S) \in Nat
  BY <1>8, <1>11, AppendCell, Zenon
<1>14. Says(B) = Says(Upload)
  BY <1>8, <1>11, SaysAppend, Zenon
<1> HIDE DEF B
<1>15. M \in Seq(Cells) /\ Len(M) = Len(B) + 1
  BY <1>6, <1>13, AppendCell, Zenon
<1>16. Says(M) = Append(Says(Upload), c)
  BY <1>6, <1>13, <1>14, SaysAppend, Zenon
<1> HIDE DEF M
<1>17. /\ padding = 0 => E = M
       /\ padding = 1 => E = Append(M, pd)
  OBVIOUS
<1>18. Says(E) = Append(Says(Upload), c)
  <2>1. Says(Append(M, pd)) = Says(M)
    BY <1>9, <1>15, SaysAppend, Zenon
  <2> QED BY <1>7, <1>16, <1>17, <2>1, Zenon
<1>19. Len(E) = Len(S) + 1 + 1 + padding
  <2>1. Len(Append(M, pd)) = Len(M) + 1
    BY <1>9, <1>15, AppendCell, Zenon
  <2>2. Len(E) = Len(M) + padding
    BY <1>7, <1>13, <1>15, <1>17, <2>1
  <2> QED BY <1>7, <1>13, <1>15, <2>2
<1>20. command # 2 => Quiet(E)
  <2> SUFFICES ASSUME command # 2 PROVE Quiet(E)
    OBVIOUS
  <2>1. Quiet(B)
    BY <1>8, <1>11, StaysQuiet, Zenon DEF B
  <2>2. Quiet(M)
    BY <1>6, <1>9, <1>13, <2>1, StaysQuiet, Zenon DEF M
  <2>3. Quiet(Append(M, pd))
    BY <1>9, <1>15, <2>2, StaysQuiet, Zenon
  <2> QED BY <1>7, <1>17, <2>2, <2>3, Zenon
<1>21. command = 2 => \E j \in Nat : Announces(E, j) /\ FrameEnd(E, j) = Len(E)
  <2> SUFFICES ASSUME command = 2 PROVE \E j \in Nat : Announces(E, j) /\ FrameEnd(E, j) = Len(E)
    OBVIOUS
  <2> DEFINE j == Len(S) + 1
  <2>1. j \in Nat
    BY <1>13
  <2>2. Announces(B, j) /\ FrameEnd(B, j) = Len(E)
    BY <1>8, <1>11, <1>19, NowAnnounced, Zenon DEF B
  <2> HIDE DEF j
  <2>3. Announces(M, j) /\ FrameEnd(M, j) = Len(E)
    BY <1>6, <1>9, <1>13, <2>1, <2>2, StaysAnnounced, Zenon DEF M
  <2>4. Announces(Append(M, pd), j) /\ FrameEnd(Append(M, pd), j) = Len(E)
    BY <1>9, <1>15, <2>1, <2>3, StaysAnnounced, Zenon
  <2>5. Announces(E, j) /\ FrameEnd(E, j) = Len(E)
    BY <1>7, <1>17, <2>3, <2>4, Zenon
  <2> QED BY <2>1, <2>5, Zenon
<1> HIDE DEF E
<1>22. /\ pad' \in [first : BOOLEAN, plain : BOOLEAN, switch : BOOLEAN]
       /\ (pad'.switch <=> command = 2) /\ (pad'.plain <=> command # 0)
  <2>1. (command # 0) \in BOOLEAN /\ (command = 2) \in BOOLEAN /\ FALSE \in BOOLEAN
    BY Zenon
  <2>2. pad' \in [first : BOOLEAN, plain : BOOLEAN, switch : BOOLEAN]
    BY <1>3, <2>1, Zenon
  <2>3. (pad'.switch <=> command = 2) /\ (pad'.plain <=> command # 0)
    BY <1>3, Zenon
  <2> QED BY <2>2, <2>3, Zenon
<1>23. (Vision' <=> Vision) /\ Kind' = Kind /\ Kind \notin {"tcp", "raw", "grpc"}
  BY <1>3 DEF Vision, Kind
<1>24. WriteTypes'
  <2>1. accepted + 1 \in Nat /\ accepted + 1 <= Len(link.up)
    BY <1>3, <1>5 DEF MoreToWrite
  <2> QED BY <1>3, <1>5, <1>12, <1>22, <1>23, <2>1, Zenon DEF WriteTypes
<1>25. Says(Upload)' = First(link.up, accepted)'
  <2>1. First(link.up, accepted)' = First(link.up, accepted + 1)
    BY <1>3, Zenon DEF First
  <2> QED BY <1>6, <1>12, <1>18, <2>1, Zenon DEF UploadInv
<1>26. SealInv'
  <2>1. ~writeDirect' /\ \A i \in 1..Len(sent') : sent'[i].sealed
    BY <1>3, <1>5, <1>10, Zenon
  <2>2. CASE command = 2
    <3>1. pad'.switch /\ pad'.plain
      BY <1>22, <2>2
    <3>2. \E j \in Nat : Announces(Upload', j) /\ FrameEnd(Upload', j) = Len(Upload')
      BY <1>12, <1>21, <2>2, Zenon
    <3> QED BY <2>1, <3>1, <3>2, Zenon DEF SealInv, Announces, FrameEnd
  <2>3. CASE command # 2
    BY <1>12, <1>20, <1>22, <2>1, <2>3, Zenon DEF SealInv, Quiet
  <2> QED BY <2>2, <2>3, Zenon
<1> QED BY <1>24, <1>25, <1>26, Zenon DEF UploadInv

-----------------------------------------------------------------------------
\* Reading changes nothing of the upload but the answer to a ping.
LEMMA ReadingSteps == ASSUME UploadInv, PollRead PROVE UploadInv'
<1>1. CASE WsSocket
  BY <1>1, WsSocketStep, Zenon
<1>2. CASE ~WsSocket
  <2>1. UNCHANGED <<link, writeVars>>
    BY <1>2, Zenon DEF PollRead, socketVars, TakeBuffered, TakeDirect, TakeNothing, TakePutBack,
       EndFraming, SslReads, SslYields, SslIdles, Upgrade, WsClosed, WsPayload, GrpcParse, GrpcSocket
  <2> QED BY <2>1, UploadStays, Zenon
<1> QED BY <1>1, <1>2, Zenon

\* Every step keeps the invariant.
LEMMA UploadStep == ASSUME UploadInv, [Next]_vars PROVE UploadInv'
<1>1. CASE PollRead
  BY <1>1, ReadingSteps, Zenon
<1>2. CASE WriteThrough
  BY <1>2, WriteThroughStep, Zenon
<1>3. CASE WriteMessage
  BY <1>3, WriteMessageStep, Zenon
<1>4. CASE WriteFrame
  BY <1>4, WriteFrameStep, Zenon
<1>5. CASE WritePadded
  BY <1>5, WritePaddedStep, Zenon
<1>6. CASE FlushInRead \/ FlushInWrite
  BY <1>6, FlushStep, Zenon DEF FlushInRead, FlushInWrite
<1>7. CASE Arrive \/ PeerEnds
  <2>1. UNCHANGED <<link, writeVars>>
    BY <1>7, Zenon DEF Arrive, PeerEnds, readVars
  <2> QED BY <2>1, UploadStays, Zenon
<1>8. CASE UNCHANGED vars
  BY <1>8, UploadStays, Zenon DEF vars, socketVars
<1> QED BY <1>1, <1>2, <1>3, <1>4, <1>5, <1>6, <1>7, <1>8, Zenon DEF Next, PollWrite

\* The invariant says what the peer needs.
LEMMA UploadIsIntact == ASSUME UploadInv PROVE UploadIntact
<1> DEFINE cells == [i \in DOMAIN sent |-> sent[i].cell]
           Announced(i) == \E j \in 1..(i - 1) :
                               cells[j].k = "cmd" /\ cells[j].v = 2 /\ i > j + cells[j].n + cells[j].p
<1>1. Says(cells \o pending) = First(link.up, accepted)
  BY Zenon DEF UploadInv, Upload, CellsOf
<1>2. ASSUME Vision, NEW i \in DOMAIN sent PROVE sent[i].sealed <=> ~Announced(i)
  <2>1. /\ SealInv /\ WriteTypes /\ sent \in Seq(Outgoing) /\ writeDirect \in BOOLEAN
    BY <1>2, Zenon DEF UploadInv, WriteTypes
  <2>2. /\ Upload \in Seq(Cells) /\ Len(sent) \in Nat /\ Len(pending) \in Nat
        /\ Len(Upload) = Len(sent) + Len(pending)
        /\ \A n \in 1..Len(sent) : Upload[n] = sent[n].cell
    BY <2>1, AllIsSent, Zenon
  <2>3. i \in 1..Len(sent) /\ DOMAIN sent = 1..Len(sent)
    BY <1>2, <2>1
  <2>4. \A n \in 1..Len(sent) : cells[n] = Upload[n] /\ n \in 1..Len(Upload) /\ Upload[n] \in Cells
    <3>1. \A n \in 1..Len(sent) : cells[n] = Upload[n]
      BY <2>2, <2>3, Zenon
    <3>2. \A n \in 1..Len(sent) : n \in 1..Len(Upload) /\ Upload[n] \in Cells
      BY <2>2
    <3> QED BY <3>1, <3>2, Zenon
  <2>5. \A n \in 1..(i - 1) : n \in 1..Len(sent)
    BY <2>2, <2>3
  <2> HIDE DEF cells
  <2>6. Announced(i) <=> \E j \in 1..(i - 1) : Switches(Upload[j]) /\ i > FrameEnd(Upload, j)
    BY <2>4, <2>5, Zenon DEF Switches, FrameEnd
  <2> HIDE DEF Announced
  <2>7. CASE ~writeDirect /\ ~pad.switch
    BY <2>1, <2>3, <2>4, <2>5, <2>6, <2>7, Zenon DEF SealInv
  <2>8. CASE pad.switch
    <3>1. PICK j \in Nat : Announces(Upload, j) /\ FrameEnd(Upload, j) = Len(Upload)
      BY <2>1, <2>8, Zenon DEF SealInv
    <3>2. ~(i > Len(Upload))
      BY <2>2, <2>3
    <3>3. ~Announced(i)
      BY <2>4, <2>5, <2>6, <3>1, <3>2, Zenon DEF Announces
    <3> QED BY <2>1, <2>3, <2>8, <3>3, Zenon DEF SealInv
  <2>9. CASE writeDirect
    <3>1. PICK j \in Nat : /\ Announces(Upload, j) /\ FrameEnd(Upload, j) <= Len(sent)
                           /\ \A n \in 1..Len(sent) : sent[n].sealed <=> n <= FrameEnd(Upload, j)
      BY <2>1, <2>9, Zenon DEF SealInv
    <3>2. j \in 1..Len(Upload) /\ Upload[j] \in Cells
      BY <2>2, <3>1 DEF Announces
    <3>3. FrameEnd(Upload, j) \in Nat /\ j <= FrameEnd(Upload, j)
      BY <3>2 DEF FrameEnd, Cells
    <3>4. (i > FrameEnd(Upload, j)) <=> ~(i <= FrameEnd(Upload, j))
      BY <2>3, <3>3
    <3>5. i > FrameEnd(Upload, j) => j \in 1..(i - 1)
      BY <2>3, <3>2, <3>3
    <3>6. Announced(i) <=> i > FrameEnd(Upload, j)
      BY <2>4, <2>5, <2>6, <3>1, <3>5, Zenon DEF Announces
    <3> QED BY <2>3, <3>1, <3>4, <3>6, Zenon
  <2> QED BY <2>7, <2>8, <2>9, Zenon
<1> QED BY <1>1, <1>2, Zenon DEF UploadIntact

\* Whatever the stack and however the socket and the flushes cut it up, the peer
\* finds in the upload what poll_write accepted, in order and once, and the outer TLS
\* covers the bytes up to the end of the frame that announces direct copying and no
\* more (poll_write, flush_frame of vision.rs; websocket.rs; grpc.rs).
THEOREM UploadsStayIntact == Spec => []UploadIntact
<1>1. Init => UploadInv
  BY UploadInit
<1>2. UploadInv /\ [Next]_vars => UploadInv'
  BY UploadStep
<1>3. UploadInv => UploadIntact
  BY UploadIsIntact
<1> QED BY <1>1, <1>2, <1>3, PTL DEF Spec
=============================================================================
