---------------------------- MODULE Weeify_proofs ----------------------------
(***************************************************************************)
(* The rewriter, for groups, numbers and files of any size: weeify, which  *)
(* is built from the codec, keeps its pointers in the file and its patches *)
(* in the bytes reserved for them, and writes the module its file encodes. *)
(*                                                                         *)
(* First what a step does to pointers and output whatever the file says    *)
(* (WInv, RewriterStep).  Then what the readers make of the encoding of an *)
(* instruction, a body, a section.  Along relates the two: weeify is at a  *)
(* piece of the module, and has written the pieces in front of it in the   *)
(* padded form.                                                            *)
(*                                                                         *)
(* What is proved of the codec (Common_proofs) is used as an instance: its *)
(* constants and variables other than those of Leb are of no concern here. *)
(***************************************************************************)
EXTENDS Weeify, TLAPS, FiniteSetTheorems, SequenceTheorems

Codec == INSTANCE Common_proofs WITH
  Buffers <- {}, U32Bytes <- 1, buf <- <<>>, ptr <- 1, last <- 0,
  Sizes <- {}, MAX_FILE_SIZE <- 0, Rewritten <- FALSE, Unread <- 0,
  disk <- 0, pc <- 0, fpos <- 0, size <- 0, remain <- 0, p <- 0, start <- <<>>,
  turn <- 0, ret <- 0

-----------------------------------------------------------------------------
(***************************************************************************)
(* Codec has the codec of this module.                                     *)
(***************************************************************************)
LEMMA SameSizes ==
  /\ Codec!Base = Base /\ Codec!MaxLen = MaxLen /\ Codec!LastBits = LastBits
BY DEF Codec!MaxLen, MaxLen, Codec!LastBits, LastBits, Codec!Base, Base

LEMMA SameRead ==
  ASSUME NEW data, NEW p, NEW l, NEW signed
  PROVE  Codec!ReadLeb(data, p, l, signed) = ReadLeb(data, p, l, signed)
BY DEF Codec!ReadLeb, ReadLeb, Codec!DecodeLeb, DecodeLeb, Codec!AfterLeb, AfterLeb,
   Codec!More, More, Codec!UpperLegal, UpperLegal, Codec!LebValue, LebValue,
   Codec!SignExtend, SignExtend, Codec!Payloads, Payloads, Codec!Payload, Payload,
   Codec!LebEnd, LebEnd, Codec!MaxLen, MaxLen, Codec!LastBits, LastBits, Codec!Base, Base

LEMMA SameDecode ==
  ASSUME NEW data, NEW p, NEW l, NEW signed
  PROVE  Codec!DecodeLeb(data, p, l, signed) = DecodeLeb(data, p, l, signed)
BY DEF Codec!DecodeLeb, DecodeLeb,
   Codec!More, More, Codec!UpperLegal, UpperLegal, Codec!LebValue, LebValue,
   Codec!SignExtend, SignExtend, Codec!Payloads, Payloads, Codec!Payload, Payload,
   Codec!LebEnd, LebEnd, Codec!MaxLen, MaxLen, Codec!LastBits, LastBits, Codec!Base, Base

LEMMA SamePadded ==
  ASSUME NEW v, NEW n
  PROVE  Codec!EmitPadded(v, n) = EmitPadded(v, n)
BY DEF Codec!EmitPadded, EmitPadded, Codec!Digit, Digit, Codec!Base, Base

LEMMA SameEmit ==
  ASSUME NEW v
  PROVE  Codec!EmitLeb(v) = EmitLeb(v)
BY DEF Codec!EmitLeb, EmitLeb, Codec!EmitPadded, EmitPadded, Codec!Digit, Digit,
   Codec!MaxLen, MaxLen, Codec!Base, Base

\* What Codec assumes.
LEMMA CodecWidths == Codec!LebAssumption
BY LebAssumption DEF LebAssumption, Codec!LebAssumption

LEMMA CodecPowers ==
  /\ 2^0 = 1 /\ 2^1 = 2
  /\ \A m \in 0..(Group * Codec!MaxLen) : 2^m \in Nat \ {0}
  /\ \A m, n \in 0..(Group * Codec!MaxLen) :
       m + n <= Group * Codec!MaxLen => 2^(m + n) = 2^m * 2^n
  /\ \A k \in 0..Codec!MaxLen : Codec!Base^k = 2^(Group * k)
BY LebPowersAssumption, SameSizes

LEMMA CodecBuffers == Codec!BufferAssumption
BY DEF Codec!BufferAssumption

LEMMA CodecFiles == {} \subseteq Nat /\ 0 \in Nat
OBVIOUS

-----------------------------------------------------------------------------
(***************************************************************************)
(* What is needed of it.                                                   *)
(***************************************************************************)
LEMMA UpTo ==
  ASSUME NEW N \in Nat, NEW T, 0 \in T, \A k \in 1..N : k - 1 \in T => k \in T
  PROVE  0..N \subseteq T
BY CodecWidths, CodecPowers, CodecBuffers, CodecFiles, Codec!UpTo

LEMMA Widths == MaxLen \in Nat /\ MaxLen >= 2
BY CodecWidths, CodecPowers, CodecBuffers, CodecFiles, Codec!Widths, SameSizes

LEMMA WidthPow == 2^Width \in Nat \ {0}
BY CodecWidths, CodecPowers, CodecBuffers, CodecFiles, Codec!WidthPow

LEMMA NumberFits == Numbers \subseteq Nat
BY WidthPow DEF Numbers

\* A reader at the end stays there; elsewhere it moves on, but not behind it.
LEMMA ReadRange ==
  ASSUME NEW data, NEW p \in Nat, NEW limit \in Nat, NEW signed,
         \A i \in p..(limit - 1) : data[i] \in Nat,
         NEW r, r = ReadLeb(data, p, limit, signed)
  PROVE  /\ r.ptr \in Nat
         /\ p >= limit => r.ptr = p
         /\ p < limit => p < r.ptr /\ r.ptr <= limit
         /\ ~signed => r.val \in Numbers
<1>1. r = Codec!ReadLeb(data, p, limit, signed)
  BY SameRead
<1>2. /\ r.ptr \in Nat
      /\ p >= limit => r.ptr = p
      /\ p < limit => p < r.ptr /\ r.ptr <= limit
      /\ ~signed => r.val \in Codec!Numbers
  BY <1>1, CodecWidths, CodecPowers, CodecBuffers, CodecFiles, Codec!ReadRange
<1> QED
  BY <1>2 DEF Codec!Numbers, Numbers

LEMMA ReadAtEnd ==
  ASSUME NEW data, NEW p \in Nat, NEW limit \in Nat, NEW signed, p >= limit
  PROVE  ReadLeb(data, p, limit, signed) = [val |-> 0, ptr |-> p]
BY SameRead, CodecWidths, CodecPowers, CodecBuffers, CodecFiles,
   Codec!ReadLebIs

EmittedSeq(v, n) == EmitPadded(v, n) \in Seq(Nat) /\ Len(EmitPadded(v, n)) = n

LEMMA EmittedIsSeq ==
  ASSUME NEW v \in Nat, NEW n \in 1..MaxLen
  PROVE  EmittedSeq(v, n)
<1>1. Codec!EmittedSeq(v, n)
  BY SameSizes, CodecWidths, CodecPowers, CodecBuffers, CodecFiles,
     Codec!EmittedIsSeq
<1> QED
  BY <1>1, SamePadded DEF Codec!EmittedSeq, EmittedSeq

LEMMA EmitLebIs ==
  ASSUME NEW v \in Numbers
  PROVE  \E n \in 1..MaxLen : EmitLeb(v) = EmitPadded(v, n)
<1>1. v \in Codec!Numbers
  BY DEF Numbers, Codec!Numbers
<1>2. PICK n \in 1..MaxLen : Codec!EmitLeb(v) = Codec!EmitPadded(v, n)
  BY <1>1, SameSizes, CodecWidths, CodecPowers, CodecBuffers, CodecFiles,
     Codec!EmitLebIs
<1> QED
  BY <1>2, SameEmit, SamePadded

-----------------------------------------------------------------------------
\* The rewriter.

\* While a length is open, the bytes reserved for it are written, and what it
\* measures ends in the file.
Reserved ==
  /\ phase \in {"code", "body"} => before + MaxLen <= pos /\ 1 <= section_end
  /\ phase = "body" => body_before + MaxLen <= pos /\ 1 <= body_end

WInv ==
  /\ TypeOK
  /\ bytes \in Seq(Nat) /\ out \in Seq(Nat)
  /\ Reserved

\* What the file has not to say for the pointers to stay in it: that a body is
\* longer than what is left of it.  The code does not check this one length.
BodiesFit == body_end <= end

\* What the step does to the output: as PatchesOnlyLengths says.
OutputKept ==
  /\ out' \in Seq(Nat)
  /\ pos' \in pos..Len(out')
  /\ \A k \in 1..pos : out'[k] # out[k] =>
       \E p \in {before, body_before} : k \in (p + 1)..(p + MaxLen)

Joins(u, s, t) ==
  /\ u \in Seq(Nat) /\ Len(u) = Len(s) + Len(t)
  /\ \A k \in 1..Len(s) : u[k] = s[k]
  /\ \A k \in (Len(s) + 1)..(Len(s) + Len(t)) : u[k] = t[k - Len(s)]

LEMMA Joined ==
  ASSUME NEW s \in Seq(Nat), NEW t \in Seq(Nat)
  PROVE  Joins(s \o t, s, t)
<1> DEFINE u == s \o t
<1>1. Len(s) \in Nat /\ Len(t) \in Nat
  OBVIOUS
<1>2. /\ u \in Seq(Nat) /\ Len(u) = Len(s) + Len(t)
      /\ \A i \in 1..(Len(s) + Len(t)) :
           u[i] = IF i <= Len(s) THEN s[i] ELSE t[i - Len(s)]
  BY ConcatProperties
<1> HIDE DEF u
<1>3. Joins(u, s, t)
  <2>1. PICK m \in Nat, n \in Nat : m = Len(s) /\ n = Len(t)
    BY <1>1
  <2>2. \A k \in 1..m : u[k] = s[k]
    BY <1>2, <2>1
  <2>3. \A k \in (m + 1)..(m + n) : u[k] = t[k - m]
    BY <1>2, <2>1
  <2> QED
    BY <1>2, <2>1, <2>2, <2>3 DEF Joins
<1> QED
  BY <1>3 DEF u

\* Data in the middle of the file: the bytes before and behind it stay.
LEMMA WrittenIs ==
  ASSUME out \in Seq(Nat), NEW p \in 0..Len(out), NEW data \in Seq(Nat),
         NEW w, w = Written(p, data)
  PROVE  /\ w \in Seq(Nat)
         /\ p + Len(data) <= Len(w)
         /\ \A k \in 1..p : w[k] = out[k]
         /\ \A k \in (p + Len(data) + 1)..Len(out) : w[k] = out[k]
         /\ Len(out) <= Len(w)
<1> DEFINE a == SubSeq(out, 1, p)
           m == p + Len(data) + 1
           c == SubSeq(out, m, Len(out))
<1>1. PICK l \in Nat, n \in Nat :
        l = Len(data) /\ n = Len(out) /\ p \in Nat /\ p <= n /\ m = p + l + 1
  <2>1. Len(data) \in Nat /\ Len(out) \in Nat
    OBVIOUS
  <2> QED
    BY <2>1
<1>2. /\ a \in Seq(Nat) /\ Len(a) = p /\ \A k \in 1..p : a[k] = out[k]
  <2>1. \A i \in 1..p : out[i] \in Nat
    BY <1>1
  <2>2. a \in Seq(Nat) /\ Len(a) = IF 1 <= p THEN p - 1 + 1 ELSE 0
    BY <1>1, <2>1, SubSeqProperties
  <2>3. \A k \in 1..p : a[k] = out[1 + k - 1]
    BY <1>1, <2>1, SubSeqProperties
  <2> QED
    BY <1>1, <2>2, <2>3
<1>3. /\ c \in Seq(Nat)
      /\ Len(c) = IF m <= n THEN n - m + 1 ELSE 0
      /\ \A k \in 1..(n - m + 1) : c[k] = out[m + k - 1]
  <2>1. \A i \in m..n : out[i] \in Nat
    BY <1>1
  <2> QED
    BY <1>1, <2>1, SubSeqProperties
<1>4. w = a \o data \o c
  BY DEF Written
<1> HIDE DEF a, m, c
<1>5. PICK d : d = a \o data
  OBVIOUS
<1>6. /\ d \in Seq(Nat) /\ Len(d) = p + l
      /\ \A k \in 1..p : d[k] = out[k]
  BY <1>1, <1>2, <1>5, Joined DEF Joins
<1>7. PICK q \in Nat, e \in Nat :
        /\ q = Len(c) /\ e = Len(d) /\ e = p + l
        /\ m <= n => q = n - m + 1
  <2>1. Len(c) \in Nat /\ (m <= n => Len(c) = n - m + 1)
    BY <1>3
  <2>2. Len(d) \in Nat /\ Len(d) = p + l
    BY <1>1, <1>6
  <2> QED
    BY <2>1, <2>2, Zenon
<1>8. /\ w \in Seq(Nat) /\ Len(w) = e + q
      /\ \A k \in 1..e : w[k] = d[k]
      /\ \A k \in (e + 1)..(e + q) : w[k] = c[k - e]
  <2>1. w = d \o c
    BY <1>4, <1>5
  <2> QED
    <3>1. d \in Seq(Nat) /\ c \in Seq(Nat) /\ Len(d) = e /\ Len(c) = q
      BY <1>3, <1>6, <1>7
    <3>2. Joins(w, d, c)
      BY <2>1, <3>1, Joined
    <3> QED
      BY <3>1, <3>2 DEF Joins
<1>9. ASSUME NEW k \in (p + l + 1)..n PROVE w[k] = out[k]
  <2>1. PICK i \in Int : i = k - e
    BY <1>7
  <2>2. m <= n /\ q = n - m + 1
    BY <1>1, <1>7
  <2>3. i \in 1..(n - m + 1) /\ k \in (e + 1)..(e + q) /\ m + i - 1 = k
    BY <1>1, <1>7, <2>1, <2>2
  <2> QED
    BY <1>3, <1>8, <2>1, <2>3
<1>10. p + l <= Len(w) /\ n <= Len(w)
  <2>1. m <= n \/ n <= p + l
    BY <1>1
  <2> QED
    BY <1>1, <1>7, <1>8, <2>1
<1>11. \A k \in 1..p : w[k] = out[k]
  BY <1>1, <1>6, <1>7, <1>8
<1> QED
  BY <1>1, <1>8, <1>9, <1>10, <1>11

LEMMA EmitKeeps ==
  ASSUME WInv, NEW data \in Seq(Nat), Emit(data)
  PROVE  OutputKept /\ pos' = pos + Len(data)
<1>1. out \in Seq(Nat) /\ pos \in 0..Len(out) /\ Len(out) \in Nat /\ Len(data) \in Nat
  BY DEF WInv, TypeOK
<1>2. out' = Written(pos, data) /\ pos' = pos + Len(data)
  BY DEF Emit
<1>3. /\ out' \in Seq(Nat) /\ pos + Len(data) <= Len(out')
      /\ \A k \in 1..pos : out'[k] = out[k]
  BY <1>1, <1>2, WrittenIs
<1>4. Len(out') \in Nat
  BY <1>3
<1> QED
  BY <1>1, <1>2, <1>3, <1>4 DEF OutputKept

LEMMA PatchKeeps ==
  ASSUME WInv, NEW p \in {before, body_before}, p + MaxLen <= pos, EmitPatchedLength(p)
  PROVE  OutputKept /\ pos' = pos
<1>1. /\ out \in Seq(Nat) /\ pos \in 0..Len(out) /\ Len(out) \in Nat
      /\ p \in 0..pos /\ MaxLen \in Nat /\ MaxLen \in 1..MaxLen
  BY Widths DEF WInv, TypeOK
<1>2. PICK n \in Nat : n = pos - p - MaxLen
  BY <1>1
<1>3. PICK data : data = EmitLeb5(n)
  OBVIOUS
<1>4. data \in Seq(Nat) /\ Len(data) = MaxLen
  BY <1>1, <1>3, EmittedIsSeq DEF EmittedSeq, EmitLeb5
<1>5. out' = Written(p, data) /\ pos' = pos
  BY <1>2, <1>3 DEF EmitPatchedLength
<1>6. /\ out' \in Seq(Nat) /\ Len(out) <= Len(out')
      /\ \A k \in 1..p : out'[k] = out[k]
      /\ \A k \in (p + MaxLen + 1)..Len(out) : out'[k] = out[k]
  <2>1. p \in 0..Len(out)
    BY <1>1
  <2> QED
    BY <1>1, <1>4, <1>5, <2>1, WrittenIs, ZenonT(60)
<1>7. ASSUME NEW k \in 1..pos, out'[k] # out[k] PROVE k \in (p + 1)..(p + MaxLen)
  <2>1. ~(k \in 1..p) /\ ~(k \in (p + MaxLen + 1)..Len(out))
    BY <1>6, <1>7
  <2> QED
    BY <1>1, <2>1
<1>8. Len(out') \in Nat
  BY <1>6
<1>9. pos' \in pos..Len(out')
  BY <1>1, <1>5, <1>6, <1>8
<1> QED
  BY <1>5, <1>6, <1>7, <1>9 DEF OutputKept

\* What the readers leave the pointer at, inside the file.
LEMMA ReadIn ==
  ASSUME bytes \in Seq(Nat), NEW limit \in Nat, limit <= end, NEW p \in 1..limit,
         NEW signed, NEW r, r = ReadLeb(bytes, p, limit, signed)
  PROVE  /\ r.ptr \in p..limit
         /\ ~signed => r.val \in Nat /\ r.val \in Numbers
<1>1. /\ Len(bytes) \in Nat /\ end = Len(bytes) + 1 /\ p \in Nat /\ p <= limit
  BY DEF end
<1>2. \A i \in p..(limit - 1) : bytes[i] \in Nat
  BY <1>1
<1>3. /\ r.ptr \in Nat
      /\ p >= limit => r.ptr = p
      /\ p < limit => p < r.ptr /\ r.ptr <= limit
      /\ ~signed => r.val \in Numbers
  BY <1>1, <1>2, ReadRange
<1>4. ~signed => r.val \in Nat
  BY <1>3, NumberFits
<1> QED
  BY <1>1, <1>3, <1>4

\* The emitted forms of a number, as data.
Emitted(data, least) == data \in Seq(Nat) /\ Len(data) >= least

LEMMA EmittedForms ==
  ASSUME NEW v \in Numbers
  PROVE  Emitted(EmitLeb5(v), MaxLen) /\ Emitted(EmitLeb4(v), 1) /\ Emitted(EmitLeb(v), 1)
<1>1. v \in Nat
  BY NumberFits
<1>2. MaxLen \in Nat /\ MaxLen >= 2
  BY Widths
<1>3. Emitted(EmitLeb5(v), MaxLen)
  <2>1. MaxLen \in 1..MaxLen
    BY <1>2
  <2> QED
    BY <1>1, <1>2, <2>1, EmittedIsSeq DEF EmittedSeq, EmitLeb5, Emitted
<1>4. Emitted(EmitLeb4(v), 1)
  <2>1. MaxLen - 1 \in 1..MaxLen
    BY <1>2
  <2> QED
    BY <1>1, <1>2, <2>1, EmittedIsSeq DEF EmittedSeq, EmitLeb4, Emitted
<1>5. Emitted(EmitLeb(v), 1)
  <2>1. PICK n \in 1..MaxLen : EmitLeb(v) = EmitPadded(v, n)
    BY EmitLebIs
  <2> QED
    BY <1>1, <2>1, EmittedIsSeq DEF EmittedSeq, Emitted
<1> QED
  BY <1>3, <1>4, <1>5

LEMMA ZeroEmitted == 0 \in Numbers
<1>1. 2^Width \in Nat /\ 2^Width >= 1
  BY WidthPow
<1> QED
  BY <1>1 DEF Numbers

\* Bytes copied from the file.
LEMMA Copied ==
  ASSUME bytes \in Seq(Nat), NEW q \in Nat, q <= end, NEW p \in 1..q
  PROVE  Emitted(From(p, q), 0)
<1>1. /\ Len(bytes) \in Nat /\ end = Len(bytes) + 1 /\ p \in Int /\ q - 1 \in Int
      /\ q - 1 <= Len(bytes) /\ 1 <= p
  BY DEF end
<1>2. \A i \in p..(q - 1) : bytes[i] \in Nat
  BY <1>1
<1>3. From(p, q) \in Seq(Nat)
  BY <1>1, <1>2, SubSeqProperties DEF From
<1> QED
  BY <1>3 DEF Emitted

LEMMA EmittedJoin ==
  ASSUME NEW s, NEW t, NEW i \in Nat, NEW j \in Nat, Emitted(s, i), Emitted(t, j)
  PROVE  Emitted(s \o t, i + j)
<1>1. PICK m \in Nat, n \in Nat : m = Len(s) /\ n = Len(t)
  <2>1. Len(s) \in Nat /\ Len(t) \in Nat
    BY DEF Emitted
  <2> QED
    BY <2>1
<1>2. s \o t \in Seq(Nat) /\ Len(s \o t) = m + n /\ m >= i /\ n >= j
  BY <1>1, Joined DEF Joins, Emitted
<1> QED
  BY <1>2 DEF Emitted

LEMMA EmittedByte ==
  ASSUME NEW b \in Nat
  PROVE  Emitted(<<b>>, 1)
BY DEF Emitted

\* A function applied over and over.
IterateExists(S, F, p, n) ==
  \E g : /\ g[0] = p
         /\ \A k \in 1..n : g[k] = F[g[k - 1]]
         /\ \A k \in 0..n : g[k] \in S

LEMMA Iterated ==
  ASSUME NEW S, NEW F, \A q \in S : F[q] \in S, NEW n \in Nat, NEW p \in S
  PROVE  IterateExists(S, F, p, n)
<1> DEFINE Good(g, m) == /\ g[0] = p
                         /\ \A k \in 1..m : g[k] = F[g[k - 1]]
                         /\ \A k \in 0..m : g[k] \in S
           T == {m \in 0..n : \E g : Good(g, m)}
<1>1. 0 \in T
  <2>1. Good([k \in 0..0 |-> p], 0)
    OBVIOUS
  <2> HIDE DEF Good
  <2>2. \E g : Good(g, 0)
    BY <2>1
  <2> QED
    BY <2>2
<1>2. ASSUME NEW m \in 1..n, m - 1 \in T PROVE m \in T
  <2>1. PICK g : Good(g, m - 1)
    BY <1>2
  <2> DEFINE h == [k \in 0..m |-> IF k = m THEN F[g[m - 1]] ELSE g[k]]
  <2>2. h[0] = p
    BY <2>1
  <2>3. \A k \in 0..(m - 1) : h[k] = g[k]
    OBVIOUS
  <2>4. h[m] = F[h[m - 1]] /\ h[m] \in S
    BY <2>1, <2>3
  <2>5. ASSUME NEW k \in 1..m PROVE h[k] = F[h[k - 1]]
    <3>1. CASE k = m
      BY <2>4, <3>1
    <3>2. CASE k # m
      <4>1. k \in 1..(m - 1) /\ k \in 0..(m - 1) /\ k - 1 \in 0..(m - 1)
        BY <3>2
      <4>2. h[k] = g[k] /\ h[k - 1] = g[k - 1]
        BY <2>3, <4>1
      <4> QED
        BY <2>1, <4>1, <4>2
    <3> QED
      BY <3>1, <3>2
  <2>6. \A k \in 0..m : h[k] \in S
    BY <2>1, <2>3, <2>4
  <2> HIDE DEF h
  <2>7. Good(h, m)
    BY <2>2, <2>5, <2>6
  <2> HIDE DEF Good
  <2> QED
    BY <2>7
<1> HIDE DEF T
<1>3. 0..n \subseteq T
  BY <1>1, <1>2, UpTo
<1>4. n \in T
  BY <1>3
<1> QED
  BY <1>4 DEF T, IterateExists

\* What a declaration is read to, and where the declarations start.
NextDecl(q, limit) == ReadLeb(bytes, Read(q, limit).ptr, limit, TRUE).ptr

DeclsEqn(f, n, p, limit) ==
  f = [k \in 0..n |-> IF k = 0 THEN p ELSE NextDecl(f[k - 1], limit)]

LEMMA DeclsEqnIs ==
  ASSUME NEW f, NEW n \in Nat, NEW p, NEW limit, DeclsEqn(f, n, p, limit)
  PROVE  f[0] = p /\ \A k \in 1..n : f[k] = NextDecl(f[k - 1], limit)
<1> DEFINE Next2(q) == NextDecl(q, limit)
<1>1. f = [k \in 0..n |-> IF k = 0 THEN p ELSE Next2(f[k - 1])]
  BY Zenon DEF DeclsEqn
<1> HIDE DEF Next2
<1>2. \A k \in 0..n : f[k] = IF k = 0 THEN p ELSE Next2(f[k - 1])
  BY <1>1
<1>3. f[0] = p
  BY <1>2
<1>4. \A k \in 1..n : f[k] = Next2(f[k - 1])
  BY <1>2
<1> QED
  BY <1>3, <1>4 DEF Next2

\* Where the local declarations end.
LEMMA LocalsEndIn ==
  ASSUME bytes \in Seq(Nat), NEW limit \in Nat, limit <= end, NEW p \in 1..limit,
         NEW n \in Nat
  PROVE  /\ LocalsEnd(p, n, limit) \in p..limit
         /\ \E f : DeclsEqn(f, n, p, limit) /\ LocalsEnd(p, n, limit) = f[n]
<1> DEFINE Next2(q) == NextDecl(q, limit)
           F == [q \in p..limit |-> Next2(q)]
           Is(f) == f = [k \in 0..n |-> IF k = 0 THEN p ELSE Next2(f[k - 1])]
           decl == CHOOSE f : Is(f)
<1>1. ASSUME NEW q \in p..limit PROVE Next2(q) \in p..limit
  <2>1. PICK r : r = Read(q, limit)
    OBVIOUS
  <2>2. q \in 1..limit
    OBVIOUS
  <2>3. r.ptr \in q..limit
    BY <2>1, <2>2, ReadIn DEF Read
  <2>4. PICK r2 : r2 = ReadLeb(bytes, r.ptr, limit, TRUE)
    OBVIOUS
  <2>5. r.ptr \in 1..limit /\ r.ptr \in p..limit
    BY <2>3
  <2>6. r2.ptr \in r.ptr..limit
    BY <2>4, <2>5, ReadIn
  <2>7. Next2(q) = r2.ptr
    BY <2>1, <2>4 DEF NextDecl
  <2> HIDE DEF Next2
  <2> QED
    BY <2>5, <2>6, <2>7
<1> HIDE DEF Next2
<1>2. p \in p..limit /\ \A q \in p..limit : F[q] = Next2(q) /\ F[q] \in p..limit
  BY <1>1
<1>3. \E f : Is(f)
  <2> HIDE DEF F
  <2>1. PICK g : /\ g[0] = p
                 /\ \A k \in 1..n : g[k] = F[g[k - 1]]
                 /\ \A k \in 0..n : g[k] \in p..limit
    <3> DEFINE S == p..limit
    <3>1. p \in S /\ \A q \in S : F[q] \in S
      BY <1>2
    <3> HIDE DEF S
    <3>2. IterateExists(S, F, p, n)
      BY <3>1, Iterated
    <3> QED
      BY <3>2 DEF S, IterateExists
  <2> DEFINE f == [k \in 0..n |-> g[k]]
  <2>2. \A k \in 0..n : f[k] = g[k]
    OBVIOUS
  <2>3. ASSUME NEW k \in 0..n PROVE f[k] = IF k = 0 THEN p ELSE Next2(f[k - 1])
    <3>1. CASE k = 0
      BY <2>1, <2>2, <3>1
    <3>2. CASE k # 0
      <4>1. k \in 1..n /\ k - 1 \in 0..n
        BY <3>2
      <4>2. f[k] = F[g[k - 1]] /\ f[k - 1] = g[k - 1] /\ g[k - 1] \in p..limit
        BY <2>1, <2>2, <4>1
      <4>3. f[k] = Next2(f[k - 1])
        BY <1>2, <4>2
      <4> QED
        BY <3>2, <4>3
    <3> QED
      BY <3>1, <3>2
  <2>4. f = [k \in 0..n |-> f[k]]
    OBVIOUS
  <2> HIDE DEF f
  <2>5. Is(f)
    BY <2>3, <2>4
  <2> HIDE DEF Is
  <2> QED
    BY <2>5
<1>4. Is(decl)
  <2> HIDE DEF Is
  <2> QED
    BY <1>3
<1>5. LocalsEnd(p, n, limit) = decl[n]
  BY DEF LocalsEnd, Next2, NextDecl
<1> HIDE DEF decl
<1>10. DeclsEqn(decl, n, p, limit)
  BY <1>4 DEF DeclsEqn, Next2
<1>6. decl[0] = p /\ \A k \in 1..n : decl[k] = Next2(decl[k - 1])
  BY <1>4
<1> HIDE DEF Is
<1> DEFINE T == {k \in 0..n : decl[k] \in p..limit}
<1>7. 0 \in T
  BY <1>2, <1>6
<1>8. ASSUME NEW k \in 1..n, k - 1 \in T PROVE k \in T
  BY <1>1, <1>6, <1>8
<1> HIDE DEF T
<1>9. n \in T
  BY <1>7, <1>8, UpTo
<1> QED
  BY <1>5, <1>9, <1>10 DEF T
\* Where the labels of a br_table start, and how many there are.
LabelsEqn(f, n, p, limit) ==
  f = [i \in 0..n |-> IF i = 0 THEN p ELSE Read(f[i - 1], limit).ptr]

LEMMA LabelsIn ==
  ASSUME bytes \in Seq(Nat), NEW limit \in Nat, limit <= end, NEW p \in 1..limit,
         NEW n \in Nat
  PROVE  /\ \E f : LabelsEqn(f, n, p, limit)
         /\ \A f : LabelsEqn(f, n, p, limit) => \A k \in 0..n : f[k] \in p..limit
<1> DEFINE Next1(q) == Read(q, limit).ptr
           F == [q \in p..limit |-> Next1(q)]
           Is(f) == LabelsEqn(f, n, p, limit)
<1>1. ASSUME NEW q \in p..limit PROVE Next1(q) \in p..limit
  <2>1. PICK r : r = Read(q, limit)
    OBVIOUS
  <2>2. q \in 1..limit
    OBVIOUS
  <2>3. r.ptr \in q..limit
    BY <2>1, <2>2, ReadIn DEF Read
  <2> QED
    BY <2>1, <2>3
<1> HIDE DEF Next1
<1>2. p \in p..limit /\ \A q \in p..limit : F[q] = Next1(q) /\ F[q] \in p..limit
  BY <1>1
<1>3. \E f : Is(f)
  <2> HIDE DEF F
  <2>1. PICK g : /\ g[0] = p
                 /\ \A k \in 1..n : g[k] = F[g[k - 1]]
                 /\ \A k \in 0..n : g[k] \in p..limit
    <3> DEFINE S == p..limit
    <3>1. p \in S /\ \A q \in S : F[q] \in S
      BY <1>2
    <3> HIDE DEF S
    <3>2. IterateExists(S, F, p, n)
      BY <3>1, Iterated
    <3> QED
      BY <3>2 DEF S, IterateExists
  <2> DEFINE f == [k \in 0..n |-> g[k]]
  <2>2. \A k \in 0..n : f[k] = g[k]
    OBVIOUS
  <2>3. ASSUME NEW k \in 0..n PROVE f[k] = IF k = 0 THEN p ELSE Next1(f[k - 1])
    <3>1. CASE k = 0
      BY <2>1, <2>2, <3>1
    <3>2. CASE k # 0
      <4>1. k \in 1..n /\ k - 1 \in 0..n
        BY <3>2
      <4>2. f[k] = F[g[k - 1]] /\ f[k - 1] = g[k - 1] /\ g[k - 1] \in p..limit
        BY <2>1, <2>2, <4>1
      <4>3. f[k] = Next1(f[k - 1])
        BY <1>2, <4>2
      <4> QED
        BY <3>2, <4>3
    <3> QED
      BY <3>1, <3>2
  <2>4. f = [k \in 0..n |-> f[k]]
    OBVIOUS
  <2> HIDE DEF f
  <2>5. Is(f)
    BY <2>3, <2>4 DEF LabelsEqn, Next1
  <2> HIDE DEF Is
  <2> QED
    BY <2>5
<1>4. ASSUME NEW f, Is(f) PROVE \A k \in 0..n : f[k] \in p..limit
  <2>1. f[0] = p
    BY <1>4 DEF LabelsEqn
  <2>2. ASSUME NEW k \in 1..n PROVE f[k] = Next1(f[k - 1])
    BY <1>4 DEF LabelsEqn, Next1
  <2> DEFINE T == {k \in 0..n : f[k] \in p..limit}
  <2>3. 0 \in T
    BY <1>2, <2>1
  <2>4. ASSUME NEW k \in 1..n, k - 1 \in T PROVE k \in T
    <3>1. f[k - 1] \in p..limit
      BY <2>4
    <3>2. f[k] \in p..limit
      BY <1>1, <2>2, <3>1
    <3> QED
      BY <3>2
  <2> HIDE DEF T
  <2>5. 0..n \subseteq T
    BY <2>3, <2>4, UpTo
  <2> QED
    BY <2>5 DEF T
<1> QED
  BY <1>3, <1>4

FlatEqn(f, s, n) == f = [i \in 1..n |-> IF i = 1 THEN s[i] ELSE f[i - 1] \o s[i]]

FlatExists(s, n) ==
  \E g : \A k \in 1..n : /\ g[k] \in Seq(Nat)
                         /\ k = 1 => g[k] = s[k]
                         /\ k # 1 => g[k] = g[k - 1] \o s[k]

LEMMA FlatUpTo ==
  ASSUME NEW n \in Nat, NEW s, \A k \in 1..n : s[k] \in Seq(Nat)
  PROVE  FlatExists(s, n)
<1> DEFINE T == {m \in 0..n : FlatExists(s, m)}
<1>1. 0 \in T
  <2>1. 1..0 = {}
    OBVIOUS
  <2>2. FlatExists(s, 0)
    BY <2>1, Zenon DEF FlatExists
  <2> QED
    BY <2>2
<1>2. ASSUME NEW m \in 1..n, m - 1 \in T PROVE m \in T
  <2>1. PICK g : \A k \in 1..(m - 1) : /\ g[k] \in Seq(Nat)
                                       /\ k = 1 => g[k] = s[k]
                                       /\ k # 1 => g[k] = g[k - 1] \o s[k]
    BY <1>2 DEF FlatExists
  <2> DEFINE h == [k \in 1..m |-> IF k = m THEN IF m = 1 THEN s[m] ELSE g[m - 1] \o s[m]
                                 ELSE g[k]]
  <2>2. \A k \in 1..(m - 1) : h[k] = g[k]
    OBVIOUS
  <2>3. (m = 1 => h[m] = s[m]) /\ (m # 1 => h[m] = g[m - 1] \o s[m])
    <3>1. m \in 1..m
      OBVIOUS
    <3> QED
      BY <3>1, Zenon
  <2>4. h[m] \in Seq(Nat)
    <3>1. CASE m = 1
      BY <2>3, <3>1
    <3>2. CASE m # 1
      <4>1. m - 1 \in 1..(m - 1)
        BY <3>2
      <4>2. g[m - 1] \in Seq(Nat) /\ s[m] \in Seq(Nat)
        BY <2>1, <4>1, ZenonT(60)
      <4> QED
        BY <2>3, <3>2, <4>2, Joined DEF Joins
    <3> QED
      BY <3>1, <3>2
  <2>5. ASSUME NEW k \in 1..m
        PROVE  h[k] \in Seq(Nat) /\ (k = 1 => h[k] = s[k]) /\ (k # 1 => h[k] = h[k - 1] \o s[k])
    <3>1. CASE k = m /\ k # 1
      <4>1. m - 1 \in 1..(m - 1)
        BY <3>1
      <4>2. h[m - 1] = g[m - 1]
        BY <2>2, <4>1
      <4> QED
        BY <2>3, <2>4, <3>1, <4>2
    <3>2. CASE k # m /\ k # 1
      <4>1. k \in 1..(m - 1) /\ k - 1 \in 1..(m - 1)
        BY <3>2
      <4>2. h[k] = g[k] /\ h[k - 1] = g[k - 1]
        BY <2>2, <4>1
      <4> QED
        BY <2>1, <3>2, <4>1, <4>2
    <3>3. CASE k = m /\ k = 1
      BY <2>3, <2>4, <3>3
    <3>4. CASE k # m /\ k = 1
      <4>1. k \in 1..(m - 1)
        BY <3>4
      <4> QED
        BY <2>1, <2>2, <3>4, <4>1
    <3> QED
      BY <3>1, <3>2, <3>3, <3>4, ZenonT(60)
  <2> HIDE DEF h
  <2>6. FlatExists(s, m)
    BY <2>5 DEF FlatExists
  <2> QED
    BY <2>6
<1> HIDE DEF T
<1>3. 0..n \subseteq T
  BY <1>1, <1>2, UpTo
<1> QED
  BY <1>3 DEF T

LEMMA FlatEqnIs ==
  ASSUME NEW n \in Nat, NEW s, \A k \in 1..n : s[k] \in Seq(Nat)
  PROVE  /\ \E f : FlatEqn(f, s, n)
         /\ \A f : FlatEqn(f, s, n) => \A k \in 1..n : f[k] \in Seq(Nat)
<1>1. \E f : FlatEqn(f, s, n)
  <2>1. PICK g : \A k \in 1..n : /\ g[k] \in Seq(Nat)
                                 /\ k = 1 => g[k] = s[k]
                                 /\ k # 1 => g[k] = g[k - 1] \o s[k]
    BY FlatUpTo DEF FlatExists
  <2> DEFINE f == [k \in 1..n |-> g[k]]
  <2>2. \A k \in 1..n : f[k] = g[k]
    OBVIOUS
  <2>3. ASSUME NEW k \in 1..n PROVE f[k] = IF k = 1 THEN s[k] ELSE f[k - 1] \o s[k]
    <3>1. CASE k = 1
      BY <2>1, <2>2, <3>1
    <3>2. CASE k # 1
      <4>1. k - 1 \in 1..n
        BY <3>2
      <4> QED
        BY <2>1, <2>2, <3>2, <4>1
    <3> QED
      BY <3>1, <3>2
  <2>4. f = [k \in 1..n |-> f[k]]
    OBVIOUS
  <2> HIDE DEF f
  <2>5. FlatEqn(f, s, n)
    BY <2>3, <2>4 DEF FlatEqn
  <2> QED
    BY <2>5
<1>2. ASSUME NEW f, FlatEqn(f, s, n) PROVE \A k \in 1..n : f[k] \in Seq(Nat)
  <2>1. ASSUME NEW k \in 1..n
        PROVE  (k = 1 => f[k] = s[k]) /\ (k # 1 => f[k] = f[k - 1] \o s[k])
    BY <1>2 DEF FlatEqn
  <2> DEFINE T == {k \in 0..n : k # 0 => f[k] \in Seq(Nat)}
  <2>2. 0 \in T
    OBVIOUS
  <2>3. ASSUME NEW k \in 1..n, k - 1 \in T PROVE k \in T
    <3>1. CASE k = 1
      <4>1. f[k] \in Seq(Nat)
        BY <2>1, <3>1
      <4> QED
        BY <4>1
    <3>2. CASE k # 1
      <4>1. f[k - 1] \in Seq(Nat) /\ s[k] \in Seq(Nat)
        BY <2>3, <3>2
      <4>2. f[k] = f[k - 1] \o s[k]
        BY <2>1, <3>2
      <4>3. f[k] \in Seq(Nat)
        BY <4>1, <4>2, Joined DEF Joins
      <4> QED
        BY <4>3
    <3> QED
      BY <3>1, <3>2
  <2> HIDE DEF T
  <2>4. 0..n \subseteq T
    BY <2>2, <2>3, UpTo
  <2> QED
    BY <2>4 DEF T
<1> QED
  BY <1>1, <1>2

\* Data put one behind the other is data.
LEMMA Flattened ==
  ASSUME NEW n \in Nat, NEW s, s = [i \in 1..n |-> s[i]], \A k \in 1..n : s[k] \in Seq(Nat)
  PROVE  Emitted(FlattenSeq(s), 0)
<1>1. Len(s) = n
  OBVIOUS
<1>2. CASE n = 0
  <2>1. s = <<>>
    BY <1>2
  <2> QED
    BY <1>1, <1>2, <2>1 DEF FlattenSeq, Emitted
<1>3. CASE n # 0
  <2> DEFINE f == CHOOSE g : FlatEqn(g, s, n)
  <2>1. FlatEqn(f, s, n)
    BY FlatEqnIs
  <2>2. FlattenSeq(s) = f[n]
    BY <1>1, <1>3 DEF FlattenSeq, FlatEqn
  <2> HIDE DEF f
  <2>3. f[n] \in Seq(Nat)
    BY <1>3, <2>1, FlatEqnIs
  <2> QED
    BY <2>2, <2>3 DEF Emitted
<1> QED
  BY <1>2, <1>3

-----------------------------------------------------------------------------
LEMMA Untouched ==
  ASSUME WInv, UNCHANGED <<out, pos>>
  PROVE  OutputKept
<1>1. Len(out) \in Nat /\ out \in Seq(Nat) /\ pos \in 0..Len(out)
  BY DEF WInv, TypeOK
<1> QED
  BY <1>1 DEF OutputKept

\* The numbers the invariant speaks of.
LEMMA Ranges ==
  ASSUME WInv
  PROVE  /\ bytes \in Seq(Nat) /\ out \in Seq(Nat) /\ Len(bytes) \in Nat /\ Len(out) \in Nat
         /\ end = Len(bytes) + 1 /\ end \in Nat
         /\ pos \in Nat /\ pos <= Len(out)
         /\ ptr \in Nat /\ 1 <= ptr /\ ptr <= end
         /\ section_end \in Nat /\ section_end <= end /\ body_end \in Nat /\ body_end <= end
         /\ before \in Nat /\ body_before \in Nat /\ before <= pos /\ body_before <= pos
         /\ MaxLen \in Nat /\ MaxLen >= 2
<1>1. Len(bytes) \in Nat /\ Len(out) \in Nat
  BY DEF WInv
<1> QED
  BY <1>1, Widths DEF WInv, TypeOK, end

\* The output is kept, the pointers and the places reserved stay where they
\* belong, and so do the codes.
Placed ==
  /\ ptr' \in 1..end
  /\ section_end' \in 0..end /\ body_end' \in 0..end
  /\ bodies' \in Nat
  /\ before' \in 0..pos' /\ body_before' \in 0..pos'
  /\ phase' \in {"code", "body"} => before' + MaxLen <= pos' /\ 1 <= section_end'
  /\ phase' = "body" => body_before' + MaxLen <= pos' /\ 1 <= body_end'

Coded ==
  /\ phase' \in {"header", "section", "code", "body", "returned", "exit"}
  /\ dropped' \in -6..0 /\ result' \in -4..0 /\ exit_code' \in {-1, 0}

LEMMA KeptIs ==
  ASSUME WInv, OutputKept, Placed, Coded, file' = file
  PROVE  WInv'
<1>1. bytes' = bytes /\ end' = end
  BY DEF bytes, end
<1>2. pos' \in 0..Len(out') /\ out' \in Seq(Nat)
  BY Ranges DEF OutputKept
<1>3. TypeOK'
  BY <1>1, <1>2 DEF TypeOK, Placed, Coded
<1>4. Reserved'
  BY DEF Reserved, Placed
<1>5. bytes \in Seq(Nat)
  BY DEF WInv
<1> QED
  BY <1>1, <1>2, <1>3, <1>4, <1>5 DEF WInv

StepKeeps == WInv' /\ OutputKept

LEMMA HeaderKeeps ==
  ASSUME WInv, CheckHeader
  PROVE  StepKeeps
<1>1. file' = file
  BY DEF CheckHeader
<1>2. CASE UNCHANGED <<out, pos>> /\ Return(-1) /\ UNCHANGED ptr
  <2>1. OutputKept
    BY <1>2, Untouched
  <2>2. Placed
    BY <1>2, Ranges DEF CheckHeader, Placed, Return, WInv, TypeOK
  <2>3. Coded
    BY <1>2 DEF CheckHeader, Coded, Return, WInv, TypeOK
  <2> QED
    BY <1>1, <2>1, <2>2, <2>3, KeptIs DEF StepKeeps
<1>3. CASE UNCHANGED <<out, pos>> /\ Return(-2) /\ ptr' = 5 /\ end > 4
  <2>1. OutputKept
    BY <1>3, Untouched
  <2>2. Placed
    BY <1>3, Ranges DEF CheckHeader, Placed, Return, WInv, TypeOK
  <2>3. Coded
    BY <1>3 DEF CheckHeader, Coded, Return, WInv, TypeOK
  <2> QED
    BY <1>1, <2>1, <2>2, <2>3, KeptIs DEF StepKeeps
<1>4. CASE Emit(Header) /\ ptr' = 9 /\ end > 8 /\ phase' = "section" /\ UNCHANGED result
  <2>1. Header \in Seq(Nat)
    BY DEF Header
  <2>2. OutputKept
    BY <1>4, <2>1, EmitKeeps
  <2>3. pos' \in Nat /\ pos <= pos'
    BY <2>2, Ranges DEF OutputKept
  <2>4. Placed
    BY <1>4, <2>3, Ranges, SMTT(60) DEF CheckHeader, Placed, WInv, TypeOK
  <2>5. Coded
    BY <1>4 DEF CheckHeader, Coded, WInv, TypeOK
  <2> QED
    BY <1>1, <2>2, <2>4, <2>5, KeptIs DEF StepKeeps
<1>5. (~(end <= 4) => end > 4) /\ (~(end <= 8) => end > 8)
  BY Ranges
<1> QED
  BY <1>2, <1>3, <1>4, <1>5, Zenon DEF CheckHeader

LEMMA SectionKeeps ==
  ASSUME WInv, NextSection
  PROVE  StepKeeps
<1> DEFINE len  == Read(ptr + 1, end)
           stop == len.ptr + len.val
<1>1. file' = file /\ phase = "section" /\ ptr < end
  BY DEF NextSection
<1>2. len.ptr \in (ptr + 1)..end /\ len.val \in Nat
  <2>1. PICK p \in Nat : p = ptr + 1
    BY Ranges
  <2>2. PICK r : r = Read(p, end)
    OBVIOUS
  <2>3. p \in 1..end
    BY <1>1, <2>1, Ranges
  <2>4. r.ptr \in p..end /\ r.val \in Nat
    <3>1. PICK limit \in Nat : limit = end
      BY Ranges
    <3>2. p \in 1..limit /\ limit <= end /\ r = ReadLeb(bytes, p, limit, FALSE)
      BY <2>2, <2>3, <3>1 DEF Read
    <3> HIDE DEF len, stop
    <3>3. r.ptr \in p..limit /\ r.val \in Nat
      BY <3>2, Ranges, ReadIn
    <3> QED
      BY <3>1, <3>3
  <2> QED
    BY <2>1, <2>2, <2>4
<1>3. PICK lp \in Nat, st \in Nat :
        lp = len.ptr /\ st = stop /\ lp <= st /\ ptr < lp /\ lp <= end
  <2>1. len.ptr \in Nat /\ stop \in Nat /\ len.ptr <= stop /\ ptr < len.ptr /\ len.ptr <= end
    BY <1>2, Ranges, SMTT(60)
  <2> HIDE DEF stop, len
  <2> QED
    BY <2>1, Zenon
<1>4. \/ /\ Return(-4) /\ ptr' = lp
         /\ UNCHANGED <<out, pos, section_end, before, bodies>>
      \/ /\ st <= end /\ Emit(From(ptr, st)) /\ ptr' = st
         /\ UNCHANGED <<phase, result, section_end, before, bodies>>
      \/ /\ st <= end
         /\ Emit(<<WASM_SECT_CODE>> \o EmitLeb5(0) \o EmitLeb(Read(lp, st).val))
         /\ before' = pos + 1 /\ bodies' = Read(lp, st).val /\ section_end' = st
         /\ ptr' = Read(lp, st).ptr /\ phase' = "code" /\ UNCHANGED result
  <2>1. st > end \/ st <= end
    BY <1>3, Ranges
  <2> QED
    BY <1>3, <2>1 DEF NextSection
<1>5. UNCHANGED <<body_end, body_before, dropped, exit_code>>
  BY DEF NextSection
<1> HIDE DEF len, stop
<1>6. CASE Return(-4) /\ ptr' = lp /\ UNCHANGED <<out, pos, section_end, before, bodies>>
  <2>1. OutputKept
    BY <1>6, Untouched
  <2>2. Placed
    BY <1>3, <1>5, <1>6, Ranges DEF Placed, Return, WInv, TypeOK
  <2>3. Coded
    BY <1>5, <1>6 DEF Coded, Return, WInv, TypeOK
  <2> QED
    BY <1>1, <2>1, <2>2, <2>3, KeptIs DEF StepKeeps
<1>7. CASE /\ st <= end /\ Emit(From(ptr, st)) /\ ptr' = st
           /\ UNCHANGED <<phase, result, section_end, before, bodies>>
  <2>1. From(ptr, st) \in Seq(Nat)
    <3>1. ptr \in 1..st
      BY <1>3, Ranges
    <3> QED
      BY <1>7, <3>1, Ranges, Copied DEF Emitted
  <2>2. OutputKept
    BY <1>7, <2>1, EmitKeeps
  <2>3. pos' \in Nat /\ pos <= pos'
    BY <2>2, Ranges DEF OutputKept
  <2>4. Placed
    BY <1>1, <1>3, <1>5, <1>7, <2>3, Ranges, SMTT(60) DEF Placed, WInv, TypeOK
  <2>5. Coded
    BY <1>5, <1>7 DEF Coded, WInv, TypeOK
  <2> QED
    BY <1>1, <2>2, <2>4, <2>5, KeptIs DEF StepKeeps
<1>8. CASE /\ st <= end
           /\ Emit(<<WASM_SECT_CODE>> \o EmitLeb5(0) \o EmitLeb(Read(lp, st).val))
           /\ before' = pos + 1 /\ bodies' = Read(lp, st).val /\ section_end' = st
           /\ ptr' = Read(lp, st).ptr /\ phase' = "code" /\ UNCHANGED result
  <2>1. PICK count : count = Read(lp, st)
    OBVIOUS
  <2>2. /\ count.ptr \in lp..st
        /\ count.val \in Nat /\ count.val \in Numbers
    <3>1. lp \in 1..st
      BY <1>3, Ranges
    <3> QED
      BY <1>3, <1>8, <2>1, <3>1, Ranges, ReadIn DEF Read
  <2>3. PICK data :
          data = <<WASM_SECT_CODE>> \o EmitLeb5(0) \o EmitLeb(count.val)
    OBVIOUS
  <2>4. Emitted(data, 1 + MaxLen + 1)
    <3>1. Emitted(<<WASM_SECT_CODE>>, 1)
      BY EmittedByte DEF WASM_SECT_CODE
    <3>2. Emitted(EmitLeb5(0), MaxLen) /\ Emitted(EmitLeb(count.val), 1)
      BY <2>2, ZeroEmitted, EmittedForms
    <3>3. Emitted(<<WASM_SECT_CODE>> \o EmitLeb5(0), 1 + MaxLen)
      BY <3>1, <3>2, Ranges, EmittedJoin
    <3>4. 1 + MaxLen \in Nat
      BY Ranges
    <3> QED
      BY <2>3, <3>2, <3>3, <3>4, EmittedJoin
  <2>5. OutputKept /\ pos' = pos + Len(data)
    BY <1>8, <2>1, <2>3, <2>4, EmitKeeps DEF Emitted
  <2>6. pos' \in Nat /\ pos + 1 + MaxLen <= pos'
    <3>1. Len(data) \in Nat /\ Len(data) >= 1 + MaxLen + 1
      BY <2>4 DEF Emitted
    <3> QED
      BY <2>5, <3>1, Ranges, SMTT(60)
  <2>7. Placed
    <3>1. ptr' \in 1..end /\ section_end' \in 0..end /\ body_end' \in 0..end /\ bodies' \in Nat
      <4>1. ptr' = count.ptr /\ section_end' = st /\ body_end' = body_end /\ bodies' = count.val
        BY <1>5, <1>8, <2>1
      <4>2. count.ptr \in Nat /\ lp <= count.ptr /\ count.ptr <= st
        BY <2>2
      <4> QED
        BY <1>3, <1>8, <2>2, <4>1, <4>2, Ranges, SMTT(60)
    <3>2. /\ before' \in 0..pos' /\ body_before' \in 0..pos'
          /\ before' + MaxLen <= pos' /\ phase' # "body"
      BY <1>5, <1>8, <2>6, Ranges
    <3>3. section_end' = st /\ 1 <= st
      BY <1>3, <1>8, Ranges
    <3> QED
      BY <3>1, <3>2, <3>3 DEF Placed
  <2>8. Coded
    BY <1>5, <1>8 DEF Coded, WInv, TypeOK
  <2> QED
    BY <1>1, <2>5, <2>7, <2>8, KeptIs DEF StepKeeps
<1> QED
  BY <1>4, <1>6, <1>7, <1>8

Reads(r, p, limit) ==
  r.ptr \in Nat /\ p <= r.ptr /\ r.ptr <= limit /\ r.val \in Nat /\ r.val \in Numbers

LEMMA ReadsIn ==
  ASSUME WInv, NEW limit \in Nat, limit <= end, NEW p \in Nat, 1 <= p, p <= limit
  PROVE  Reads(Read(p, limit), p, limit)
<1>1. PICK r : r = Read(p, limit)
  OBVIOUS
<1>2. p \in 1..limit
  OBVIOUS
<1>3. r.ptr \in p..limit /\ r.val \in Nat /\ r.val \in Numbers
  BY <1>1, <1>2, Ranges, ReadIn DEF Read
<1> QED
  BY <1>1, <1>3 DEF Reads

LEMMA BodyKeeps ==
  ASSUME WInv, NextBody, BodiesFit'
  PROVE  StepKeeps
<1> DEFINE len   == Read(ptr, section_end)
           count == Read(len.ptr, len.ptr + len.val)
<1>1. /\ file' = file /\ phase = "code" /\ bodies > 0 /\ bodies' = bodies - 1 /\ phase' = "body"
      /\ UNCHANGED <<section_end, before, dropped, result, exit_code>>
  BY DEF NextBody
<1>2. len.ptr \in Nat /\ ptr <= len.ptr /\ len.val \in Nat
  <2>1. CASE ptr <= section_end
    <3>1. Reads(len, ptr, section_end)
      BY <2>1, Ranges, ReadsIn
    <3> HIDE DEF len
    <3> QED
      BY <3>1 DEF Reads
  <2>2. CASE ptr > section_end
    <3>1. len = [val |-> 0, ptr |-> ptr]
      <4>1. ptr \in Nat /\ section_end \in Nat /\ ptr >= section_end
        BY <2>2, Ranges
      <4> HIDE DEF len
      <4>2. ReadLeb(bytes, ptr, section_end, FALSE) = [val |-> 0, ptr |-> ptr]
        BY <4>1, ReadAtEnd
      <4> QED
        BY <4>2 DEF len, Read
    <3> QED
      BY <3>1, Ranges
  <2> QED
    BY <2>1, <2>2, Ranges
<1> HIDE DEF len
<1>3. PICK lp \in Nat, limit \in Nat :
        lp = len.ptr /\ limit = len.ptr + len.val /\ ptr <= lp /\ lp <= limit /\ 1 <= lp
  BY <1>2, Ranges
<1>4. PICK start : start = LocalsEnd(count.ptr, count.val, limit)
  OBVIOUS
<1>5. /\ Emit(EmitLeb5(0) \o From(lp, start))
      /\ body_before' = pos /\ body_end' = limit /\ ptr' = start
  BY <1>3, <1>4 DEF NextBody, len
<1>6. limit <= end
  <2>1. end' = end
    BY <1>1 DEF end, bytes
  <2> QED
    BY <1>5, <2>1 DEF BodiesFit
<1>7. Reads(count, lp, limit)
  BY <1>3, <1>6, ReadsIn
<1> HIDE DEF count
<1>8. start \in Nat /\ lp <= start /\ start <= limit
  <2>1. count.ptr \in 1..limit /\ count.val \in Nat /\ lp <= count.ptr /\ count.ptr \in Nat
    BY <1>3, <1>7 DEF Reads
  <2>2. start \in count.ptr..limit
    BY <1>4, <1>6, <2>1, Ranges, LocalsEndIn
  <2> QED
    BY <1>3, <2>1, <2>2
<1>9. PICK data : data = EmitLeb5(0) \o From(lp, start)
  OBVIOUS
<1>10. Emitted(data, MaxLen + 0)
  <2>1. Emitted(EmitLeb5(0), MaxLen)
    BY ZeroEmitted, EmittedForms
  <2>2. Emitted(From(lp, start), 0)
    <3>1. lp \in 1..start /\ start <= end
      BY <1>3, <1>6, <1>8, Ranges
    <3> QED
      BY <1>8, <3>1, Ranges, Copied
  <2> QED
    BY <1>9, <2>1, <2>2, Ranges, EmittedJoin
<1>11. OutputKept /\ pos' = pos + Len(data)
  BY <1>5, <1>9, <1>10, EmitKeeps DEF Emitted
<1>12. pos' \in Nat /\ pos + MaxLen <= pos'
  <2>1. PICK n \in Nat : n = Len(data) /\ n >= MaxLen
    BY <1>10, Ranges DEF Emitted
  <2> QED
    BY <1>11, <2>1, Ranges
<1>13. Placed
  <2>1. /\ ptr' \in 1..end /\ section_end' \in 0..end /\ body_end' \in 0..end
    BY <1>1, <1>3, <1>5, <1>6, <1>8, Ranges
  <2>2. bodies' \in Nat
    BY <1>1 DEF WInv, TypeOK
  <2>3. before + MaxLen <= pos /\ 1 <= section_end
    BY <1>1 DEF WInv, Reserved
  <2>4. /\ before' \in 0..pos' /\ body_before' \in 0..pos'
        /\ before' + MaxLen <= pos' /\ body_before' + MaxLen <= pos'
    BY <1>1, <1>5, <1>12, <2>3, Ranges, SMTT(60)
  <2>5. 1 <= section_end' /\ 1 <= body_end'
    BY <1>1, <1>3, <1>5, <2>3
  <2> QED
    BY <2>1, <2>2, <2>4, <2>5 DEF Placed
<1>14. Coded
  BY <1>1 DEF Coded, WInv, TypeOK
<1> QED
  BY <1>1, <1>11, <1>13, <1>14, KeptIs DEF StepKeeps

\* The steps within a body move nothing but the pointer and the output.
LEMMA InBody ==
  ASSUME WInv, OutputKept, UNCHANGED <<phase, bodyVars>>, phase = "body",
         NEW q \in Nat, ptr' = q, ptr <= q, q <= body_end
  PROVE  StepKeeps
<1>1. /\ file' = file
      /\ UNCHANGED <<phase, section_end, before, bodies, body_end, body_before, dropped, result,
                     exit_code>>
  BY DEF bodyVars
<1>2. pos' \in Nat /\ pos <= pos'
  BY Ranges DEF OutputKept
<1>3. Placed
  <2>1. /\ before + MaxLen <= pos /\ body_before + MaxLen <= pos
        /\ 1 <= section_end /\ 1 <= body_end
    BY DEF WInv, Reserved
  <2>2. ptr' \in 1..end /\ section_end' \in 0..end /\ body_end' \in 0..end
    BY <1>1, Ranges
  <2>3. bodies' \in Nat
    BY <1>1 DEF WInv, TypeOK
  <2>4. /\ before' \in 0..pos' /\ body_before' \in 0..pos'
        /\ before' + MaxLen <= pos' /\ body_before' + MaxLen <= pos'
        /\ 1 <= section_end' /\ 1 <= body_end'
    BY <1>1, <1>2, <2>1, Ranges, SMTT(60)
  <2> QED
    BY <2>2, <2>3, <2>4 DEF Placed
<1>4. Coded
  BY <1>1 DEF Coded, WInv, TypeOK
<1> QED
  BY <1>1, <1>3, <1>4, KeptIs DEF StepKeeps

LEMMA LabelKeeps ==
  ASSUME WInv, TransformLabel
  PROVE  StepKeeps
<1> DEFINE imm == Read(ptr + 1, body_end)
<1>1. /\ phase = "body" /\ ptr < body_end /\ UNCHANGED <<phase, bodyVars>>
      /\ Emit(<<bytes[ptr]>> \o EmitLeb4(imm.val)) /\ ptr' = imm.ptr
  BY DEF TransformLabel, AtOpcode
<1>2. Reads(imm, ptr + 1, body_end)
  <2>1. PICK p \in Nat : p = ptr + 1
    BY Ranges
  <2>2. Reads(Read(p, body_end), p, body_end)
    BY <1>1, <2>1, Ranges, ReadsIn
  <2> QED
    BY <2>1, <2>2
<1> HIDE DEF imm
<1>3. imm.ptr \in Nat /\ ptr <= imm.ptr /\ imm.ptr <= body_end /\ imm.val \in Numbers
  BY <1>2, Ranges DEF Reads
<1>4. PICK data : data = <<bytes[ptr]>> \o EmitLeb4(imm.val)
  OBVIOUS
<1>5. Emitted(data, 1 + 1)
  <2>1. bytes[ptr] \in Nat
    BY <1>1, Ranges
  <2> QED
    BY <1>3, <1>4, <2>1, EmittedByte, EmittedForms, EmittedJoin
<1>6. OutputKept
  BY <1>1, <1>4, <1>5, EmitKeeps DEF Emitted
<1> QED
  BY <1>1, <1>3, <1>6, InBody

LEMMA LabelsKeep ==
  ASSUME WInv, TransformLabels
  PROVE  StepKeeps
<1> DEFINE count == Read(ptr + 1, body_end)
           m     == count.val + 1
           at    == CHOOSE f : LabelsEqn(f, m, count.ptr, body_end)
           given == {i \in 0..count.val : at[i] < body_end}
           n     == Cardinality(given)
           each  == [i \in 1..n |-> EmitLeb4(Read(at[i - 1], body_end).val)]
<1>1. /\ phase = "body" /\ ptr < body_end /\ UNCHANGED <<phase, bodyVars>>
      /\ Emit(<<bytes[ptr]>> \o EmitLeb4(count.val) \o FlattenSeq(each)) /\ ptr' = at[n]
  BY DEF TransformLabels, AtOpcode, LabelsEqn
<1>2. Reads(count, ptr + 1, body_end)
  <2>1. PICK p \in Nat : p = ptr + 1
    BY Ranges
  <2>2. Reads(Read(p, body_end), p, body_end)
    BY <1>1, <2>1, Ranges, ReadsIn
  <2> QED
    BY <2>1, <2>2
<1> HIDE DEF count
<1>3. /\ count.ptr \in Nat /\ 1 <= count.ptr /\ ptr <= count.ptr /\ count.ptr <= body_end
      /\ count.val \in Nat /\ count.val \in Numbers /\ m \in Nat
  <2>1. /\ count.ptr \in Nat /\ ptr + 1 <= count.ptr /\ count.ptr <= body_end
        /\ count.val \in Nat /\ count.val \in Numbers
    BY <1>2 DEF Reads
  <2>2. ptr \in Nat /\ 1 <= ptr
    BY Ranges
  <2> QED
    BY <2>1, <2>2
<1> HIDE DEF at
<1>4. \A k \in 0..m : at[k] \in Nat /\ count.ptr <= at[k] /\ at[k] <= body_end
  <2>1. count.ptr \in 1..body_end
    BY <1>3
  <2> HIDE DEF m
  <2>2. /\ \E f : LabelsEqn(f, m, count.ptr, body_end)
        /\ \A f : LabelsEqn(f, m, count.ptr, body_end) =>
             \A k \in 0..m : f[k] \in count.ptr..body_end
    BY <1>3, <2>1, Ranges, LabelsIn
  <2>3. LabelsEqn(at, m, count.ptr, body_end)
    BY <2>2 DEF at
  <2> QED
    BY <1>3, <2>2, <2>3
<1>5. n \in Nat /\ n <= m
  <2> DEFINE all == 0..count.val
  <2>1. IsFiniteSet(all) /\ Cardinality(all) = m
    <3>1. PICK v \in Nat : v = count.val /\ m = v + 1
      BY <1>3
    <3>2. IsFiniteSet(0..v) /\ Cardinality(0..v) = IF 0 > v THEN 0 ELSE v - 0 + 1
      BY FS_Interval
    <3>3. Cardinality(0..v) = v + 1
      BY <3>2
    <3> HIDE DEF m
    <3> QED
      BY <3>1, <3>2, <3>3
  <2>2. given \in SUBSET all
    OBVIOUS
  <2> HIDE DEF all, given, m
  <2>3. IsFiniteSet(given) /\ Cardinality(given) <= m
    BY <2>1, <2>2, FS_Subset
  <2> QED
    BY <2>3, FS_CardinalityType
<1> HIDE DEF given, n, m
<1>6. Emitted(FlattenSeq(each), 0)
  <2>1. ASSUME NEW k \in 1..n PROVE each[k] \in Seq(Nat)
    <3>1. PICK p \in Nat : p = at[k - 1] /\ 1 <= p /\ p <= body_end
      <4>1. k - 1 \in 0..m
        BY <1>3, <1>5
      <4> QED
        BY <1>3, <1>4, <4>1
    <3>2. Reads(Read(p, body_end), p, body_end)
      BY <3>1, Ranges, ReadsIn
    <3>3. Emitted(EmitLeb4(Read(p, body_end).val), 1)
      BY <3>2, EmittedForms DEF Reads
    <3>4. each[k] = EmitLeb4(Read(p, body_end).val)
      BY <3>1
    <3> QED
      BY <3>3, <3>4 DEF Emitted
  <2>2. each = [i \in 1..n |-> each[i]]
    OBVIOUS
  <2> HIDE DEF each
  <2> QED
    BY <1>5, <2>1, <2>2, Flattened
<1> HIDE DEF each
<1>7. PICK data : data = <<bytes[ptr]>> \o EmitLeb4(count.val) \o FlattenSeq(each)
  OBVIOUS
<1>8. Emitted(data, 2 + 0)
  <2>1. bytes[ptr] \in Nat
    BY <1>1, Ranges
  <2>2. Emitted(<<bytes[ptr]>> \o EmitLeb4(count.val), 1 + 1)
    BY <1>3, <2>1, EmittedByte, EmittedForms, EmittedJoin
  <2>3. Emitted(<<bytes[ptr]>> \o EmitLeb4(count.val), 2)
    BY <2>2
  <2> QED
    BY <1>6, <1>7, <2>3, EmittedJoin
<1>9. OutputKept
  BY <1>1, <1>7, <1>8, EmitKeeps DEF Emitted
<1>10. PICK q \in Nat : q = at[n] /\ ptr <= q /\ q <= body_end
  <2>1. n \in 0..m
    BY <1>3, <1>5
  <2>2. at[n] \in Nat /\ count.ptr <= at[n] /\ at[n] <= body_end
    BY <1>4, <2>1
  <2> QED
    BY <1>3, <2>2, Ranges
<1> QED
  BY <1>1, <1>9, <1>10, InBody

LEMMA ConstIsLegal ==
  /\ WASM_OP_F64_CONST \in LegalOps /\ WASM_OP_F64_CONST \notin IllegalOps
  /\ WASM_OP_F64_CONST \notin BlockOps /\ WASM_OP_F64_CONST # WASM_OP_CALL_INDIRECT
<1>1. WASM_OP_F64_CONST \in LegalOps
  BY DEF LegalOps, WASM_OP_F64_CONST
<1>2. WASM_OP_F64_CONST \notin IllegalOps
  BY DEF WASM_OP_F64_CONST, IllegalOps
<1>3. WASM_OP_F64_CONST \notin BlockOps /\ WASM_OP_F64_CONST # WASM_OP_CALL_INDIRECT
  BY DEF WASM_OP_F64_CONST, BlockOps, WASM_OP_BLOCK, WASM_OP_LOOP, WASM_OP_CALL_INDIRECT
<1> QED
  BY <1>1, <1>2, <1>3

\* The arms of ImmediateEnd are of different opcodes.
LEMMA ArmsDiffer ==
  ASSUME NEW b
  PROVE  /\ b \in IndexOps => b \notin LoadOps \cup StoreOps
         /\ b \in IndexOps \cup LoadOps \cup StoreOps =>
              b \notin BlockOps \cup {WASM_OP_I32_CONST, WASM_OP_CALL_INDIRECT, WASM_OP_F64_CONST}
         /\ b \in BlockOps \cup {WASM_OP_I32_CONST} =>
              b \notin {WASM_OP_CALL_INDIRECT, WASM_OP_F64_CONST}
         /\ WASM_OP_CALL_INDIRECT # WASM_OP_F64_CONST
BY DEF IndexOps, LocalOps, GlobalOps, WASM_OP_LOCAL_GET, WASM_OP_LOCAL_SET, WASM_OP_LOCAL_TEE,
       WASM_OP_GLOBAL_GET, WASM_OP_GLOBAL_SET, WASM_OP_CALL, LoadOps, StoreOps, BlockOps,
       WASM_OP_BLOCK, WASM_OP_LOOP, WASM_OP_I32_CONST, WASM_OP_CALL_INDIRECT, WASM_OP_F64_CONST

\* The immediates of a legal instruction end in the body.
LEMMA ImmediateIn ==
  ASSUME WInv, ptr < body_end, Verdict = 0
  PROVE  ImmediateEnd \in Nat /\ ptr <= ImmediateEnd /\ ImmediateEnd <= body_end
<1>1. PICK p \in Nat : p = ptr + 1 /\ 1 <= p /\ p <= body_end
  <2>1. ptr + 1 \in Nat /\ 1 <= ptr + 1 /\ ptr + 1 <= body_end
    BY Ranges
  <2> QED
    BY <2>1, Zenon
<1>2. bytes \in Seq(Nat) /\ body_end \in Nat /\ body_end <= end
  BY Ranges
<1>3. PICK r : r = Read(p, body_end)
  OBVIOUS
<1>4. r.ptr \in Nat /\ p <= r.ptr /\ r.ptr <= body_end
  BY <1>1, <1>2, <1>3, ReadsIn DEF Reads
<1>5. PICK r2 : r2 = Read(r.ptr, body_end)
  OBVIOUS
<1>6. r2.ptr \in Nat /\ p <= r2.ptr /\ r2.ptr <= body_end
  <2>1. PICK q \in Nat : q = r.ptr /\ 1 <= q /\ q <= body_end /\ p <= q
    BY <1>1, <1>4
  <2>2. Reads(r2, q, body_end)
    BY <1>2, <1>5, <2>1, ReadsIn
  <2> QED
    BY <2>1, <2>2 DEF Reads
<1>7. PICK r3 : r3 = ReadLeb(bytes, p, body_end, TRUE)
  OBVIOUS
<1>8. r3.ptr \in Nat /\ p <= r3.ptr /\ r3.ptr <= body_end
  <2>1. p \in 1..body_end
    BY <1>1
  <2>2. r3.ptr \in p..body_end
    BY <1>2, <1>7, <2>1, ReadIn
  <2> QED
    BY <2>2
<1>9. PICK p4 \in Nat : p4 = IF p < body_end THEN p + 1 ELSE p
  BY <1>1
<1>10. PICK r4 : r4 = Read(p4, body_end)
  OBVIOUS
<1>11. r4.ptr \in Nat /\ p <= r4.ptr /\ r4.ptr <= body_end
  <2>1. 1 <= p4 /\ p <= p4 /\ p4 <= body_end
    BY <1>1, <1>9, <1>2
  <2>2. Reads(r4, p4, body_end)
    BY <1>2, <1>10, <2>1, ReadsIn
  <2> QED
    BY <1>1, <2>1, <2>2 DEF Reads
<1>12. bytes[ptr] = WASM_OP_F64_CONST =>
         p + F64Bytes \in Nat /\ p <= p + F64Bytes /\ p + F64Bytes <= body_end
  <2>1. ASSUME bytes[ptr] = WASM_OP_F64_CONST, p + F64Bytes > body_end PROVE FALSE
    <3>1. ptr + 1 + F64Bytes > body_end
      BY <1>1, <2>1
    <3>2. Verdict = -6
      BY <2>1, <3>1, ConstIsLegal DEF Verdict
    <3> QED
      BY <3>2
  <2>2. p + F64Bytes \in Nat /\ p <= p + F64Bytes
    BY WeeifyAssumption
  <2> QED
    BY <1>2, <2>1, <2>2
<1>13. PICK q : q = ImmediateEnd
  OBVIOUS
<1>14. \/ q = r.ptr \/ q = r2.ptr \/ q = r3.ptr \/ q = r4.ptr \/ q = p
       \/ q = p + F64Bytes /\ bytes[ptr] = WASM_OP_F64_CONST
  <2> DEFINE b == bytes[ptr]
  <2>1. CASE b \in IndexOps
    <3>1. q = r.ptr
      BY <1>1, <1>3, <1>13, <2>1, ArmsDiffer DEF ImmediateEnd
    <3> QED
      BY <3>1
  <2>2. CASE b \notin IndexOps /\ b \in LoadOps \cup StoreOps
    <3>1. q = r4.ptr
      BY <1>1, <1>9, <1>10, <1>13, <2>2, ArmsDiffer DEF ImmediateEnd
    <3> QED
      BY <3>1
  <2>3. CASE b \notin IndexOps \cup LoadOps \cup StoreOps
    <3>1. CASE b \in BlockOps \cup {WASM_OP_I32_CONST}
      <4>1. q = r3.ptr
        BY <1>1, <1>7, <1>13, <2>3, <3>1, ArmsDiffer DEF ImmediateEnd
      <4> QED
        BY <4>1
    <3>2. CASE b = WASM_OP_CALL_INDIRECT
      <4>1. q = r2.ptr
        BY <1>1, <1>3, <1>5, <1>13, <2>3, <3>2, ArmsDiffer DEF ImmediateEnd
      <4> QED
        BY <4>1
    <3>3. CASE b = WASM_OP_F64_CONST
      <4>1. q = p + F64Bytes
        BY <1>1, <1>13, <2>3, <3>3, ArmsDiffer DEF ImmediateEnd
      <4> QED
        BY <3>3, <4>1
    <3>4. CASE b \notin BlockOps \cup {WASM_OP_I32_CONST, WASM_OP_CALL_INDIRECT,
                                     WASM_OP_F64_CONST}
      <4>1. q = p
        BY <1>1, <1>13, <2>3, <3>4 DEF ImmediateEnd
      <4> QED
        BY <4>1
    <3> QED
      BY <3>1, <3>2, <3>3, <3>4
  <2> QED
    BY <2>1, <2>2, <2>3
<1>15. q \in Nat /\ p <= q /\ q <= body_end
  BY <1>1, <1>4, <1>6, <1>8, <1>11, <1>12, <1>14
<1> QED
  BY <1>1, <1>13, <1>15, Ranges

LEMMA OtherKeeps ==
  ASSUME WInv, TransformOther
  PROVE  StepKeeps
<1>1. /\ phase = "body" /\ ptr < body_end /\ UNCHANGED <<phase, bodyVars>> /\ Verdict = 0
      /\ Emit(From(ptr, ImmediateEnd)) /\ ptr' = ImmediateEnd
  BY DEF TransformOther, AtOpcode
<1>2. PICK q \in Nat : q = ImmediateEnd /\ ptr <= q /\ q <= body_end
  BY <1>1, ImmediateIn
<1>3. From(ptr, q) \in Seq(Nat)
  <2>1. ptr \in 1..q /\ q <= end
    BY <1>2, Ranges
  <2> QED
    BY <2>1, Ranges, Copied DEF Emitted
<1>4. OutputKept
  BY <1>1, <1>2, <1>3, EmitKeeps
<1> QED
  BY <1>1, <1>2, <1>4, InBody

\* A body that is left, given up or at its end.
LEMMA RefuseKeeps ==
  ASSUME WInv, Refuse
  PROVE  StepKeeps
<1>1. /\ phase = "body" /\ phase' = "code" /\ ptr' = body_end /\ 1 <= body_end
      /\ UNCHANGED <<file, out, pos, section_end, before, bodies, body_end, body_before, result,
                     exit_code>>
      /\ dropped' = IF dropped = 0 THEN Verdict ELSE dropped
  BY Ranges DEF Refuse, LeaveBody
<1>2. OutputKept
  BY <1>1, Untouched
<1>3. Placed
  <2>1. before + MaxLen <= pos /\ 1 <= section_end
    BY <1>1 DEF WInv, Reserved
  <2>2. bodies' \in Nat
    BY <1>1 DEF WInv, TypeOK
  <2> QED
    BY <1>1, <2>1, <2>2, Ranges DEF Placed
<1>4. Verdict \in {-6, -5, -4, -3, -2, 0}
  BY Zenon DEF Verdict
<1>5. Verdict \in -6..0
  BY <1>4
<1>6. Coded
  BY <1>1, <1>5 DEF Coded, WInv, TypeOK
<1> QED
  BY <1>1, <1>2, <1>3, <1>6, KeptIs DEF StepKeeps

LEMMA EndBodyKeeps ==
  ASSUME WInv, EndBody
  PROVE  StepKeeps
<1>1. /\ phase = "body" /\ phase' = "code" /\ ptr' = body_end /\ ptr >= body_end
      /\ EmitPatchedLength(body_before)
      /\ UNCHANGED <<file, section_end, before, bodies, body_end, body_before, dropped, result,
                     exit_code>>
  BY DEF EndBody, LeaveBody, bodyVars
<1>2. /\ before + MaxLen <= pos /\ body_before + MaxLen <= pos
      /\ 1 <= section_end /\ 1 <= body_end
  BY <1>1 DEF WInv, Reserved
<1>3. OutputKept /\ pos' = pos
  BY <1>1, <1>2, PatchKeeps
<1>4. Placed
  <2>1. bodies' \in Nat
    BY <1>1 DEF WInv, TypeOK
  <2> QED
    BY <1>1, <1>2, <1>3, <2>1, Ranges DEF Placed
<1>5. Coded
  BY <1>1 DEF Coded, WInv, TypeOK
<1> QED
  BY <1>1, <1>3, <1>4, <1>5, KeptIs DEF StepKeeps

LEMMA EndCodeKeeps ==
  ASSUME WInv, EndCode
  PROVE  StepKeeps
<1>1. /\ phase = "code" /\ phase' = "section" /\ ptr' = section_end
      /\ EmitPatchedLength(before)
      /\ UNCHANGED <<file, section_end, before, bodies, body_end, body_before, dropped, result,
                     exit_code>>
  BY DEF EndCode, bodyVars
<1>2. before + MaxLen <= pos /\ 1 <= section_end
  BY <1>1 DEF WInv, Reserved
<1>3. OutputKept /\ pos' = pos
  BY <1>1, <1>2, PatchKeeps
<1>4. Placed
  <2>1. bodies' \in Nat
    BY <1>1 DEF WInv, TypeOK
  <2> QED
    BY <1>1, <1>2, <1>3, <2>1, Ranges DEF Placed
<1>5. Coded
  BY <1>1 DEF Coded, WInv, TypeOK
<1> QED
  BY <1>1, <1>3, <1>4, <1>5, KeptIs DEF StepKeeps

LEMMA EndModuleKeeps ==
  ASSUME WInv, EndModule \/ Exit
  PROVE  StepKeeps
<1>1. /\ UNCHANGED <<file, out, pos, ptr, section_end, bodies, body_end, before, body_before,
                     dropped>>
      /\ \/ phase' = "returned" /\ result' = 0 /\ UNCHANGED exit_code
         \/ phase' = "exit" /\ exit_code' = 0 /\ UNCHANGED result
  BY DEF EndModule, Exit, Return, inputVars
<1>2. OutputKept
  BY <1>1, Untouched
<1>3. Placed
  BY <1>1, Ranges DEF Placed, WInv, TypeOK
<1>4. Coded
  BY <1>1 DEF Coded, WInv, TypeOK
<1> QED
  BY <1>1, <1>2, <1>3, <1>4, KeptIs DEF StepKeeps

LEMMA RewriterInit ==
  ASSUME Init
  PROVE  WInv
<1>1. bytes \in Seq(Nat) /\ out \in Seq(Nat)
  BY FilesAssumption DEF Init, bytes
<1>2. Len(bytes) \in Nat /\ Len(out) \in Nat
  BY <1>1
<1>3. TypeOK
  BY <1>2 DEF Init, TypeOK, end
<1>4. Reserved
  BY DEF Init, Reserved
<1> QED
  BY <1>1, <1>3, <1>4 DEF WInv

LEMMA RewriterStep ==
  ASSUME WInv, BodiesFit', [Next]_vars
  PROVE  StepKeeps
<1>1. ASSUME UNCHANGED vars PROVE StepKeeps
  <2>1. UNCHANGED <<file, out, pos, phase, ptr, section_end, bodies, body_end, before,
                    body_before, dropped, result, exit_code>>
    BY <1>1 DEF vars, inputVars
  <2>2. OutputKept
    BY <2>1, Untouched
  <2>3. Placed
    BY <2>1, Ranges DEF Placed, WInv, TypeOK, Reserved
  <2>4. Coded
    BY <2>1 DEF Coded, WInv, TypeOK
  <2> QED
    BY <2>1, <2>2, <2>3, <2>4, KeptIs DEF StepKeeps
<1>2. CASE CheckHeader
  BY <1>2, HeaderKeeps
<1>3. CASE NextSection
  BY <1>3, SectionKeeps
<1>4. CASE NextBody
  BY <1>4, BodyKeeps
<1>5. CASE Refuse
  BY <1>5, RefuseKeeps
<1>6. CASE TransformLabel
  BY <1>6, LabelKeeps
<1>7. CASE TransformLabels
  BY <1>7, LabelsKeep
<1>8. CASE TransformOther
  BY <1>8, OtherKeeps
<1>9. CASE EndBody
  BY <1>9, EndBodyKeeps
<1>10. CASE EndCode
  BY <1>10, EndCodeKeeps
<1>11. CASE EndModule \/ Exit
  BY <1>11, EndModuleKeeps
<1> QED
  BY <1>1, <1>2, <1>3, <1>4, <1>5, <1>6, <1>7, <1>8, <1>9, <1>10, <1>11 DEF Next, Step, Done

LEMMA RewriterInvariant == Spec /\ []BodiesFit => [](WInv /\ BodiesFit)
<1>1. Init => WInv
  BY RewriterInit
<1>2. WInv /\ BodiesFit' /\ [Next]_vars => WInv'
  BY RewriterStep DEF StepKeeps
<1> QED
  BY <1>1, <1>2, PTL DEF Spec

\* Of a file whose bodies are no longer than what is left of it, which the code
\* does not check (transform_code_section), every pointer
\* of weeify stays in the file, whatever else the file says, and every place a
\* length is reserved at in what has been written.
LEMMA RewriterStaysInFile == Spec /\ []BodiesFit => []TypeOK
<1>1. WInv => TypeOK
  BY DEF WInv
<1> QED
  BY <1>1, RewriterInvariant, PTL

\* Of such a file, no byte once written changes, but those of a length that was
\* reserved: patching the lengths that nest, by seeking back in the output,
\* reaches nothing else.
LEMMA PatchesStayInLengths == Spec /\ []BodiesFit => PatchesOnlyLengths
<1> DEFINE Patched == \A k \in 1..pos : out'[k] # out[k] =>
                        \E p \in {before, body_before} : k \in (p + 1)..(p + MaxLen)
<1>1. WInv /\ BodiesFit' /\ [Next]_vars => [Patched]_vars
  BY RewriterStep DEF StepKeeps, OutputKept
<1> QED
  BY <1>1, RewriterInvariant, PTL DEF Spec, PatchesOnlyLengths

LEMMA Powers ==
  /\ Group \in Nat /\ Group >= 2 /\ Base \in Nat /\ Base >= 2
  /\ \A k \in 0..MaxLen : Base^k \in Nat /\ Base^k >= 1
  /\ 2^Width \in Nat /\ Base^(MaxLen - 1) <= 2^Width
<1>1. /\ Codec!Base \in Nat /\ Codec!Base >= 2
      /\ \A k \in 0..Codec!MaxLen : Codec!Pow(k) \in Nat /\ Codec!Pow(k) >= 1
  BY CodecWidths, CodecPowers, CodecBuffers, CodecFiles, Codec!PowIs
<1>2. /\ 2^Width \in Nat \ {0} /\ 2^Codec!LastBits \in Nat \ {0}
      /\ 2^Width = Codec!Pow(Codec!MaxLen - 1) * 2^Codec!LastBits
  BY CodecWidths, CodecPowers, CodecBuffers, CodecFiles, Codec!WidthPow
<1>3. /\ Group \in Nat /\ Group >= 2
  BY CodecWidths, CodecPowers, CodecBuffers, CodecFiles, Codec!Widths
<1>4. \A k \in 0..MaxLen : Base^k \in Nat /\ Base^k >= 1
  BY <1>1, SameSizes DEF Codec!Pow
<1>5. Base^(MaxLen - 1) <= 2^Width
  <2>1. MaxLen - 1 \in 0..MaxLen
    BY Widths
  <2>2. PICK a \in Nat : a = Base^(MaxLen - 1)
    BY <1>4, <2>1
  <2>3. PICK b \in Nat : b = 2^Codec!LastBits /\ b >= 1
    BY <1>2
  <2>4. 2^Width = a * b
    BY <1>2, <2>2, <2>3, SameSizes DEF Codec!Pow
  <2>5. a * b >= a
    BY <2>3
  <2> QED
    BY <2>2, <2>4, <2>5
<1> QED
  BY <1>1, <1>2, <1>3, <1>4, <1>5, SameSizes

LEMMA IndicesFit == Indices \subseteq Numbers /\ Indices \subseteq Nat
<1>1. PICK a \in Nat, b \in Nat : a = Base^(MaxLen - 1) /\ b = 2^Width /\ a <= b
  <2>1. MaxLen - 1 \in 0..MaxLen
    BY Widths
  <2> QED
    BY <2>1, Powers
<1> QED
  BY <1>1 DEF Indices, Numbers

-----------------------------------------------------------------------------
(***************************************************************************)
(* Data in a file.                                                         *)
(***************************************************************************)
\* data lies in w from p on.
LiesIn(w, p, data) ==
  /\ p \in Nat \ {0} /\ data \in Seq(Nat) /\ p + Len(data) <= Len(w) + 1
  /\ \A k \in 1..Len(data) : w[p + k - 1] = data[k]

LEMMA LiesJoined ==
  ASSUME NEW w \in Seq(Nat), NEW p, NEW s \in Seq(Nat), NEW t \in Seq(Nat),
         LiesIn(w, p, s \o t)
  PROVE  LiesIn(w, p, s) /\ LiesIn(w, p + Len(s), t)
<1>1. PICK m \in Nat, n \in Nat, l \in Nat : m = Len(s) /\ n = Len(t) /\ l = Len(w)
  OBVIOUS
<1>2. PICK u : u = s \o t
  OBVIOUS
<1>3. /\ u \in Seq(Nat) /\ Len(u) = m + n
      /\ \A k \in 1..m : u[k] = s[k]
      /\ \A k \in (m + 1)..(m + n) : u[k] = t[k - m]
  BY <1>1, <1>2, Joined DEF Joins
<1>4. /\ p \in Nat /\ p >= 1 /\ p + (m + n) <= l + 1
      /\ \A k \in 1..(m + n) : w[p + k - 1] = u[k]
  BY <1>1, <1>2, <1>3 DEF LiesIn
<1>5. \A k \in 1..m : w[p + k - 1] = s[k]
  BY <1>3, <1>4, SMTT(60)
<1>6. ASSUME NEW k \in 1..n PROVE w[p + m + k - 1] = t[k]
  <2>1. PICK j \in Nat : j = m + k /\ j \in (m + 1)..(m + n) /\ j \in 1..(m + n)
    OBVIOUS
  <2>2. w[p + j - 1] = u[j] /\ u[j] = t[j - m]
    BY <1>3, <1>4, <2>1
  <2>3. p + m + k - 1 = p + j - 1 /\ j - m = k
    BY <1>4, <2>1
  <2> QED
    BY <2>2, <2>3
<1>7. LiesIn(w, p, s)
  <2>1. p \in Nat \ {0} /\ p + m <= l + 1
    BY <1>4
  <2>2. \A k \in 1..Len(s) : w[p + k - 1] = s[k]
    BY <1>1, <1>5
  <2> QED
    BY <1>1, <2>1, <2>2 DEF LiesIn
<1>8. LiesIn(w, p + m, t)
  <2>1. p + m \in Nat \ {0} /\ p + m + n <= l + 1
    BY <1>4
  <2> QED
    BY <1>1, <1>6, <2>1 DEF LiesIn
<1> QED
  BY <1>1, <1>7, <1>8

\* The length of data put together.
LEMMA JoinedLen ==
  ASSUME NEW s \in Seq(Nat), NEW t \in Seq(Nat)
  PROVE  s \o t \in Seq(Nat) /\ Len(s \o t) = Len(s) + Len(t) /\ Len(s) \in Nat /\ Len(t) \in Nat
BY Joined DEF Joins

-----------------------------------------------------------------------------
(***************************************************************************)
(* What the readers make of the numbers in a file.                         *)
(***************************************************************************)
Fits(form, v) == form \in Forms /\ v \in Numbers /\ (form = "leb4" => v \in Indices)

LEMMA FormIs ==
  ASSUME NEW form, NEW v, Fits(form, v)
  PROVE  \E n \in 1..MaxLen : Form(form, v) = EmitPadded(v, n) /\ v % Base^n = v
<1>1. v \in Nat /\ MaxLen \in Nat /\ MaxLen >= 2
  BY NumberFits, Widths DEF Fits
<1>2. CASE form = "leb"
  <2>1. v \in Codec!Numbers
    BY DEF Fits, Numbers, Codec!Numbers
  <2>2. PICK n \in 1..MaxLen : Codec!EmitLeb(v) = Codec!EmitPadded(v, n) /\ v % Codec!Pow(n) = v
    BY <2>1, SameSizes, CodecWidths, CodecPowers, CodecBuffers, CodecFiles, Codec!EmitLebIs
  <2>3. EmitLeb(v) = EmitPadded(v, n) /\ v % Base^n = v
    BY <2>2, SameEmit, SamePadded, SameSizes DEF Codec!Pow
  <2> QED
    BY <1>2, <2>3 DEF Form
<1>3. CASE form = "leb4"
  <2>1. PICK n \in 1..MaxLen : n = MaxLen - 1
    BY <1>1
  <2>2. PICK b \in Nat : b = Base^n /\ b >= 1 /\ v < b
    <3>1. n \in 0..MaxLen
      BY <1>1
    <3>2. v \in 0..(Base^n - 1)
      BY <1>3, <2>1 DEF Fits, Indices
    <3> QED
      BY <3>1, <3>2, Powers
  <2>3. v % b = v
    BY <1>1, <2>2
  <2> QED
    BY <1>3, <2>1, <2>2, <2>3 DEF Form
<1>4. CASE form = "leb5"
  <2>1. v \in Codec!Numbers
    BY DEF Fits, Numbers, Codec!Numbers
  <2>2. v % Codec!Pow(Codec!MaxLen) = v
    BY <2>1, CodecWidths, CodecPowers, CodecBuffers, CodecFiles, Codec!NumberFits
  <2>3. MaxLen \in 1..MaxLen /\ v % Base^MaxLen = v
    BY <1>1, <2>2, SameSizes DEF Codec!Pow
  <2> QED
    BY <1>4, <2>3 DEF Form
<1> QED
  BY <1>2, <1>3, <1>4 DEF Fits, Forms

LEMMA FormSeq ==
  ASSUME NEW form, NEW v, Fits(form, v)
  PROVE  /\ Form(form, v) \in Seq(Nat)
         /\ Len(Form(form, v)) \in Nat /\ Len(Form(form, v)) >= 1 /\ Len(Form(form, v)) <= MaxLen
<1>1. v \in Nat /\ MaxLen \in Nat
  BY NumberFits, Widths DEF Fits
<1>2. PICK n \in 1..MaxLen : Form(form, v) = EmitPadded(v, n)
  BY FormIs
<1> QED
  BY <1>1, <1>2, EmittedIsSeq DEF EmittedSeq

LEMMA ReadLebIs ==
  ASSUME NEW w, NEW p \in Nat, NEW limit \in Nat, p < limit, NEW signed
  PROVE  ReadLeb(w, p, limit, signed) =
           [val |-> DecodeLeb(w, p, limit, signed).val,
            ptr |-> AfterLeb(p, limit, DecodeLeb(w, p, limit, signed).len)]
<1>1. Codec!ReadLeb(w, p, limit, signed) =
      [val |-> Codec!DecodeLeb(w, p, limit, signed).val,
       ptr |-> Codec!AfterLeb(p, limit, Codec!DecodeLeb(w, p, limit, signed).len)]
  BY CodecWidths, CodecPowers, CodecBuffers, CodecFiles, Codec!ReadLebIs
<1> QED
  BY <1>1, SameRead, SameDecode DEF Codec!AfterLeb, AfterLeb

\* A number is read from where its form lies.
LEMMA FormIsRead ==
  ASSUME NEW w \in Seq(Nat), NEW p, NEW form, NEW v, Fits(form, v), LiesIn(w, p, Form(form, v)),
         NEW limit \in Nat, p + Len(Form(form, v)) <= limit, NEW signed, ~signed
  PROVE  ReadLeb(w, p, limit, signed) = [val |-> v, ptr |-> p + Len(Form(form, v))]
<1>1. PICK n \in 1..MaxLen : Form(form, v) = EmitPadded(v, n) /\ v % Base^n = v
  BY FormIs
<1>2. v \in Nat /\ n \in Nat /\ n >= 1 /\ p \in Nat
  BY NumberFits, Widths DEF Fits, LiesIn
<1>3. Len(Form(form, v)) = n
  BY <1>1, <1>2, EmittedIsSeq DEF EmittedSeq
<1>4. Codec!DecodeLeb(w, p, limit, signed) = [val |-> v % Codec!Pow(n), len |-> n]
  <2>1. n \in 1..Codec!MaxLen /\ v \in Codec!Numbers
    BY SameSizes DEF Fits, Numbers, Codec!Numbers
  <2>2. Codec!Holds(w, p, v, n)
    <3>1. \A k \in 1..n : w[p + k - 1] = Codec!EmitPadded(v, n)[k]
      BY <1>1, <1>3, SamePadded DEF LiesIn
    <3> QED
      BY <3>1 DEF Codec!Holds
  <2>3. p + n <= limit
    BY <1>3
  <2> QED
    BY <1>2, <2>1, <2>2, <2>3, CodecWidths, CodecPowers, CodecBuffers, CodecFiles,
       Codec!EmittedIsRead
<1>5. DecodeLeb(w, p, limit, signed) = [val |-> v, len |-> n]
  BY <1>1, <1>4, SameDecode, SameSizes DEF Codec!Pow
<1>6. p < limit
  BY <1>2, <1>3
<1>7. AfterLeb(p, limit, n) = p + n
  BY <1>2 DEF AfterLeb
<1> QED
  BY <1>2, <1>3, <1>5, <1>6, <1>7, ReadLebIs

Ends(w, p, limit, k) == p + k > limit \/ k = MaxLen \/ ~More(w[p + k - 1])

LEMMA LebEndIs ==
  ASSUME NEW w, NEW p, NEW limit, NEW k \in 1..MaxLen,
         Ends(w, p, limit, k), \A j \in 1..(k - 1) : ~Ends(w, p, limit, j)
  PROVE  LebEnd(w, p, limit) = k
<1>1. \A j : Codec!Ends(w, p, limit, j) <=> Ends(w, p, limit, j)
  BY SameSizes DEF Codec!Ends, Ends, Codec!More, More
<1>2. \A n \in 1..Codec!MaxLen :
        (Codec!Ends(w, p, limit, n) /\ \A j \in 1..(n - 1) : ~Codec!Ends(w, p, limit, j))
          => Codec!LebEnd(w, p, limit) = n
  BY CodecWidths, CodecPowers, CodecBuffers, CodecFiles, Codec!LebEndIs
<1>3. Codec!LebEnd(w, p, limit) = k
  BY <1>1, <1>2, SameSizes
<1>4. Codec!LebEnd(w, p, limit) = LebEnd(w, p, limit)
  BY SameSizes DEF Codec!LebEnd, LebEnd, Codec!More, More
<1> QED
  BY <1>3, <1>4

\* Any number of the format is read to its end.
LEMMA LebIsRead ==
  ASSUME NEW w \in Seq(Nat), NEW p, NEW s, NEW signed, IsLeb(s, signed), LiesIn(w, p, s),
         NEW limit \in Nat, p + Len(s) <= limit
  PROVE  /\ DecodeLeb(w, p, limit, signed) =
              [val |-> LebValue(Payloads(w, p, Len(s)), Len(s), signed), len |-> Len(s)]
         /\ ReadLeb(w, p, limit, signed) =
              [val |-> LebValue(Payloads(w, p, Len(s)), Len(s), signed), ptr |-> p + Len(s)]
<1>1. PICK n \in 1..MaxLen : n = Len(s)
  BY DEF IsLeb
<1>2. /\ p \in Nat /\ n \in Nat /\ n >= 1 /\ MaxLen \in Nat /\ p + n <= limit
      /\ \A k \in 1..n : w[p + k - 1] = s[k] /\ (More(s[k]) <=> k < n)
  BY <1>1, Widths, SMTT(60) DEF LiesIn, IsLeb
<1>3. LebEnd(w, p, limit) = n
  <2>1. Ends(w, p, limit, n)
    <3>1. ~More(s[n]) /\ w[p + n - 1] = s[n]
      BY <1>2
    <3> QED
      BY <3>1 DEF Ends
  <2>2. ASSUME NEW j \in 1..(n - 1) PROVE ~Ends(w, p, limit, j)
    <3>1. /\ More(s[j]) /\ w[p + j - 1] = s[j]
          /\ j # MaxLen /\ ~(p + j > limit)
      <4>1. j \in 1..n /\ j < n
        BY <1>2
      <4>2. w[p + j - 1] = s[j] /\ (More(s[j]) <=> j < n)
        BY <1>2, <4>1
      <4>3. j # MaxLen /\ ~(p + j > limit)
        BY <1>2, <4>1
      <4> QED
        BY <4>1, <4>2, <4>3
    <3> QED
      BY <3>1 DEF Ends
  <2> QED
    BY <2>1, <2>2, LebEndIs
<1>4. ~(n = MaxLen /\ (More(w[p + n - 1]) \/ ~UpperLegal(w[p + n - 1], signed)))
  BY <1>1, <1>2 DEF IsLeb
<1>5. DecodeLeb(w, p, limit, signed) =
        [val |-> LebValue(Payloads(w, p, n), n, signed), len |-> n]
  BY <1>2, <1>3, <1>4 DEF DecodeLeb
<1>6. p < limit /\ AfterLeb(p, limit, n) = p + n
  BY <1>2 DEF AfterLeb
<1> QED
  BY <1>1, <1>2, <1>5, <1>6, ReadLebIs

\* Of a number that the file ends in nothing is left.
LEMMA CutIsRead ==
  ASSUME NEW w \in Seq(Nat), NEW p \in Nat, NEW limit \in Nat, p <= limit, NEW signed,
         NEW form, NEW v, Fits(form, v), p + Len(Form(form, v)) > limit,
         \A i \in p..(limit - 1) : w[i] = Form(form, v)[i - p + 1]
  PROVE  ReadLeb(w, p, limit, signed) = [val |-> 0, ptr |-> limit]
<1>1. CASE p = limit
  BY <1>1, ReadAtEnd
<1>2. CASE p < limit
  <2>1. PICK n \in 1..MaxLen : Form(form, v) = EmitPadded(v, n) /\ v % Base^n = v
    BY FormIs
  <2>2. v \in Nat /\ n \in Nat /\ MaxLen \in Nat
    BY NumberFits, Widths DEF Fits
  <2>3. Len(Form(form, v)) = n
    BY <2>1, <2>2, EmittedIsSeq DEF EmittedSeq
  <2>4. PICK k \in 1..MaxLen : k = limit - p + 1 /\ k <= n /\ k \in Nat
    BY <1>2, <2>2, <2>3
  <2>5. ASSUME NEW j \in 1..(k - 1) PROVE ~Ends(w, p, limit, j)
    <3>1. w[p + j - 1] = EmitPadded(v, n)[j]
      <4>1. PICK i \in Nat : i = p + j - 1 /\ i \in p..(limit - 1) /\ i - p + 1 = j
        BY <2>4
      <4>2. w[i] = Form(form, v)[i - p + 1]
        BY <4>1
      <4> QED
        BY <2>1, <4>1, <4>2
    <3>2. j \in 1..n /\ j < n /\ j < MaxLen /\ p + j <= limit
      BY <2>2, <2>4
    <3>3. EmitPadded(v, n)[j] = Digit(v, j) + Base
      BY <3>2 DEF EmitPadded
    <3>4. Digit(v, j) \in Nat
      <4>1. j \in 1..Codec!MaxLen
        <5>1. j \in 1..MaxLen
          BY <2>2, <3>2
        <5> QED
          BY <5>1, SameSizes
      <4>2. Codec!Digit(v, j) \in Nat
        BY <2>2, <4>1, CodecWidths, CodecPowers, CodecBuffers, CodecFiles, Codec!DigitIs
      <4> QED
        BY <4>2, SameSizes DEF Codec!Digit, Digit
    <3>5. More(w[p + j - 1])
      BY <3>1, <3>3, <3>4, Powers DEF More
    <3> QED
      BY <3>2, <3>5 DEF Ends
  <2>6. Ends(w, p, limit, k)
    BY <2>4 DEF Ends
  <2>7. LebEnd(w, p, limit) = k
    BY <2>5, <2>6, LebEndIs
  <2>8. p + k > limit
    BY <2>4
  <2>9. DecodeLeb(w, p, limit, signed) = [val |-> 0, len |-> -(k - 1)]
    BY <2>7, <2>8 DEF DecodeLeb
  <2>10. AfterLeb(p, limit, -(k - 1)) = limit
    BY <2>4 DEF AfterLeb
  <2>11. PICK d : d = DecodeLeb(w, p, limit, signed)
    OBVIOUS
  <2>12. d.val = 0 /\ d.len = -(k - 1)
    BY <2>9, <2>11
  <2>13. ReadLeb(w, p, limit, signed) = [val |-> d.val, ptr |-> AfterLeb(p, limit, d.len)]
    BY <1>2, <2>11, ReadLebIs
  <2> QED
    BY <2>10, <2>12, <2>13
<1> QED
  BY <1>1, <1>2

\* The type of a block, one byte.
LEMMA ByteIsRead ==
  ASSUME NEW w \in Seq(Nat), NEW p, NEW b \in 0..(Base - 1), LiesIn(w, p, <<b>>),
         NEW limit \in Nat, p + 1 <= limit, NEW signed
  PROVE  ReadLeb(w, p, limit, signed) = [val |-> LebValue(b, 1, signed), ptr |-> p + 1]
<1>1. b \in Nat /\ b < Base /\ Base \in Nat /\ Base >= 2 /\ MaxLen \in Nat /\ MaxLen >= 2
  BY Powers, Widths
<1>2. IsLeb(<<b>>, signed)
  <2>1. b \in 0..(2 * Base - 1) /\ ~(b >= Base)
    BY <1>1
  <2>2. <<b>> \in Seq(0..(2 * Base - 1)) /\ Len(<<b>>) = 1 /\ 1 \in 1..MaxLen /\ 1 # MaxLen
    BY <1>1, <2>1
  <2>3. \A k \in 1..1 : More(<<b>>[k]) <=> k < 1
    BY <2>1 DEF More
  <2> QED
    BY <2>2, <2>3 DEF IsLeb
<1>3. Len(<<b>>) = 1
  OBVIOUS
<1>4. ReadLeb(w, p, limit, signed) = [val |-> LebValue(Payloads(w, p, 1), 1, signed), ptr |-> p + 1]
  <2>1. PICK s : s = <<b>>
    OBVIOUS
  <2>2. IsLeb(s, signed) /\ LiesIn(w, p, s) /\ Len(s) = 1
    BY <1>2, <1>3, <2>1
  <2>3. p + Len(s) = p + 1 /\ p + Len(s) <= limit
    BY <2>2
  <2>4. ReadLeb(w, p, limit, signed) =
          [val |-> LebValue(Payloads(w, p, Len(s)), Len(s), signed), ptr |-> p + Len(s)]
    BY <2>2, <2>3, LebIsRead, ZenonT(60)
  <2> QED
    BY <2>2, <2>3, <2>4
<1>5. Payloads(w, p, 1) = b
  <2> DEFINE g == [k \in 0..1 |-> IF k = 0 THEN 0 ELSE b]
  <2>1. w[p] = b /\ p \in Nat
    <3>1. w[p + 1 - 1] = <<b>>[1] /\ p \in Nat
      BY <1>3 DEF LiesIn
    <3> QED
      BY <3>1
  <2>2. Codec!Base^0 = 1 /\ Codec!Payload(b) = b
    <3>1. Codec!Pow(0) = 1
      BY CodecWidths, CodecPowers, CodecBuffers, CodecFiles, Codec!PowIs
    <3> QED
      BY <1>1, <3>1, SameSizes DEF Codec!Pow, Codec!Payload
  <2>3. g[0] = 0 /\ g[1] = b
    OBVIOUS
  <2> HIDE DEF g
  <2>4. ASSUME NEW k \in 1..1
        PROVE  g[k] = g[k - 1] + Codec!Payload(w[p + k - 1]) * Codec!Base^(k - 1)
    <3>1. k = 1 /\ p + 1 - 1 = p /\ 1 - 1 = 0
      BY <2>1
    <3>2. b = 0 + b * 1
      BY <1>1
    <3> QED
      BY <2>1, <2>2, <2>3, <3>1, <3>2
  <2>5. PICK n \in Nat : n = 1
    OBVIOUS
  <2>6. \A k \in 1..n : g[k] = g[k - 1] + Codec!Payload(w[p + k - 1]) * Codec!Base^(k - 1)
    BY <2>4, <2>5
  <2>7. Codec!Payloads(w, p, n) = g[n]
    BY <2>3, <2>6, CodecWidths, CodecPowers, CodecBuffers, CodecFiles, Codec!PayloadsIs
  <2> QED
    BY <2>3, <2>5, <2>7, SameSizes DEF Codec!Payloads, Payloads, Codec!Payload, Payload
<1> QED
  BY <1>4, <1>5

LEMMA TypeIsRead ==
  ASSUME NEW w \in Seq(Nat), NEW p, NEW b \in 0..(Base - 1), LiesIn(w, p, <<b>>),
         NEW limit \in Nat, p + 1 <= limit
  PROVE  ReadLeb(w, p, limit, TRUE).val = VoidType <=> b = VoidType + Base
<1>1. b \in Nat /\ b < Base /\ Base \in Nat
  BY Powers
<1>2. PICK h \in Nat : h = 2^(Group - 1) /\ h >= 1 /\ Base = 2 * h /\ Base \div 2 = h
  <2>1. /\ Codec!Half \in Nat /\ Codec!Half >= 1
        /\ Codec!Base = 2 * Codec!Half /\ Codec!Base \div 2 = Codec!Half
    BY CodecWidths, CodecPowers, CodecBuffers, CodecFiles, Codec!Halves
  <2> QED
    BY <2>1, SameSizes DEF Codec!Half
<1>3. LebValue(b, 1, TRUE) = IF b >= h THEN b - Base ELSE b
  <2>1. 1 * Group = Group /\ ~(Group > Width)
    BY Powers, LebAssumption DEF LebAssumption
  <2>2. b % 2^Group = b
    <3>1. PICK c \in Nat : c = Base
      BY <1>1
    <3>2. b % c = b
      BY <1>1, <3>1
    <3> QED
      BY <3>1, <3>2 DEF Base
  <2> QED
    BY <1>2, <2>1, <2>2 DEF LebValue, SignExtend, Base
<1>4. PICK v : v = ReadLeb(w, p, limit, TRUE).val
  OBVIOUS
<1>5. v = IF b >= h THEN b - Base ELSE b
  <2>1. \A signed : ReadLeb(w, p, limit, signed).val = LebValue(b, 1, signed)
    BY ByteIsRead
  <2>2. v = LebValue(b, 1, TRUE)
    BY <1>4, <2>1, Zenon
  <2> QED
    BY <1>3, <2>2
<1>6. VoidType = -h /\ VoidType + Base = h
  BY <1>2 DEF VoidType
<1>7. v = -h <=> b = h
  <2>1. PICK c \in Nat : c = Base /\ c = 2 * h
    BY <1>1, <1>2
  <2>2. CASE b >= h
    <3>1. v = b - c
      BY <1>5, <2>1, <2>2
    <3>2. b - c = -h <=> b = h
      BY <1>1, <2>1
    <3> QED
      BY <3>1, <3>2
  <2>3. CASE ~(b >= h)
    <3>1. v = b
      BY <1>5, <2>3
    <3>2. b # -h /\ b # h
      BY <1>1, <1>2, <2>3
    <3> QED
      BY <3>1, <3>2
  <2> QED
    BY <2>2, <2>3
<1> QED
  BY <1>4, <1>6, <1>7
-----------------------------------------------------------------------------
(***************************************************************************)
(* Pieces one behind the other.                                            *)
(***************************************************************************)
\* The first k of them.
Pre(s, k) == FlattenSeq([i \in 1..k |-> s[i]])

Pieces(s, n) == n \in Nat /\ \A k \in 1..n : s[k] \in Seq(Nat)

LEMMA EmptyJoin ==
  ASSUME NEW s \in Seq(Nat)
  PROVE  <<>> \o s = s /\ s \o <<>> = s
OBVIOUS

LEMMA FlatPrefix ==
  ASSUME NEW s, NEW n, Pieces(s, n), NEW f, FlatEqn(f, s, n), NEW k \in 1..n
  PROVE  Pre(s, k) = f[k]
<1> DEFINE t == [i \in 1..k |-> s[i]]
           g == CHOOSE h : FlatEqn(h, t, k)
<1>1. n \in Nat /\ k \in Nat /\ k >= 1 /\ k <= n
  BY DEF Pieces
<1>2. \A i \in 1..k : t[i] = s[i] /\ t[i] \in Seq(Nat)
  BY <1>1 DEF Pieces
<1>3. Len(t) = k
  BY <1>1
<1>4. Pre(s, k) = g[k]
  BY <1>1, <1>3 DEF Pre, FlattenSeq, FlatEqn
<1> HIDE DEF t
<1>5. FlatEqn(g, t, k)
  <2>1. \E h : FlatEqn(h, t, k)
    BY <1>1, <1>2, FlatEqnIs
  <2> QED
    BY <2>1
<1> HIDE DEF g
<1>6. \A i \in 1..k : (i = 1 => g[i] = t[i]) /\ (i # 1 => g[i] = g[i - 1] \o t[i])
  BY <1>5 DEF FlatEqn
<1>7. \A i \in 1..n : (i = 1 => f[i] = s[i]) /\ (i # 1 => f[i] = f[i - 1] \o s[i])
  BY DEF FlatEqn
<1> DEFINE T == {i \in 0..k : i # 0 => g[i] = f[i]}
<1>8. 0 \in T
  OBVIOUS
<1>9. ASSUME NEW i \in 1..k, i - 1 \in T PROVE i \in T
  <2>1. i \in 1..n /\ t[i] = s[i]
    BY <1>1, <1>2
  <2>2. CASE i = 1
    <3>1. g[i] = t[i] /\ f[i] = s[i]
      BY <1>6, <1>7, <2>1, <2>2
    <3>2. g[i] = f[i]
      BY <2>1, <3>1
    <3> QED
      BY <3>2
  <2>3. CASE i # 1
    <3>1. g[i - 1] = f[i - 1]
      BY <1>9, <2>3
    <3>2. g[i] = g[i - 1] \o t[i] /\ f[i] = f[i - 1] \o s[i]
      BY <1>6, <1>7, <2>1, <2>3
    <3>3. g[i] = f[i]
      BY <2>1, <3>1, <3>2
    <3> QED
      BY <3>3
  <2> QED
    BY <2>2, <2>3
<1> HIDE DEF T
<1>10. k \in T
  BY <1>1, <1>8, <1>9, UpTo
<1> QED
  BY <1>1, <1>4, <1>10 DEF T

\* What a prefix is, and how it grows.
Grows(s, n) ==
  /\ Pre(s, 0) = <<>>
  /\ \A k \in 0..n : Pre(s, k) \in Seq(Nat) /\ Len(Pre(s, k)) \in Nat
  /\ \A k \in 1..n : Pre(s, k) = Pre(s, k - 1) \o s[k]
  /\ \A k \in 1..n : Len(Pre(s, k)) = Len(Pre(s, k - 1)) + Len(s[k]) /\ Len(s[k]) \in Nat

LEMMA PreGrows ==
  ASSUME NEW s, NEW n, Pieces(s, n)
  PROVE  Grows(s, n)
<1>0. n \in Nat /\ \A k \in 1..n : s[k] \in Seq(Nat)
  BY DEF Pieces
<1>1. PICK f : FlatEqn(f, s, n)
  BY <1>0, FlatEqnIs
<1>2. \A k \in 1..n : f[k] \in Seq(Nat)
  BY <1>0, <1>1, FlatEqnIs
<1>3. \A k \in 1..n : Pre(s, k) = f[k]
  BY <1>1, FlatPrefix
<1>4. \A k \in 1..n : (k = 1 => f[k] = s[k]) /\ (k # 1 => f[k] = f[k - 1] \o s[k])
  BY <1>1 DEF FlatEqn
<1>5. Pre(s, 0) = <<>>
  <2>1. [i \in 1..0 |-> s[i]] = <<>>
    OBVIOUS
  <2> QED
    BY <2>1 DEF Pre, FlattenSeq
<1>6. \A k \in 0..n : Pre(s, k) \in Seq(Nat)
  <2>1. <<>> \in Seq(Nat)
    OBVIOUS
  <2>2. \A k \in 0..n : k # 0 => k \in 1..n
    BY <1>0
  <2> QED
    BY <1>2, <1>3, <1>5, <2>1, <2>2
<1>7. ASSUME NEW k \in 1..n PROVE Pre(s, k) = Pre(s, k - 1) \o s[k]
  <2>1. CASE k = 1
    <3>1. Pre(s, k) = s[k] /\ s[k] \in Seq(Nat)
      BY <1>0, <1>3, <1>4, <2>1
    <3>2. Pre(s, k - 1) = <<>>
      <4>1. k - 1 = 0
        BY <2>1
      <4> QED
        BY <1>5, <4>1
    <3> QED
      BY <3>1, <3>2, EmptyJoin
  <2>2. CASE k # 1
    <3>1. k - 1 \in 1..n
      BY <1>0, <2>2
    <3> QED
      BY <1>3, <1>4, <2>2, <3>1
  <2> QED
    BY <2>1, <2>2
<1>8. ASSUME NEW k \in 1..n PROVE Len(Pre(s, k)) = Len(Pre(s, k - 1)) + Len(s[k]) /\ Len(s[k]) \in Nat
  <2>1. k - 1 \in 0..n
    BY <1>0
  <2>2. Pre(s, k - 1) \in Seq(Nat) /\ s[k] \in Seq(Nat)
    BY <1>0, <1>6, <2>1
  <2> QED
    BY <1>7, <2>2, JoinedLen
<1>9. \A k \in 0..n : Len(Pre(s, k)) \in Nat
  BY <1>6
<1> QED
  BY <1>5, <1>6, <1>7, <1>8, <1>9 DEF Grows

\* Pieces that are the same make the same.
LEMMA PreSame ==
  ASSUME NEW s, NEW t, NEW k, \A i \in 1..k : s[i] = t[i]
  PROVE  Pre(s, k) = Pre(t, k)
BY DEF Pre

LEMMA PreAll ==
  ASSUME NEW s, NEW n, s = [i \in 1..n |-> s[i]]
  PROVE  Pre(s, n) = FlattenSeq(s)
BY DEF Pre

\* The place of the k-th piece if the first is at p.
At(p, s, k) == p + Len(Pre(s, k - 1))

Places(p, s, n) ==
  /\ At(p, s, 1) = p
  /\ \A k \in 1..(n + 1) : At(p, s, k) \in Nat /\ p <= At(p, s, k)
  /\ \A k \in 1..n : At(p, s, k + 1) = At(p, s, k) + Len(s[k]) /\ Len(s[k]) \in Nat
  /\ At(p, s, n + 1) = p + Len(Pre(s, n))

LEMMA PlacesAre ==
  ASSUME NEW s, NEW n, Pieces(s, n), NEW p \in Nat
  PROVE  Places(p, s, n)
<1>1. n \in Nat
  BY DEF Pieces
<1>2. /\ Pre(s, 0) = <<>>
      /\ \A k \in 0..n : Len(Pre(s, k)) \in Nat
      /\ \A k \in 1..n : Len(Pre(s, k)) = Len(Pre(s, k - 1)) + Len(s[k]) /\ Len(s[k]) \in Nat
  BY PreGrows DEF Grows
<1>3. At(p, s, 1) = p
  <2>1. Len(Pre(s, 0)) = 0 /\ 1 - 1 = 0
    BY <1>2
  <2> QED
    BY <2>1 DEF At
<1>4. ASSUME NEW k \in 1..(n + 1) PROVE At(p, s, k) \in Nat /\ p <= At(p, s, k)
  <2>1. k - 1 \in 0..n
    BY <1>1
  <2>2. PICK l \in Nat : l = Len(Pre(s, k - 1))
    BY <1>2, <2>1
  <2> QED
    BY <2>2 DEF At
<1>5. ASSUME NEW k \in 1..n PROVE At(p, s, k + 1) = At(p, s, k) + Len(s[k])
  <2>1. k - 1 \in 0..n /\ (k + 1) - 1 = k
    BY <1>1
  <2>2. PICK l \in Nat, m \in Nat : l = Len(Pre(s, k - 1)) /\ m = Len(s[k])
    BY <1>2, <2>1
  <2>3. Len(Pre(s, k)) = l + m
    BY <1>2, <2>2
  <2>4. At(p, s, k + 1) = p + Len(Pre(s, k))
    BY <2>1 DEF At
  <2>5. At(p, s, k) = p + l
    BY <2>2 DEF At
  <2>6. p + (l + m) = (p + l) + m
    OBVIOUS
  <2>7. At(p, s, k + 1) = p + (l + m)
    BY <2>3, <2>4
  <2> QED
    BY <2>2, <2>5, <2>6, <2>7
<1>6. At(p, s, n + 1) = p + Len(Pre(s, n))
  <2>1. (n + 1) - 1 = n
    BY <1>1
  <2> QED
    BY <2>1 DEF At
<1> QED
  BY <1>2, <1>3, <1>4, <1>5, <1>6 DEF Places

\* If all of them lie in a file, each does, at its place.
LEMMA FlatLies ==
  ASSUME NEW s, NEW n, Pieces(s, n), NEW w \in Seq(Nat), NEW p \in Nat,
         LiesIn(w, p, Pre(s, n))
  PROVE  \A k \in 1..n : LiesIn(w, At(p, s, k), s[k])
<1> DEFINE T == {m \in 0..n : LiesIn(w, p, Pre(s, m)) =>
                               \A k \in 1..m : LiesIn(w, At(p, s, k), s[k])}
<1>1. n \in Nat
  BY DEF Pieces
<1>2. 0 \in T
  BY <1>1
<1>3. ASSUME NEW m \in 1..n, m - 1 \in T PROVE m \in T
  <2> SUFFICES ASSUME LiesIn(w, p, Pre(s, m)), NEW k \in 1..m
               PROVE  LiesIn(w, At(p, s, k), s[k])
    BY <1>1
  <2>1. m - 1 \in 0..n /\ m \in Nat /\ m >= 1
    BY <1>1
  <2>2. /\ Pre(s, m) = Pre(s, m - 1) \o s[m]
        /\ Pre(s, m - 1) \in Seq(Nat) /\ s[m] \in Seq(Nat)
    BY <2>1, PreGrows DEF Grows, Pieces
  <2>3. LiesIn(w, p, Pre(s, m - 1)) /\ LiesIn(w, p + Len(Pre(s, m - 1)), s[m])
    BY <2>2, LiesJoined
  <2>4. CASE k = m
    BY <2>3, <2>4 DEF At
  <2>5. CASE k # m
    <3>1. k \in 1..(m - 1)
      BY <2>1, <2>5
    <3> QED
      BY <1>3, <2>3, <3>1
  <2> QED
    BY <2>4, <2>5
<1> HIDE DEF T
<1>4. 0..n \subseteq T
  BY <1>1, <1>2, <1>3, UpTo
<1>5. n \in T
  BY <1>1, <1>4
<1> QED
  BY <1>5 DEF T

\* Places are in order, and different where no piece is empty.
LEMMA PlacesOrder ==
  ASSUME NEW s, NEW n, Pieces(s, n), NEW p \in Nat
  PROVE  \A j, k \in 1..(n + 1) : j <= k => At(p, s, j) <= At(p, s, k)
<1>1. n \in Nat /\ Places(p, s, n)
  BY PlacesAre DEF Pieces
<1> DEFINE T == {m \in 0..n : \A j \in 1..(m + 1) : At(p, s, j) <= At(p, s, m + 1)}
<1>2. 0 \in T
  <2>1. At(p, s, 1) \in Nat
    BY <1>1 DEF Places
  <2> QED
    BY <1>1, <2>1
<1>3. ASSUME NEW m \in 1..n, m - 1 \in T PROVE m \in T
  <2>1. m \in Nat /\ (m - 1) + 1 = m /\ m \in 1..(n + 1) /\ m + 1 \in 1..(n + 1)
    BY <1>1
  <2>2. PICK a \in Nat, l \in Nat : a = At(p, s, m) /\ l = Len(s[m])
    BY <1>1, <2>1 DEF Places
  <2>3. At(p, s, m + 1) = a + l
    BY <1>1, <2>2 DEF Places
  <2>4. ASSUME NEW j \in 1..(m + 1) PROVE At(p, s, j) <= At(p, s, m + 1)
    <3>1. CASE j = m + 1
      BY <2>3, <3>1
    <3>2. CASE j # m + 1
      <4>1. j \in 1..m /\ j \in 1..(n + 1)
        BY <1>1, <2>1, <3>2
      <4>2. At(p, s, j) <= a /\ At(p, s, j) \in Nat
        BY <1>1, <1>3, <2>1, <2>2, <4>1 DEF Places
      <4> QED
        BY <2>3, <4>2
    <3> QED
      BY <3>1, <3>2
  <2> QED
    BY <2>4
<1>4. 0..n \subseteq T
  <2> HIDE DEF T
  <2> QED
    BY <1>1, <1>2, <1>3, UpTo
<1>5. ASSUME NEW j \in 1..(n + 1), NEW k \in 1..(n + 1), j <= k
      PROVE  At(p, s, j) <= At(p, s, k)
  <2>1. PICK m \in 0..n : m = k - 1 /\ k = m + 1
    BY <1>1
  <2>2. j \in 1..(m + 1)
    BY <1>1, <1>5, <2>1
  <2> QED
    BY <1>4, <2>1, <2>2
<1> QED
  BY <1>5
-----------------------------------------------------------------------------
(***************************************************************************)
(* The bytes of an instruction.                                            *)
(***************************************************************************)
LabelForms(j, form) == [k \in 1..Len(j.labels) |-> Form(form, j.labels[k])]

CountForm(j, form) ==
  IF j.op = WASM_OP_BR_TABLE THEN Form(form, Len(j.labels) - 1) ELSE <<>>

LEMMA IndexFits ==
  ASSUME NEW form \in Forms, NEW v \in Indices
  PROVE  Fits(form, v)
BY IndicesFit DEF Fits

LEMMA LabelsAre ==
  ASSUME NEW j, WellFormedInstr(j), NEW form \in Forms
  PROVE  /\ Len(j.labels) \in Nat
         /\ Pieces(LabelForms(j, form), Len(j.labels))
         /\ LabelForms(j, form) = [k \in 1..Len(j.labels) |-> LabelForms(j, form)[k]]
         /\ \A k \in 1..Len(j.labels) :
              /\ j.labels[k] \in Indices
              /\ LabelForms(j, form)[k] = Form(form, j.labels[k])
              /\ Fits(form, j.labels[k])
         /\ CountForm(j, form) \in Seq(Nat)
<1>1. j.labels \in Seq(Indices)
  BY DEF WellFormedInstr
<1>2. PICK n \in Nat : n = Len(j.labels)
  BY <1>1
<1>3. \A k \in 1..n : j.labels[k] \in Indices
  BY <1>1, <1>2
<1>4. \A k \in 1..n : Fits(form, j.labels[k])
  BY <1>3, IndexFits
<1>5. \A k \in 1..n : LabelForms(j, form)[k] = Form(form, j.labels[k])
  BY <1>2 DEF LabelForms
<1>6. \A k \in 1..n : LabelForms(j, form)[k] \in Seq(Nat)
  BY <1>4, <1>5, FormSeq
<1>7. CountForm(j, form) \in Seq(Nat)
  <2>1. CASE j.op = WASM_OP_BR_TABLE
    <3>1. Len(j.labels) - 1 \in Indices
      BY <2>1 DEF WellFormedInstr
    <3>2. Fits(form, Len(j.labels) - 1)
      BY <3>1, IndexFits
    <3> QED
      BY <2>1, <3>2, FormSeq DEF CountForm
  <2>2. CASE j.op # WASM_OP_BR_TABLE
    BY <2>2 DEF CountForm
  <2> QED
    BY <2>1, <2>2
<1>8. LabelForms(j, form) = [k \in 1..Len(j.labels) |-> LabelForms(j, form)[k]]
  BY DEF LabelForms
<1> QED
  BY <1>2, <1>3, <1>4, <1>5, <1>6, <1>7, <1>8 DEF Pieces

Flat(j, form) == Pre(LabelForms(j, form), Len(j.labels))

\* An instruction is its opcode, its labels with their count, and the rest.
LEMMA InstrIs ==
  ASSUME NEW j, WellFormedInstr(j), NEW form \in Forms
  PROVE  /\ InstrBytes(j, form) = <<j.op>> \o CountForm(j, form) \o Flat(j, form) \o j.raw
         /\ <<j.op>> \in Seq(Nat) /\ Len(<<j.op>>) = 1 /\ j.op \in Nat
         /\ CountForm(j, form) \in Seq(Nat) /\ Flat(j, form) \in Seq(Nat) /\ j.raw \in Seq(Nat)
<1>1. FlattenSeq([k \in 1..Len(j.labels) |-> Form(form, j.labels[k])]) = Flat(j, form)
  BY LabelsAre, PreAll DEF LabelForms, Flat
<1>2. Flat(j, form) \in Seq(Nat)
  <2>1. Len(j.labels) \in 0..Len(j.labels)
    BY LabelsAre
  <2> QED
    BY <2>1, LabelsAre, PreGrows DEF Grows, Flat
<1>3. j.op \in Nat /\ j.raw \in Seq(Nat)
  BY DEF WellFormedInstr
<1>4. InstrBytes(j, form) = <<j.op>> \o CountForm(j, form) \o Flat(j, form) \o j.raw
  BY <1>1, Zenon DEF InstrBytes, CountForm
<1>5. <<j.op>> \in Seq(Nat) /\ Len(<<j.op>>) = 1
  BY <1>3
<1>6. CountForm(j, form) \in Seq(Nat)
  BY LabelsAre
<1> QED
  BY <1>2, <1>3, <1>4, <1>5, <1>6, Zenon

InstrSize(j, form) == 1 + Len(CountForm(j, form)) + Len(Flat(j, form)) + Len(j.raw)

LEMMA InstrSeq ==
  ASSUME NEW j, WellFormedInstr(j), NEW form \in Forms
  PROVE  /\ InstrBytes(j, form) \in Seq(Nat)
         /\ Len(InstrBytes(j, form)) = InstrSize(j, form)
         /\ Len(InstrBytes(j, form)) \in Nat /\ Len(InstrBytes(j, form)) >= 1
<1>1. PICK c, f, r :
        /\ c = CountForm(j, form) /\ f = Flat(j, form) /\ r = j.raw
        /\ c \in Seq(Nat) /\ f \in Seq(Nat) /\ r \in Seq(Nat)
        /\ InstrBytes(j, form) = <<j.op>> \o c \o f \o r
  BY InstrIs
<1>2. PICK a : a = <<j.op>> /\ a \in Seq(Nat) /\ Len(a) = 1
  BY InstrIs
<1>3. PICK b : b = a \o c
  OBVIOUS
<1>4. b \in Seq(Nat) /\ Len(b) = 1 + Len(c) /\ Len(c) \in Nat
  BY <1>1, <1>2, <1>3, JoinedLen
<1>5. PICK d : d = b \o f
  OBVIOUS
<1>6. d \in Seq(Nat) /\ Len(d) = Len(b) + Len(f) /\ Len(f) \in Nat
  BY <1>1, <1>4, <1>5, JoinedLen
<1>7. PICK u : u = d \o r
  OBVIOUS
<1>8. u \in Seq(Nat) /\ Len(u) = Len(d) + Len(r) /\ Len(r) \in Nat
  BY <1>1, <1>6, <1>7, JoinedLen
<1>9. InstrBytes(j, form) = u
  BY <1>1, <1>2, <1>3, <1>5, <1>7
<1>10. PICK x \in Nat, y \in Nat, z \in Nat : x = Len(c) /\ y = Len(f) /\ z = Len(r)
  BY <1>4, <1>6, <1>8
<1>11. InstrSize(j, form) = 1 + x + y + z
  BY <1>1, <1>10 DEF InstrSize
<1>12. Len(u) = 1 + x + y + z
  BY <1>4, <1>6, <1>8, <1>10
<1> QED
  BY <1>8, <1>9, <1>11, <1>12

\* Where its parts lie.
LEMMA InstrLies ==
  ASSUME NEW j, WellFormedInstr(j), NEW form \in Forms, NEW w \in Seq(Nat), NEW p \in Nat,
         LiesIn(w, p, InstrBytes(j, form))
  PROVE  /\ w[p] = j.op
         /\ LiesIn(w, p + 1, CountForm(j, form))
         /\ LiesIn(w, p + 1 + Len(CountForm(j, form)), Flat(j, form))
         /\ LiesIn(w, p + 1 + Len(CountForm(j, form)) + Len(Flat(j, form)), j.raw)
<1>1. PICK c, f, r :
        /\ c = CountForm(j, form) /\ f = Flat(j, form) /\ r = j.raw
        /\ c \in Seq(Nat) /\ f \in Seq(Nat) /\ r \in Seq(Nat)
        /\ InstrBytes(j, form) = <<j.op>> \o c \o f \o r
  BY InstrIs
<1>2. PICK a : a = <<j.op>> /\ a \in Seq(Nat) /\ Len(a) = 1 /\ a[1] = j.op
  <2>1. <<j.op>>[1] = j.op
    OBVIOUS
  <2> QED
    BY <2>1, InstrIs
<1>3. PICK b : b = a \o c
  OBVIOUS
<1>4. b \in Seq(Nat) /\ Len(b) = 1 + Len(c) /\ Len(c) \in Nat
  BY <1>1, <1>2, <1>3, JoinedLen
<1>5. PICK d : d = b \o f
  OBVIOUS
<1>6. d \in Seq(Nat) /\ Len(d) = Len(b) + Len(f) /\ Len(f) \in Nat
  BY <1>1, <1>4, <1>5, JoinedLen
<1>7. PICK u : u = d \o r
  OBVIOUS
<1>8. u \in Seq(Nat) /\ Len(u) = Len(d) + Len(r) /\ Len(r) \in Nat
  BY <1>1, <1>6, <1>7, JoinedLen
<1>9. InstrBytes(j, form) = u
  BY <1>1, <1>2, <1>3, <1>5, <1>7
<1>10. LiesIn(w, p, d) /\ LiesIn(w, p + Len(d), r)
  <2>1. LiesIn(w, p, d \o r)
    BY <1>7, <1>9
  <2> QED
    BY <1>1, <1>6, <2>1, LiesJoined
<1>11. LiesIn(w, p, b) /\ LiesIn(w, p + Len(b), f)
  BY <1>1, <1>4, <1>5, <1>10, LiesJoined
<1>12. LiesIn(w, p, a) /\ LiesIn(w, p + Len(a), c)
  BY <1>1, <1>2, <1>3, <1>11, LiesJoined
<1>13. w[p] = j.op
  <2>1. 1 \in 1..Len(a) /\ p + 1 - 1 = p
    BY <1>2
  <2> QED
    BY <1>2, <1>12, <2>1 DEF LiesIn
<1>14. p + Len(b) = p + 1 + Len(c) /\ p + Len(d) = p + 1 + Len(c) + Len(f)
  BY <1>4, <1>6
<1> QED
  BY <1>1, <1>2, <1>10, <1>11, <1>12, <1>13, <1>14

\* Branches are legal and have no other immediates.
LEMMA BranchOps ==
  ASSUME NEW op \in LabelOps \cup {WASM_OP_BR_TABLE}
  PROVE  /\ op \in LegalOps /\ op \notin IllegalOps
         /\ op \notin IndexOps /\ op \notin LoadOps \cup StoreOps /\ op \notin ConstOps
         /\ op \notin BlockOps /\ op # WASM_OP_CALL_INDIRECT
<1>2. op \in {12, 13, 14}
  BY DEF LabelOps, WASM_OP_BR, WASM_OP_BR_IF, WASM_OP_BR_TABLE
<1>1. op \in LegalOps
  BY <1>2 DEF LegalOps
<1>3. op \notin IllegalOps
  BY <1>2 DEF IllegalOps
<1>4. op \notin IndexOps
  BY <1>2 DEF IndexOps, LocalOps, GlobalOps, WASM_OP_LOCAL_GET, WASM_OP_LOCAL_SET,
              WASM_OP_LOCAL_TEE, WASM_OP_GLOBAL_GET, WASM_OP_GLOBAL_SET, WASM_OP_CALL
<1>5. op \notin LoadOps \cup StoreOps
  BY <1>2 DEF LoadOps, StoreOps
<1>6. op \notin ConstOps /\ op \notin BlockOps /\ op # WASM_OP_CALL_INDIRECT
  BY <1>2 DEF ConstOps, BlockOps, WASM_OP_I32_CONST, WASM_OP_F64_CONST, WASM_OP_BLOCK,
              WASM_OP_LOOP, WASM_OP_CALL_INDIRECT
<1> QED
  BY <1>1, <1>3, <1>4, <1>5, <1>6

LEMMA BranchRaw ==
  ASSUME NEW j, WellFormedInstr(j), j.op \in LabelOps \cup {WASM_OP_BR_TABLE}
  PROVE  j.raw = <<>> /\ ~Refused(j)
<1>1. j.op \in LegalOps \ (IndexOps \cup LoadOps \cup StoreOps \cup ConstOps \cup BlockOps
                             \cup {WASM_OP_CALL_INDIRECT})
  BY BranchOps
<1>2. j.op \notin BlockOps \cup {WASM_OP_CALL_INDIRECT} /\ j.op \in LegalOps
  BY BranchOps
<1> QED
  BY <1>1, <1>2 DEF WellFormedInstr, Refused

\* Other instructions than branches have no labels.
LEMMA PlainParts ==
  ASSUME NEW j, WellFormedInstr(j), NEW form \in Forms, j.op \notin LabelOps \cup {WASM_OP_BR_TABLE}
  PROVE  /\ InstrBytes(j, form) = <<j.op>> \o j.raw
         /\ InstrSize(j, form) = 1 + Len(j.raw)
         /\ CountForm(j, form) = <<>> /\ Flat(j, form) = <<>>
<1>1. CountForm(j, form) = <<>>
  BY DEF CountForm
<1>2. Len(j.labels) = 0
  <2>1. j.labels = <<>>
    BY DEF WellFormedInstr
  <2> QED
    BY <2>1
<1>3. Flat(j, form) = <<>>
  <2>1. Pre(LabelForms(j, form), 0) = <<>>
    <3>1. Pieces(LabelForms(j, form), 0)
      BY <1>2, LabelsAre
    <3> QED
      BY <3>1, PreGrows DEF Grows
  <2> QED
    BY <1>2, <2>1 DEF Flat
<1>4. <<j.op>> \in Seq(Nat) /\ j.raw \in Seq(Nat)
  BY InstrIs
<1>5. InstrBytes(j, form) = <<j.op>> \o <<>> \o <<>> \o j.raw
  BY <1>1, <1>3, InstrIs
<1>6. <<j.op>> \o <<>> = <<j.op>>
  BY <1>4, EmptyJoin
<1>7. Len(<<>>) = 0 /\ Len(j.raw) \in Nat
  BY <1>4
<1>8. InstrSize(j, form) = 1 + 0 + 0 + Len(j.raw)
  BY <1>1, <1>3, <1>7 DEF InstrSize
<1> QED
  BY <1>1, <1>3, <1>5, <1>6, <1>7, <1>8

\* br and br_if have one.
LEMMA LabelParts ==
  ASSUME NEW j, WellFormedInstr(j), NEW form \in Forms, j.op \in LabelOps
  PROVE  /\ InstrBytes(j, form) = <<j.op>> \o Form(form, j.labels[1])
         /\ InstrSize(j, form) = 1 + Len(Form(form, j.labels[1]))
         /\ CountForm(j, form) = <<>> /\ Flat(j, form) = Form(form, j.labels[1])
         /\ j.labels[1] \in Indices /\ Fits(form, j.labels[1])
<1>1. CountForm(j, form) = <<>>
  BY DEF CountForm, LabelOps, WASM_OP_BR, WASM_OP_BR_IF, WASM_OP_BR_TABLE
<1>2. Len(j.labels) = 1
  BY DEF WellFormedInstr
<1>3. /\ LabelForms(j, form)[1] = Form(form, j.labels[1])
      /\ j.labels[1] \in Indices /\ Fits(form, j.labels[1])
  BY <1>2, LabelsAre
<1>4. Form(form, j.labels[1]) \in Seq(Nat)
  BY <1>3, FormSeq
<1>5. Flat(j, form) = Form(form, j.labels[1])
  <2>1. Pieces(LabelForms(j, form), 1)
    BY <1>2, LabelsAre
  <2>2. /\ Pre(LabelForms(j, form), 0) = <<>>
        /\ Pre(LabelForms(j, form), 1) = Pre(LabelForms(j, form), 1 - 1) \o LabelForms(j, form)[1]
    <3>1. Grows(LabelForms(j, form), 1) /\ 1 \in 1..1
      BY <2>1, PreGrows
    <3> QED
      BY <3>1, Zenon DEF Grows
  <2>3. 1 - 1 = 0
    OBVIOUS
  <2>4. Pre(LabelForms(j, form), 1) = <<>> \o Form(form, j.labels[1])
    BY <1>3, <2>2, <2>3
  <2> QED
    BY <1>2, <1>4, <2>4, EmptyJoin DEF Flat
<1>6. j.raw = <<>>
  BY BranchRaw
<1>7. <<j.op>> \in Seq(Nat)
  BY InstrIs
<1>8. InstrBytes(j, form) = <<j.op>> \o <<>> \o Form(form, j.labels[1]) \o <<>>
  BY <1>1, <1>5, <1>6, InstrIs
<1>9. <<j.op>> \o <<>> = <<j.op>>
  BY <1>7, EmptyJoin
<1>10. <<j.op>> \o Form(form, j.labels[1]) \in Seq(Nat)
  BY <1>4, <1>7, JoinedLen
<1>11. InstrBytes(j, form) = <<j.op>> \o Form(form, j.labels[1])
  BY <1>8, <1>9, <1>10, EmptyJoin
<1>12. InstrSize(j, form) = 1 + 0 + Len(Form(form, j.labels[1])) + 0
  <2>1. Len(<<>>) = 0
    OBVIOUS
  <2> QED
    BY <1>1, <1>5, <1>6, <2>1 DEF InstrSize
<1>13. Len(Form(form, j.labels[1])) \in Nat
  BY <1>4
<1> QED
  BY <1>1, <1>3, <1>5, <1>11, <1>12, <1>13
-----------------------------------------------------------------------------
(***************************************************************************)
(* What the rewriter reads where an instruction lies.                      *)
(***************************************************************************)
LEMMA FormRead ==
  ASSUME bytes \in Seq(Nat), NEW p, NEW form, NEW v, Fits(form, v),
         LiesIn(bytes, p, Form(form, v)),
         NEW limit \in Nat, p + Len(Form(form, v)) <= limit
  PROVE  Read(p, limit) = [val |-> v, ptr |-> p + Len(Form(form, v))]
<1>1. \A signed : ~signed =>
        ReadLeb(bytes, p, limit, signed) = [val |-> v, ptr |-> p + Len(Form(form, v))]
  BY FormIsRead
<1>2. ReadLeb(bytes, p, limit, FALSE) = [val |-> v, ptr |-> p + Len(Form(form, v))]
  BY <1>1, Zenon
<1> QED
  BY <1>2 DEF Read

RawEnd(p, s, limit, signed) == ReadLeb(bytes, p, limit, signed).ptr = p + Len(s)

LEMMA RawRead ==
  ASSUME bytes \in Seq(Nat), NEW p, NEW s, LiesIn(bytes, p, s),
         NEW limit \in Nat, p + Len(s) <= limit
  PROVE  /\ IsLeb(s, TRUE) => ReadLeb(bytes, p, limit, TRUE).ptr = p + Len(s)
         /\ IsLeb(s, FALSE) => Read(p, limit).ptr = p + Len(s)
<1>1. ASSUME NEW signed, IsLeb(s, signed) PROVE RawEnd(p, s, limit, signed)
  <2>1. ReadLeb(bytes, p, limit, signed) =
          [val |-> LebValue(Payloads(bytes, p, Len(s)), Len(s), signed), ptr |-> p + Len(s)]
    BY <1>1, LebIsRead
  <2> QED
    BY <2>1 DEF RawEnd
<1>2. \A signed : IsLeb(s, signed) => RawEnd(p, s, limit, signed)
  BY <1>1
<1>3. IsLeb(s, TRUE) => RawEnd(p, s, limit, TRUE)
  BY <1>2, Zenon
<1>4. IsLeb(s, FALSE) => RawEnd(p, s, limit, FALSE)
  BY <1>2, Zenon
<1> QED
  BY <1>3, <1>4, Zenon DEF RawEnd, Read

\* Data that lies in the file is what is copied from there.
LEMMA CopyIs ==
  ASSUME bytes \in Seq(Nat), NEW p, NEW s, LiesIn(bytes, p, s)
  PROVE  From(p, p + Len(s)) = s
<1>1. PICK n \in Nat : n = Len(s)
  BY DEF LiesIn
<1>2. PICK l \in Nat : l = Len(bytes)
  OBVIOUS
<1>3. PICK q \in Int : q = p + n - 1
  <2>1. p \in Nat
    BY DEF LiesIn
  <2> QED
    BY <2>1
<1>4. /\ p \in Nat /\ p >= 1 /\ s \in Seq(Nat) /\ q <= l
      /\ \A k \in 1..n : bytes[p + k - 1] = s[k]
  BY <1>1, <1>2, <1>3 DEF LiesIn
<1>5. PICK t : t = SubSeq(bytes, p, q)
  OBVIOUS
<1>6. \A i \in p..q : bytes[i] \in Nat
  BY <1>2, <1>4
<1>7. /\ t \in Seq(Nat) /\ Len(t) = IF p <= q THEN q - p + 1 ELSE 0
      /\ \A i \in 1..(q - p + 1) : t[i] = bytes[p + i - 1]
  BY <1>3, <1>4, <1>5, <1>6, SubSeqProperties, SMTT(60)
<1>8. Len(t) = n /\ q - p + 1 = n
  BY <1>3, <1>4, <1>7
<1>9. \A k \in 1..n : t[k] = s[k]
  BY <1>4, <1>7, <1>8
<1>10. t = s
  <2>1. t \in Seq(Nat) /\ s \in Seq(Nat) /\ Len(t) = Len(s) /\ \A k \in 1..Len(t) : t[k] = s[k]
    BY <1>1, <1>4, <1>7, <1>8, <1>9
  <2> QED
    BY <2>1, SeqEqual
<1>11. (p + Len(s)) - 1 = q
  BY <1>1, <1>3, <1>4
<1>12. From(p, p + Len(s)) = SubSeq(bytes, p, (p + Len(s)) - 1)
  BY Zenon DEF From
<1> QED
  BY <1>5, <1>10, <1>11, <1>12

\* An instruction lies at the pointer, and before the end of the body.
InstrHere(j, form) ==
  /\ WellFormedInstr(j) /\ form \in Forms
  /\ LiesIn(bytes, ptr, InstrBytes(j, form))
  /\ ptr + Len(InstrBytes(j, form)) <= body_end

\* The opcode and the other immediates of one without labels.
LEMMA PlainHere ==
  ASSUME WInv, NEW j, NEW form, InstrHere(j, form),
         j.op \notin LabelOps \cup {WASM_OP_BR_TABLE}
  PROVE  /\ bytes[ptr] = j.op
         /\ LiesIn(bytes, ptr + 1, j.raw)
         /\ Len(InstrBytes(j, form)) = 1 + Len(j.raw)
         /\ Len(j.raw) \in Nat /\ ptr + 1 + Len(j.raw) <= body_end
         /\ j.raw \in Seq(Nat)
<1>1. bytes \in Seq(Nat) /\ ptr \in Nat /\ body_end \in Nat
  BY Ranges
<1>2. /\ CountForm(j, form) = <<>> /\ Flat(j, form) = <<>>
      /\ Len(InstrBytes(j, form)) = 1 + Len(j.raw) /\ j.raw \in Seq(Nat)
  BY PlainParts, InstrSeq, InstrIs DEF InstrHere
<1>3. /\ bytes[ptr] = j.op
      /\ LiesIn(bytes, ptr + 1 + Len(CountForm(j, form)) + Len(Flat(j, form)), j.raw)
  BY <1>1, InstrLies DEF InstrHere
<1>4. ptr + 1 + Len(CountForm(j, form)) + Len(Flat(j, form)) = ptr + 1
  BY <1>1, <1>2
<1>5. PICK n \in Nat : n = Len(j.raw)
  BY <1>2
<1>6. ptr + 1 + Len(j.raw) <= body_end
  <2>1. ptr + Len(InstrBytes(j, form)) <= body_end
    BY DEF InstrHere
  <2>2. PICK m \in Nat : m = Len(InstrBytes(j, form)) /\ m = 1 + n
    BY <1>2, <1>5
  <2>3. ptr + m = ptr + 1 + n
    BY <1>1, <2>2
  <2> QED
    BY <1>5, <2>1, <2>2, <2>3
<1> QED
  BY <1>2, <1>3, <1>4, <1>5, <1>6

LEMMA LegalNotIllegal ==
  ASSUME NEW op \in LegalOps
  PROVE  op \notin IllegalOps
BY DEF LegalOps, IllegalOps

\* What the table of weeify lets pass is what the jump table has, but for `if'.
LEMMA TablesAgree ==
  ASSUME NEW op
  PROVE  /\ op \in LegalOps => op \in JumpTable
         /\ op \notin LegalOps => op \in IllegalHeader \/ op \notin JumpTable
<1>1. ASSUME op \in LegalOps PROVE op \in JumpTable
  BY <1>1 DEF LegalOps, JumpTable, Opcodes, BlockOps, LocalOps, GlobalOps, ConstOps, LoadOps, StoreOps,
       UnaryOps, BinaryOps, WASM_OP_UNREACHABLE, WASM_OP_NOP, WASM_OP_BLOCK, WASM_OP_LOOP,
       WASM_OP_END, WASM_OP_BR, WASM_OP_BR_IF, WASM_OP_BR_TABLE, WASM_OP_RETURN, WASM_OP_CALL,
       WASM_OP_CALL_INDIRECT, WASM_OP_DROP, WASM_OP_SELECT, WASM_OP_LOCAL_GET, WASM_OP_LOCAL_SET,
       WASM_OP_LOCAL_TEE, WASM_OP_GLOBAL_GET, WASM_OP_GLOBAL_SET, WASM_OP_I32_CONST,
       WASM_OP_F64_CONST, WASM_OP_I32_EQZ, WASM_OP_I32_ADD, WASM_OP_I32_SUB, WASM_OP_I32_DIV_U
<1>2. ASSUME op \in JumpTable PROVE op \in LegalOps \/ op = 4
  BY <1>2 DEF LegalOps, JumpTable, Opcodes, BlockOps, LocalOps, GlobalOps, ConstOps, LoadOps, StoreOps,
       UnaryOps, BinaryOps, WASM_OP_UNREACHABLE, WASM_OP_NOP, WASM_OP_BLOCK, WASM_OP_LOOP,
       WASM_OP_END, WASM_OP_BR, WASM_OP_BR_IF, WASM_OP_BR_TABLE, WASM_OP_RETURN, WASM_OP_CALL,
       WASM_OP_CALL_INDIRECT, WASM_OP_DROP, WASM_OP_SELECT, WASM_OP_LOCAL_GET, WASM_OP_LOCAL_SET,
       WASM_OP_LOCAL_TEE, WASM_OP_GLOBAL_GET, WASM_OP_GLOBAL_SET, WASM_OP_I32_CONST,
       WASM_OP_F64_CONST, WASM_OP_I32_EQZ, WASM_OP_I32_ADD, WASM_OP_I32_SUB, WASM_OP_I32_DIV_U
<1>3. 4 \in IllegalHeader
  BY DEF IllegalHeader
<1> QED
  BY <1>1, <1>2, <1>3

-----------------------------------------------------------------------------
\* The opcodes whose immediates decide about them, and f64.const.
LEMMA JudgedOps ==
  /\ BlockOps \cup {WASM_OP_CALL_INDIRECT, WASM_OP_F64_CONST} \subseteq LegalOps
  /\ WASM_OP_CALL_INDIRECT \notin BlockOps
  /\ WASM_OP_F64_CONST \notin BlockOps /\ WASM_OP_F64_CONST # WASM_OP_CALL_INDIRECT
  /\ (LabelOps \cup {WASM_OP_BR_TABLE})
       \cap (BlockOps \cup {WASM_OP_CALL_INDIRECT, WASM_OP_F64_CONST}) = {}
<1>1. BlockOps \cup {WASM_OP_CALL_INDIRECT, WASM_OP_F64_CONST} \subseteq LegalOps
  BY DEF LegalOps, BlockOps, WASM_OP_BLOCK, WASM_OP_LOOP, WASM_OP_CALL_INDIRECT,
         WASM_OP_F64_CONST
<1>2. WASM_OP_CALL_INDIRECT \notin BlockOps
  BY DEF WASM_OP_CALL_INDIRECT, BlockOps, WASM_OP_BLOCK, WASM_OP_LOOP
<1>3. (LabelOps \cup {WASM_OP_BR_TABLE})
        \cap (BlockOps \cup {WASM_OP_CALL_INDIRECT, WASM_OP_F64_CONST}) = {}
  BY BranchOps DEF ConstOps
<1> QED
  BY <1>1, <1>2, <1>3, ConstIsLegal

\* The verdict by the kind of opcode.
LEMMA VerdictBy ==
  ASSUME NEW op, op = bytes[ptr], NEW p, p = ptr + 1
  PROVE  /\ op \notin LegalOps => Verdict # 0
         /\ op \in BlockOps =>
              (Verdict # 0 <=> ReadLeb(bytes, p, body_end, TRUE).val # VoidType)
         /\ op = WASM_OP_CALL_INDIRECT =>
              (Verdict # 0 <=> Read(Read(p, body_end).ptr, body_end).val # 0)
         /\ op = WASM_OP_F64_CONST => (Verdict # 0 <=> p + F64Bytes > body_end)
         /\ op \in LegalOps \ (BlockOps \cup {WASM_OP_CALL_INDIRECT, WASM_OP_F64_CONST})
              => Verdict = 0
<1>1. CASE op \notin LegalOps
  <2>0. op \notin BlockOps /\ op # WASM_OP_CALL_INDIRECT /\ op # WASM_OP_F64_CONST
    BY <1>1, JudgedOps
  <2>1. ASSUME op \in IllegalOps PROVE Verdict # 0
    <3>1. op \in LegalOps \cup IllegalOps
      BY <2>1
    <3>2. Verdict = -4
      BY <2>0, <2>1, <3>1 DEF Verdict
    <3> QED
      BY <3>2
  <2>2. ASSUME op \notin IllegalOps PROVE Verdict # 0
    <3>1. op \notin LegalOps \cup IllegalOps
      BY <1>1, <2>2
    <3>2. Verdict = -3
      BY <2>0, <2>2, <3>1 DEF Verdict
    <3> QED
      BY <3>2
  <2>3. Verdict # 0
    BY <2>1, <2>2
  <2> QED
    BY <1>1, <2>0, <2>3
<1>2. CASE op \in LegalOps
  <2>1. op \notin IllegalOps
    BY <1>2, LegalNotIllegal
  <2>2. CASE op \in BlockOps
    <3>1. op # WASM_OP_CALL_INDIRECT /\ op # WASM_OP_F64_CONST
      BY <2>2, JudgedOps
    <3>2. Verdict = IF ReadLeb(bytes, p, body_end, TRUE).val # VoidType THEN -5 ELSE 0
      BY <1>2, <2>1, <2>2, <3>1 DEF Verdict
    <3>3. Verdict # 0 <=> ReadLeb(bytes, p, body_end, TRUE).val # VoidType
      <4>1. PICK v : v = ReadLeb(bytes, p, body_end, TRUE).val
        OBVIOUS
      <4>2. -5 # 0
        OBVIOUS
      <4> QED
        BY <3>2, <4>1, <4>2, Zenon
    <3> QED
      BY <1>2, <2>2, <3>1, <3>3
  <2>3. CASE op = WASM_OP_CALL_INDIRECT
    <3>1. op \notin BlockOps /\ op # WASM_OP_F64_CONST
      BY <2>3, JudgedOps
    <3>2. Verdict = IF Read(Read(p, body_end).ptr, body_end).val # 0 THEN -2 ELSE 0
      BY <1>2, <2>1, <2>3, <3>1 DEF Verdict
    <3>3. Verdict # 0 <=> Read(Read(p, body_end).ptr, body_end).val # 0
      BY <3>2
    <3> QED
      BY <1>2, <2>3, <3>1, <3>3
  <2>4. CASE op = WASM_OP_F64_CONST
    <3>1. op \notin BlockOps /\ op # WASM_OP_CALL_INDIRECT
      BY <2>4, JudgedOps
    <3>2. Verdict = IF p + F64Bytes > body_end THEN -6 ELSE 0
      BY <1>2, <2>1, <2>4, <3>1 DEF Verdict
    <3>3. Verdict # 0 <=> p + F64Bytes > body_end
      BY <3>2
    <3> QED
      BY <1>2, <2>4, <3>1, <3>3
  <2>5. CASE op \notin BlockOps \cup {WASM_OP_CALL_INDIRECT, WASM_OP_F64_CONST}
    <3>1. Verdict = 0
      BY <1>2, <2>1, <2>5 DEF Verdict
    <3> QED
      BY <1>2, <2>5, <3>1
  <2> QED
    BY <2>2, <2>3, <2>4, <2>5
<1> QED
  BY <1>1, <1>2

\* The second immediate of call_indirect, the table.
LEMMA TableRead ==
  ASSUME WInv, NEW j, NEW form, InstrHere(j, form), j.op = WASM_OP_CALL_INDIRECT
  PROVE  /\ Read(Read(ptr + 1, body_end).ptr, body_end).val # 0 <=> j.odd
         /\ Read(Read(ptr + 1, body_end).ptr, body_end).ptr = ptr + 1 + Len(j.raw)
<1>1. j.op \notin LabelOps \cup {WASM_OP_BR_TABLE}
  BY JudgedOps
<1>2. /\ bytes[ptr] = j.op /\ LiesIn(bytes, ptr + 1, j.raw)
      /\ Len(j.raw) \in Nat /\ ptr + 1 + Len(j.raw) <= body_end /\ j.raw \in Seq(Nat)
  BY <1>1, PlainHere
<1>3. PICK n \in 1..Len(j.raw), f \in Forms, table \in Indices :
        /\ IsLeb(SubSeq(j.raw, 1, n), FALSE)
        /\ SubSeq(j.raw, n + 1, Len(j.raw)) = Form(f, table)
        /\ j.odd <=> table # 0
  <2>1. \E n \in 1..Len(j.raw), f \in Forms, table \in Indices :
          /\ IsLeb(SubSeq(j.raw, 1, n), FALSE)
          /\ SubSeq(j.raw, n + 1, Len(j.raw)) = Form(f, table)
          /\ j.odd <=> table # 0
    BY Zenon DEF InstrHere, WellFormedInstr
  <2> QED
    BY <2>1, Zenon
<1>4. PICK a, b : a = SubSeq(j.raw, 1, n) /\ b = SubSeq(j.raw, n + 1, Len(j.raw))
  OBVIOUS
<1>5. /\ a \in Seq(Nat) /\ b \in Seq(Nat) /\ j.raw = a \o b
      /\ Len(j.raw) = Len(a) + Len(b) /\ Len(a) \in Nat /\ Len(b) \in Nat
  <2>1. PICK l \in Nat : l = Len(j.raw) /\ n \in 1..l
    BY <1>2
  <2>2. a \in Seq(Nat) /\ b \in Seq(Nat)
    BY <1>2, <1>4, <2>1, SMTT(60)
  <2>3. a \o b = j.raw
    BY <1>2, <1>4, <2>1
  <2> QED
    BY <2>2, <2>3, JoinedLen
<1>6. PICK p \in Nat : p = ptr + 1
  BY Ranges
<1>7. LiesIn(bytes, p, a) /\ LiesIn(bytes, p + Len(a), b)
  <2>1. LiesIn(bytes, p, a \o b)
    BY <1>2, <1>5, <1>6
  <2> QED
    BY <1>5, <2>1, Ranges, LiesJoined
<1>8. PICK q \in Nat : q = p + Len(a) /\ q <= body_end /\ q + Len(b) = p + Len(j.raw)
  <2>1. PICK l \in Nat, m \in Nat : l = Len(a) /\ m = Len(b) /\ Len(j.raw) = l + m
    BY <1>5
  <2>2. p + (l + m) <= body_end
    BY <1>2, <1>6, <2>1
  <2>3. p + l <= body_end /\ (p + l) + m = p + (l + m) /\ p + l \in Nat
    <3>1. PICK e \in Nat : e = body_end
      BY Ranges
    <3>2. p + (l + m) <= e
      BY <2>2, <3>1
    <3>3. p + l <= e
      BY <3>2
    <3> QED
      BY <3>1, <3>3
  <2> QED
    BY <2>1, <2>3
<1>9. Read(p, body_end).ptr = q
  <2>1. IsLeb(a, FALSE)
    BY <1>3, <1>4
  <2> QED
    BY <1>7, <1>8, <2>1, Ranges, RawRead, ZenonT(60)
<1>10. Fits(f, table) /\ b = Form(f, table)
  BY <1>3, <1>4, IndexFits
<1>11. q + Len(b) <= body_end
  BY <1>2, <1>6, <1>8
<1>12. Read(q, body_end) = [val |-> table, ptr |-> q + Len(b)]
  BY <1>7, <1>8, <1>10, <1>11, Ranges, FormRead, ZenonT(60)
<1>13. Read(Read(ptr + 1, body_end).ptr, body_end) = [val |-> table, ptr |-> q + Len(b)]
  BY <1>6, <1>9, <1>12
<1> QED
  BY <1>3, <1>6, <1>8, <1>13

\* Exactly what the table lacks is refused, and what is odd.
LEMMA VerdictIs ==
  ASSUME WInv, NEW j, NEW form, InstrHere(j, form)
  PROVE  Verdict # 0 <=> Refused(j)
<1>1. bytes[ptr] = j.op
  BY Ranges, InstrLies DEF InstrHere
<1>2. PICK p \in Nat : p = ptr + 1
  BY Ranges
<1>3. CASE j.op \notin LegalOps
  <2>1. Refused(j)
    BY <1>3 DEF Refused
  <2> QED
    BY <1>1, <1>2, <1>3, <2>1, VerdictBy
<1>4. CASE j.op \in BlockOps
  <2>1. j.op \notin LabelOps \cup {WASM_OP_BR_TABLE}
    BY <1>4, JudgedOps
  <2>2. PICK b \in 0..(Base - 1) : j.raw = <<b>> /\ (j.odd <=> b # VoidType + Base)
    <3>1. \E b \in 0..(Base - 1) : j.raw = <<b>> /\ (j.odd <=> b # VoidType + Base)
      BY <1>4, Zenon DEF InstrHere, WellFormedInstr
    <3> QED
      BY <3>1, Zenon
  <2>3. LiesIn(bytes, p, <<b>>) /\ p + 1 <= body_end
    <3>1. Len(j.raw) = 1
      BY <2>2
    <3> QED
      BY <1>2, <2>1, <2>2, <3>1, PlainHere
  <2>4. ReadLeb(bytes, p, body_end, TRUE).val = VoidType <=> b = VoidType + Base
    BY <2>3, Ranges, TypeIsRead
  <2>5. Verdict # 0 <=> ReadLeb(bytes, p, body_end, TRUE).val # VoidType
    BY <1>1, <1>2, <1>4, VerdictBy
  <2>6. Refused(j) <=> j.odd
    BY <1>4, JudgedOps DEF Refused
  <2> QED
    BY <2>2, <2>4, <2>5, <2>6
<1>5. CASE j.op = WASM_OP_CALL_INDIRECT
  <2>1. Verdict # 0 <=> Read(Read(p, body_end).ptr, body_end).val # 0
    BY <1>1, <1>2, <1>5, VerdictBy
  <2>2. Refused(j) <=> j.odd
    BY <1>5, JudgedOps DEF Refused
  <2> QED
    BY <1>2, <1>5, <2>1, <2>2, TableRead
<1>6. CASE j.op = WASM_OP_F64_CONST
  <2>1. j.op \notin LabelOps \cup {WASM_OP_BR_TABLE} \cup BlockOps \cup {WASM_OP_CALL_INDIRECT}
    BY <1>6, JudgedOps
  <2>2. Len(j.raw) = F64Bytes /\ ~Refused(j)
    <3>1. j.op \in LegalOps
      BY <1>6, JudgedOps
    <3> QED
      BY <1>6, <2>1, <3>1 DEF InstrHere, WellFormedInstr, Refused
  <2>3. p + F64Bytes <= body_end
    BY <1>2, <2>1, <2>2, PlainHere
  <2>4. ~(p + F64Bytes > body_end)
    BY <1>2, <2>3, WeeifyAssumption, Ranges
  <2>5. Verdict # 0 <=> p + F64Bytes > body_end
    BY <1>1, <1>2, <1>6, VerdictBy
  <2> QED
    BY <2>2, <2>4, <2>5
<1>7. CASE j.op \in LegalOps \ (BlockOps \cup {WASM_OP_CALL_INDIRECT, WASM_OP_F64_CONST})
  <2>1. ~Refused(j)
    BY <1>7 DEF InstrHere, WellFormedInstr, Refused
  <2> QED
    BY <1>1, <1>2, <1>7, <2>1, VerdictBy
<1> QED
  BY <1>3, <1>4, <1>5, <1>6, <1>7
-----------------------------------------------------------------------------
\* Where the immediates of an instruction without labels end.
LEMMA PlainEnd ==
  ASSUME WInv, NEW j, NEW form, InstrHere(j, form),
         j.op \in LegalOps \ (LabelOps \cup {WASM_OP_BR_TABLE})
  PROVE  ImmediateEnd = ptr + Len(InstrBytes(j, form))
<1>1. PICK p \in Nat : p = ptr + 1
  BY Ranges
<1>2. PICK n \in Nat : n = Len(j.raw)
  BY PlainHere
<1>3. /\ bytes[ptr] = j.op /\ LiesIn(bytes, p, j.raw) /\ p + n <= body_end
      /\ j.raw \in Seq(Nat)
  BY <1>1, <1>2, PlainHere
<1>4. ptr + Len(InstrBytes(j, form)) = p + n
  <2>1. Len(InstrBytes(j, form)) = 1 + n
    BY <1>2, PlainHere
  <2>2. ptr + (1 + n) = p + n
    BY <1>1, Ranges
  <2> QED
    BY <2>1, <2>2
<1>5. bytes \in Seq(Nat) /\ body_end \in Nat
  BY Ranges
<1>6. PICK op : op = j.op
  OBVIOUS
<1>7. WellFormedInstr(j)
  BY DEF InstrHere
<1>8. CASE op \in IndexOps
  <2>1. IsLeb(j.raw, FALSE)
    BY <1>6, <1>7, <1>8, Zenon DEF WellFormedInstr
  <2>2. Read(p, body_end).ptr = p + n
    BY <1>2, <1>3, <1>5, <2>1, RawRead
  <2>3. ImmediateEnd = Read(p, body_end).ptr
    BY <1>1, <1>3, <1>6, <1>8, ArmsDiffer DEF ImmediateEnd
  <2> QED
    BY <1>4, <2>2, <2>3
<1>9. CASE op \in LoadOps \cup StoreOps
  <2>1. j.raw # <<>> /\ IsLeb(Tail(j.raw), FALSE)
    BY <1>6, <1>7, <1>9, Zenon DEF WellFormedInstr
  <2>2. PICK a, b : a = <<Head(j.raw)>> /\ b = Tail(j.raw)
    OBVIOUS
  <2>3. a \in Seq(Nat) /\ b \in Seq(Nat) /\ j.raw = a \o b /\ Len(a) = 1
    BY <1>3, <2>1, <2>2
  <2>4. PICK m \in Nat : m = Len(b) /\ n = 1 + m
    BY <1>2, <2>3, JoinedLen
  <2>5. LiesIn(bytes, p + 1, b)
    <3>1. LiesIn(bytes, p, a \o b)
      BY <1>3, <2>3
    <3>2. LiesIn(bytes, p + Len(a), b)
      BY <1>5, <2>3, <3>1, LiesJoined
    <3> QED
      BY <2>3, <3>2
  <2>6. p < body_end /\ (p + 1) + m = p + n
    BY <1>3, <1>5, <2>4
  <2>7. Read(p + 1, body_end).ptr = (p + 1) + m
    <3>1. (p + 1) + Len(b) <= body_end
      BY <1>3, <2>4, <2>6
    <3>2. IsLeb(b, FALSE)
      BY <2>1, <2>2
    <3> QED
      BY <1>5, <2>4, <2>5, <3>1, <3>2, RawRead
  <2>8. ImmediateEnd = Read(p + 1, body_end).ptr
    <3>1. (IF p < body_end THEN p + 1 ELSE p) = p + 1
      BY <2>6
    <3>2. ImmediateEnd = Read(IF p < body_end THEN p + 1 ELSE p, body_end).ptr
      BY <1>1, <1>3, <1>6, <1>9, ArmsDiffer DEF ImmediateEnd
    <3> QED
      BY <3>1, <3>2
  <2> QED
    BY <1>4, <2>6, <2>7, <2>8
<1>10. CASE op \in BlockOps \cup {WASM_OP_I32_CONST}
  <2>1. ReadLeb(bytes, p, body_end, TRUE).ptr = p + n
    <3>1. CASE op = WASM_OP_I32_CONST
      <4>1. IsLeb(j.raw, TRUE)
        BY <1>6, <1>7, <3>1, Zenon DEF WellFormedInstr
      <4> QED
        BY <1>2, <1>3, <1>5, <4>1, RawRead
    <3>2. CASE op \in BlockOps
      <4>1. PICK b \in 0..(Base - 1) : j.raw = <<b>>
        <5>1. \E b \in 0..(Base - 1) : j.raw = <<b>>
          BY <1>6, <1>7, <3>2, Zenon DEF WellFormedInstr
        <5> QED
          BY <5>1, Zenon
      <4>2. n = 1 /\ LiesIn(bytes, p, <<b>>) /\ p + 1 <= body_end
        BY <1>2, <1>3, <4>1
      <4>3. \A signed : ReadLeb(bytes, p, body_end, signed) =
                          [val |-> LebValue(b, 1, signed), ptr |-> p + 1]
        BY <1>5, <4>2, ByteIsRead
      <4>4. ReadLeb(bytes, p, body_end, TRUE) = [val |-> LebValue(b, 1, TRUE), ptr |-> p + 1]
        BY <4>3, Zenon
      <4>5. PICK r : r = ReadLeb(bytes, p, body_end, TRUE)
        OBVIOUS
      <4>6. PICK v : v = LebValue(b, 1, TRUE)
        OBVIOUS
      <4>7. r = [val |-> v, ptr |-> p + 1]
        BY <4>4, <4>5, <4>6, Zenon
      <4>8. r.ptr = p + 1
        BY <4>7
      <4> QED
        BY <4>2, <4>5, <4>8
    <3> QED
      BY <1>10, <3>1, <3>2
  <2>2. ImmediateEnd = ReadLeb(bytes, p, body_end, TRUE).ptr
    BY <1>1, <1>3, <1>6, <1>10, ArmsDiffer DEF ImmediateEnd
  <2> QED
    BY <1>4, <2>1, <2>2
<1>11. CASE op = WASM_OP_CALL_INDIRECT
  <2>1. Read(Read(p, body_end).ptr, body_end).ptr = p + n
    BY <1>1, <1>2, <1>6, <1>11, TableRead
  <2>2. ImmediateEnd = Read(Read(p, body_end).ptr, body_end).ptr
    BY <1>1, <1>3, <1>6, <1>11, ArmsDiffer DEF ImmediateEnd
  <2> QED
    BY <1>4, <2>1, <2>2
<1>12. CASE op = WASM_OP_F64_CONST
  <2>1. n = F64Bytes
    BY <1>2, <1>6, <1>7, <1>12, Zenon DEF WellFormedInstr
  <2>2. ImmediateEnd = p + F64Bytes
    BY <1>1, <1>3, <1>6, <1>12, ArmsDiffer DEF ImmediateEnd
  <2> QED
    BY <1>4, <2>1, <2>2
<1>13. CASE op \notin IndexOps \cup LoadOps \cup StoreOps \cup BlockOps
                     \cup {WASM_OP_I32_CONST, WASM_OP_CALL_INDIRECT, WASM_OP_F64_CONST}
  <2>1. op \in LegalOps \ (IndexOps \cup LoadOps \cup StoreOps \cup ConstOps \cup BlockOps
                             \cup {WASM_OP_CALL_INDIRECT})
    BY <1>6, <1>13 DEF ConstOps
  <2>2. j.raw = <<>>
    BY <1>6, <1>7, <2>1 DEF WellFormedInstr
  <2>3. n = 0
    BY <1>2, <2>2
  <2>4. ImmediateEnd = p
    BY <1>1, <1>3, <1>6, <1>13 DEF ImmediateEnd
  <2> QED
    BY <1>4, <2>3, <2>4
<1> QED
  BY <1>8, <1>9, <1>10, <1>11, <1>12, <1>13

\* What a step writes of an instruction, and where it leaves the pointer.
Passed(j, form) ==
  /\ Emit(InstrBytes(j, "leb4"))
  /\ ptr' = ptr + Len(InstrBytes(j, form))

LEMMA OtherPasses ==
  ASSUME WInv, NEW j, NEW form, InstrHere(j, form), TransformOther
  PROVE  Passed(j, form) /\ ~Refused(j)
<1>1. bytes[ptr] = j.op
  BY Ranges, InstrLies DEF InstrHere
<1>2. j.op \in LegalOps \ (LabelOps \cup {WASM_OP_BR_TABLE}) /\ Verdict = 0
  BY <1>1 DEF TransformOther, AtOpcode
<1>3. PICK s : s = InstrBytes(j, form)
  OBVIOUS
<1>4. ImmediateEnd = ptr + Len(s)
  BY <1>2, <1>3, PlainEnd
<1>5. From(ptr, ptr + Len(s)) = s
  BY <1>3, Ranges, CopyIs DEF InstrHere
<1>6. s = InstrBytes(j, "leb4")
  <2>1. "leb4" \in Forms /\ WellFormedInstr(j) /\ form \in Forms
    BY DEF Forms, InstrHere
  <2>2. \A f \in Forms : InstrBytes(j, f) = <<j.op>> \o j.raw
    BY <1>2, <2>1, PlainParts
  <2> QED
    BY <1>3, <2>1, <2>2
<1>7. Emit(From(ptr, ImmediateEnd)) /\ ptr' = ImmediateEnd
  BY DEF TransformOther
<1>8. Emit(s) /\ ptr' = ptr + Len(s)
  BY <1>4, <1>5, <1>7
<1>9. ~Refused(j)
  BY <1>2, VerdictIs
<1> QED
  BY <1>3, <1>6, <1>8, <1>9 DEF Passed

LEMMA LabelPasses ==
  ASSUME WInv, NEW j, NEW form, InstrHere(j, form), TransformLabel
  PROVE  Passed(j, form) /\ ~Refused(j)
<1>1. bytes[ptr] = j.op /\ LiesIn(bytes, ptr + 1 + Len(CountForm(j, form)), Flat(j, form))
  <2>1. bytes \in Seq(Nat) /\ ptr \in Nat
    BY Ranges
  <2> QED
    BY <2>1, InstrLies DEF InstrHere
<1>2. j.op \in LabelOps /\ WellFormedInstr(j) /\ form \in Forms
  BY <1>1 DEF TransformLabel, AtOpcode, InstrHere
<1>3. PICK l : l = j.labels[1]
  OBVIOUS
<1>4. /\ Len(InstrBytes(j, form)) = 1 + Len(Form(form, l))
      /\ CountForm(j, form) = <<>> /\ Flat(j, form) = Form(form, l) /\ Fits(form, l)
  BY <1>2, <1>3, LabelParts, InstrSeq
<1>5. PICK n \in Nat : n = Len(Form(form, l))
  BY <1>4, FormSeq
<1>6. PICK p \in Nat : p = ptr + 1
  BY Ranges
<1>7. /\ LiesIn(bytes, p, Form(form, l)) /\ ptr + Len(InstrBytes(j, form)) = p + n
      /\ p + n <= body_end
  <2>1. Len(CountForm(j, form)) = 0
    BY <1>4
  <2>2. ptr + 1 + Len(CountForm(j, form)) = p
    BY <1>6, <2>1, Ranges
  <2>3. ptr + (1 + n) = p + n
    BY <1>6, Ranges
  <2>4. ptr + Len(InstrBytes(j, form)) <= body_end
    BY DEF InstrHere
  <2> QED
    BY <1>1, <1>4, <1>5, <2>2, <2>3, <2>4
<1>8. Read(p, body_end) = [val |-> l, ptr |-> p + n]
  BY <1>4, <1>5, <1>7, Ranges, FormRead
<1>9. Emit(<<j.op>> \o EmitLeb4(l)) /\ ptr' = p + n
  <2>1. /\ Emit(<<bytes[ptr]>> \o EmitLeb4(Read(ptr + 1, body_end).val))
        /\ ptr' = Read(ptr + 1, body_end).ptr
    BY DEF TransformLabel
  <2> QED
    BY <1>1, <1>6, <1>8, <2>1
<1>10. InstrBytes(j, "leb4") = <<j.op>> \o EmitLeb4(l)
  <2>1. "leb4" \in Forms
    BY DEF Forms
  <2>2. InstrBytes(j, "leb4") = <<j.op>> \o Form("leb4", l)
    BY <1>2, <1>3, <2>1, LabelParts
  <2> QED
    BY <2>2 DEF Form, EmitLeb4
<1>11. ~Refused(j)
  BY <1>2, BranchRaw
<1> QED
  BY <1>7, <1>9, <1>10, <1>11 DEF Passed

\* Where the labels of a br_table start, if their forms lie one behind the
\* other.
LEMMA LabelsAt ==
  ASSUME bytes \in Seq(Nat), NEW limit \in Nat, NEW form \in Forms, NEW j, WellFormedInstr(j),
         NEW q \in Nat, LiesIn(bytes, q, Flat(j, form)), q + Len(Flat(j, form)) <= limit,
         NEW at, LabelsEqn(at, Len(j.labels), q, limit)
  PROVE  /\ \A i \in 0..Len(j.labels) : at[i] = At(q, LabelForms(j, form), i + 1)
         /\ \A i \in 0..(Len(j.labels) - 1) :
              /\ Read(at[i], limit).val = j.labels[i + 1]
              /\ at[i] < limit
<1> DEFINE s == LabelForms(j, form)
<1>1. PICK n \in Nat : n = Len(j.labels)
  BY LabelsAre
<1>2. /\ Pieces(s, n)
      /\ \A k \in 1..n : s[k] = Form(form, j.labels[k]) /\ Fits(form, j.labels[k])
  BY <1>1, LabelsAre
<1>3. LiesIn(bytes, q, Pre(s, n))
  BY <1>1 DEF Flat
<1> HIDE DEF s
<1>4. \A k \in 1..n : LiesIn(bytes, At(q, s, k), s[k])
  BY <1>2, <1>3, FlatLies
<1>5. Places(q, s, n)
  BY <1>2, PlacesAre
<1>6. /\ At(q, s, 1) = q
      /\ \A k \in 1..(n + 1) : At(q, s, k) \in Nat
      /\ \A k \in 1..n : At(q, s, k + 1) = At(q, s, k) + Len(s[k]) /\ Len(s[k]) \in Nat
  BY <1>5 DEF Places
<1>7. At(q, s, n + 1) <= limit
  BY <1>1, <1>5 DEF Places, Flat, s
<1>8. \A k \in 1..(n + 1) : At(q, s, k) <= limit
  <2>1. \A k \in 1..(n + 1) : At(q, s, k) <= At(q, s, n + 1)
    <3>1. \A k, m \in 1..(n + 1) : k <= m => At(q, s, k) <= At(q, s, m)
      BY <1>2, PlacesOrder
    <3>2. n + 1 \in 1..(n + 1) /\ \A k \in 1..(n + 1) : k <= n + 1
      OBVIOUS
    <3> QED
      BY <3>1, <3>2
  <2> QED
    BY <1>6, <1>7, <2>1
<1>9. ASSUME NEW k \in 1..n
      PROVE  /\ Read(At(q, s, k), limit) = [val |-> j.labels[k], ptr |-> At(q, s, k + 1)]
             /\ At(q, s, k) < limit
  <2>1. PICK a \in Nat, b \in Nat, l \in Nat :
          a = At(q, s, k) /\ b = At(q, s, k + 1) /\ l = Len(s[k]) /\ b = a + l
    BY <1>6
  <2>2. b <= limit
    BY <1>8, <2>1
  <2>3. s[k] = Form(form, j.labels[k]) /\ Fits(form, j.labels[k]) /\ LiesIn(bytes, a, s[k])
    BY <1>2, <1>4, <2>1
  <2>4. l >= 1
    BY <2>1, <2>3, FormSeq
  <2>5. Read(a, limit) = [val |-> j.labels[k], ptr |-> a + l]
    BY <2>1, <2>2, <2>3, FormRead
  <2> QED
    BY <2>1, <2>2, <2>4, <2>5, SMTT(60)
<1>10. /\ at[0] = q
       /\ \A i \in 1..n : at[i] = Read(at[i - 1], limit).ptr
  <2> DEFINE Next1(b) == Read(b, limit).ptr
  <2>1. at = [i \in 0..n |-> IF i = 0 THEN q ELSE Next1(at[i - 1])]
    BY <1>1, Zenon DEF LabelsEqn
  <2> HIDE DEF Next1
  <2>2. \A i \in 0..n : at[i] = IF i = 0 THEN q ELSE Next1(at[i - 1])
    BY <2>1
  <2>3. at[0] = q
    BY <2>2
  <2>4. \A i \in 1..n : at[i] = Next1(at[i - 1])
    BY <2>2
  <2> QED
    BY <2>3, <2>4 DEF Next1
<1> DEFINE T == {i \in 0..n : at[i] = At(q, s, i + 1)}
<1>11. 0 \in T
  BY <1>6, <1>10
<1>12. ASSUME NEW i \in 1..n, i - 1 \in T PROVE i \in T
  <2>1. at[i - 1] = At(q, s, i)
    BY <1>12
  <2>2. at[i] = Read(At(q, s, i), limit).ptr
    BY <1>10, <2>1
  <2>3. at[i] = At(q, s, i + 1)
    BY <1>9, <2>2
  <2> QED
    BY <2>3
<1> HIDE DEF T
<1>13. 0..n \subseteq T
  BY <1>11, <1>12, UpTo
<1>14. \A i \in 0..n : at[i] = At(q, s, i + 1)
  BY <1>13 DEF T
<1>15. ASSUME NEW i \in 0..(n - 1)
       PROVE  Read(at[i], limit).val = j.labels[i + 1] /\ at[i] < limit
  <2>1. i + 1 \in 1..n /\ i \in 0..n
    OBVIOUS
  <2>2. at[i] = At(q, s, i + 1)
    BY <1>14, <2>1
  <2> QED
    BY <1>9, <2>1, <2>2
<1> QED
  BY <1>1, <1>14, <1>15 DEF s
-----------------------------------------------------------------------------
\* br_table has the count of its labels in front of them.
LEMMA TableParts ==
  ASSUME NEW j, WellFormedInstr(j), NEW form \in Forms, j.op = WASM_OP_BR_TABLE
  PROVE  /\ Len(j.labels) - 1 \in Nat /\ Fits(form, Len(j.labels) - 1)
         /\ CountForm(j, form) = Form(form, Len(j.labels) - 1)
         /\ InstrBytes(j, form) = <<j.op>> \o CountForm(j, form) \o Flat(j, form)
         /\ Len(InstrBytes(j, form)) = 1 + Len(CountForm(j, form)) + Len(Flat(j, form))
<1>1. Len(j.labels) - 1 \in Indices
  BY DEF WellFormedInstr
<1>2. Len(j.labels) - 1 \in Nat /\ Fits(form, Len(j.labels) - 1)
  BY <1>1, IndicesFit, IndexFits
<1>3. CountForm(j, form) = Form(form, Len(j.labels) - 1)
  BY DEF CountForm
<1>4. j.raw = <<>>
  BY BranchRaw
<1>5. PICK c, f, a : c = CountForm(j, form) /\ f = Flat(j, form) /\ a = <<j.op>>
  OBVIOUS
<1>6. c \in Seq(Nat) /\ f \in Seq(Nat) /\ a \in Seq(Nat)
  BY <1>5, InstrIs
<1>7. PICK b : b = a \o c
  OBVIOUS
<1>8. PICK d : d = b \o f
  OBVIOUS
<1>9. b \in Seq(Nat)
  BY <1>6, <1>7, JoinedLen
<1>10. d \in Seq(Nat)
  BY <1>6, <1>8, <1>9, JoinedLen
<1>11. InstrBytes(j, form) = d \o <<>>
  BY <1>4, <1>5, <1>7, <1>8, InstrIs
<1>12. InstrBytes(j, form) = d
  BY <1>10, <1>11, EmptyJoin
<1>13. Len(InstrBytes(j, form)) = 1 + Len(c) + Len(f)
  <2>1. InstrSize(j, form) = 1 + Len(c) + Len(f) + 0
    <3>1. Len(<<>>) = 0
      OBVIOUS
    <3> QED
      BY <1>4, <1>5, <3>1 DEF InstrSize
  <2>2. Len(c) \in Nat /\ Len(f) \in Nat
    BY <1>6
  <2> QED
    BY <2>1, <2>2, InstrSeq
<1> QED
  BY <1>2, <1>3, <1>5, <1>7, <1>8, <1>12, <1>13

LEMMA LabelsPass ==
  ASSUME WInv, NEW j, NEW form, InstrHere(j, form), TransformLabels
  PROVE  Passed(j, form) /\ ~Refused(j)
<1> DEFINE count == Read(ptr + 1, body_end)
           m     == count.val + 1
           at    == CHOOSE f : LabelsEqn(f, m, count.ptr, body_end)
           given == {i \in 0..count.val : at[i] < body_end}
           n     == Cardinality(given)
           each  == [i \in 1..n |-> EmitLeb4(Read(at[i - 1], body_end).val)]
<1>1. /\ Emit(<<bytes[ptr]>> \o EmitLeb4(count.val) \o FlattenSeq(each)) /\ ptr' = at[n]
      /\ bytes[ptr] \in {WASM_OP_BR_TABLE}
  BY DEF TransformLabels, AtOpcode, LabelsEqn
<1>2. bytes \in Seq(Nat) /\ ptr \in Nat /\ body_end \in Nat /\ body_end <= end /\ 1 <= ptr
  BY Ranges
<1>3. /\ bytes[ptr] = j.op
      /\ LiesIn(bytes, ptr + 1, CountForm(j, form))
      /\ LiesIn(bytes, ptr + 1 + Len(CountForm(j, form)), Flat(j, form))
  BY <1>2, InstrLies DEF InstrHere
<1>4. j.op = WASM_OP_BR_TABLE /\ WellFormedInstr(j) /\ form \in Forms
  BY <1>1, <1>3 DEF InstrHere
<1>5. PICK c \in Nat : c = Len(j.labels) - 1 /\ Len(j.labels) = c + 1
  <2>1. Len(j.labels) - 1 \in Nat /\ Len(j.labels) \in Nat
    BY <1>4, TableParts, LabelsAre
  <2> QED
    BY <2>1
<1>6. PICK p \in Nat, l \in Nat, r \in Nat :
        p = ptr + 1 /\ l = Len(CountForm(j, form)) /\ r = Len(Flat(j, form))
  <2>1. Len(CountForm(j, form)) \in Nat /\ Len(Flat(j, form)) \in Nat
    BY <1>4, InstrIs
  <2> QED
    BY <1>2, <2>1
<1>7. PICK q \in Nat : q = p + l /\ q + r <= body_end /\ ptr + Len(InstrBytes(j, form)) = q + r
  <2>1. Len(InstrBytes(j, form)) = 1 + l + r
    BY <1>4, <1>6, TableParts
  <2>2. ptr + (1 + l + r) = (p + l) + r
    BY <1>2, <1>6
  <2>3. ptr + Len(InstrBytes(j, form)) <= body_end
    BY DEF InstrHere
  <2> QED
    BY <2>1, <2>2, <2>3
<1>8. Fits(form, c) /\ CountForm(j, form) = Form(form, c)
  BY <1>4, <1>5, TableParts
<1>9. count = [val |-> c, ptr |-> q]
  <2>1. LiesIn(bytes, p, Form(form, c)) /\ p + Len(Form(form, c)) = q
    BY <1>3, <1>6, <1>7, <1>8
  <2>2. q <= body_end
    BY <1>2, <1>7
  <2>3. Read(p, body_end) = [val |-> c, ptr |-> q]
    BY <1>2, <1>8, <2>1, <2>2, FormRead
  <2> QED
    BY <1>6, <2>3
<1>10. count.val = c /\ count.ptr = q /\ m = c + 1
  BY <1>9
<1> HIDE DEF count
<1>11. LabelsEqn(at, Len(j.labels), q, body_end)
  <2>1. q \in 1..body_end
    BY <1>2, <1>6, <1>7
  <2>2. \E f : LabelsEqn(f, c + 1, q, body_end)
    <3>1. PICK d \in Nat : d = c + 1
      OBVIOUS
    <3>2. \E f : LabelsEqn(f, d, q, body_end)
      BY <1>2, <2>1, LabelsIn, ZenonT(60)
    <3> QED
      BY <3>1, <3>2
  <2>3. LabelsEqn(at, m, count.ptr, body_end)
    BY <1>10, <2>2 DEF at
  <2> HIDE DEF at, m
  <2> QED
    BY <1>5, <1>10, <2>3
<1> HIDE DEF at, m
<1>12. LiesIn(bytes, q, Flat(j, form)) /\ q + Len(Flat(j, form)) <= body_end
  <2>1. ptr + 1 + Len(CountForm(j, form)) = q
    BY <1>6, <1>7
  <2> QED
    BY <1>3, <1>6, <1>7, <2>1
<1>13. /\ \A i \in 0..Len(j.labels) : at[i] = At(q, LabelForms(j, form), i + 1)
       /\ \A i \in 0..(Len(j.labels) - 1) :
            /\ Read(at[i], body_end).val = j.labels[i + 1]
            /\ at[i] < body_end
  BY <1>2, <1>4, <1>11, <1>12, LabelsAt
<1>14. n = c + 1
  <2>1. given = 0..c
    BY <1>5, <1>10, <1>13
  <2> HIDE DEF given
  <2>2. Cardinality(0..c) = IF 0 > c THEN 0 ELSE c - 0 + 1
    BY FS_Interval
  <2>3. Cardinality(0..c) = c + 1
    BY <2>2
  <2> QED
    BY <2>1, <2>3
<1> HIDE DEF given, n
<1>15. at[n] = q + r
  <2>1. n \in 0..Len(j.labels)
    BY <1>5, <1>14
  <2>2. at[n] = At(q, LabelForms(j, form), n + 1)
    BY <1>13, <2>1
  <2>3. Places(q, LabelForms(j, form), n)
    BY <1>4, <1>5, <1>14, LabelsAre, PlacesAre
  <2> QED
    BY <1>5, <1>6, <1>14, <2>2, <2>3 DEF Places, Flat
<1>16. each = LabelForms(j, "leb4")
  <2>1. ASSUME NEW k \in 1..n PROVE EmitLeb4(Read(at[k - 1], body_end).val) = LabelForms(j, "leb4")[k]
    <3>1. k - 1 \in 0..(Len(j.labels) - 1) /\ (k - 1) + 1 = k /\ k \in 1..Len(j.labels)
      BY <1>5, <1>14
    <3>2. Read(at[k - 1], body_end).val = j.labels[k]
      BY <1>13, <3>1
    <3>3. LabelForms(j, "leb4")[k] = Form("leb4", j.labels[k])
      BY <3>1 DEF LabelForms
    <3> QED
      BY <3>2, <3>3 DEF Form, EmitLeb4
  <2>2. LabelForms(j, "leb4") = [k \in 1..n |-> LabelForms(j, "leb4")[k]]
    BY <1>5, <1>14 DEF LabelForms
  <2> QED
    BY <2>1, <2>2
<1> HIDE DEF each
<1>17. InstrBytes(j, "leb4") = <<j.op>> \o EmitLeb4(c) \o FlattenSeq(each)
  <2>1. "leb4" \in Forms
    BY DEF Forms
  <2>2. InstrBytes(j, "leb4") = <<j.op>> \o Form("leb4", c) \o Flat(j, "leb4")
    BY <1>4, <1>5, <2>1, TableParts
  <2>3. Flat(j, "leb4") = FlattenSeq(LabelForms(j, "leb4"))
    BY <1>4, <2>1, LabelsAre, PreAll DEF Flat
  <2> QED
    BY <1>16, <2>2, <2>3 DEF Form, EmitLeb4
<1>18. ~Refused(j)
  BY <1>4, BranchRaw
<1> QED
  BY <1>1, <1>3, <1>7, <1>10, <1>15, <1>17, <1>18 DEF Passed
-----------------------------------------------------------------------------
(***************************************************************************)
(* Bodies and sections.                                                    *)
(***************************************************************************)
Instrs(b, form) == [k \in 1..Len(b.code) |-> InstrBytes(b.code[k], form)]

Decls(ds) == [k \in 1..Len(ds) |-> EmitLeb(ds[k].n) \o <<ds[k].type>>]

BodyForms(s, lengths, labels) ==
  [k \in 1..Len(s.bodies) |-> Sized(lengths, BodyData(s.bodies[k], labels))]

Sects(m, lengths, labels) == [k \in 1..Len(m) |-> SectionBytes(m[k], lengths, labels)]

LEMMA SequenceIs ==
  ASSUME NEW s, Sequence(s)
  PROVE  Len(s) \in Nat /\ \A k \in 1..Len(s) : s[k] \in ToSet(s)
BY DEF Sequence

\* A length in front of data, in five bytes whatever it is.
Measured(form, data) == data \in Seq(Nat) /\ (form = "leb5" \/ Fits(form, Len(data)))

LEMMA SizedIs ==
  ASSUME NEW form, NEW data, Measured(form, data)
  PROVE  /\ Form(form, Len(data)) \in Seq(Nat)
         /\ Len(Form(form, Len(data))) \in Nat /\ Len(Form(form, Len(data))) >= 1
         /\ Sized(form, data) = Form(form, Len(data)) \o data
         /\ Sized(form, data) \in Seq(Nat)
         /\ Len(Sized(form, data)) = Len(Form(form, Len(data))) + Len(data)
<1>1. data \in Seq(Nat) /\ Len(data) \in Nat
  BY DEF Measured
<1>2. /\ Form(form, Len(data)) \in Seq(Nat)
      /\ Len(Form(form, Len(data))) \in Nat /\ Len(Form(form, Len(data))) >= 1
  <2>1. CASE Fits(form, Len(data))
    BY <2>1, FormSeq
  <2>2. CASE form = "leb5"
    <3>1. Form(form, Len(data)) = EmitPadded(Len(data), MaxLen)
      BY <2>2 DEF Form
    <3>2. MaxLen \in 1..MaxLen /\ MaxLen \in Nat /\ MaxLen >= 1
      BY Widths
    <3> QED
      BY <1>1, <3>1, <3>2, EmittedIsSeq DEF EmittedSeq
  <2> QED
    BY <2>1, <2>2 DEF Measured
<1>3. Sized(form, data) = Form(form, Len(data)) \o data
  BY DEF Sized
<1>4. PICK f : f = Form(form, Len(data))
  OBVIOUS
<1>5. f \o data \in Seq(Nat) /\ Len(f \o data) = Len(f) + Len(data)
  BY <1>1, <1>2, <1>4, JoinedLen
<1> QED
  BY <1>2, <1>3, <1>4, <1>5

\* The instructions of a body.
LEMMA InstrsAre ==
  ASSUME NEW b, WellFormedBody(b), NEW form \in Forms
  PROVE  /\ Len(b.code) \in Nat /\ Pieces(Instrs(b, form), Len(b.code))
         /\ \A k \in 1..Len(b.code) :
              /\ Instrs(b, form)[k] = InstrBytes(b.code[k], form)
              /\ WellFormedInstr(b.code[k]) /\ b.code[k] \in ToSet(b.code)
<1>1. /\ Len(b.code) \in Nat
      /\ \A k \in 1..Len(b.code) : b.code[k] \in ToSet(b.code) /\ WellFormedInstr(b.code[k])
  BY SequenceIs DEF WellFormedBody
<1>2. \A k \in 1..Len(b.code) : Instrs(b, form)[k] = InstrBytes(b.code[k], form)
  BY DEF Instrs
<1>3. \A k \in 1..Len(b.code) : Instrs(b, form)[k] \in Seq(Nat)
  BY <1>1, <1>2, InstrSeq
<1> QED
  BY <1>1, <1>2, <1>3 DEF Pieces

LEMMA DeclsAre ==
  ASSUME NEW b, WellFormedBody(b)
  PROVE  /\ Len(b.locals) \in Nat /\ Fits("leb", Len(b.locals))
         /\ Pieces(Decls(b.locals), Len(b.locals))
         /\ \A k \in 1..Len(b.locals) :
              /\ Decls(b.locals)[k] = Form("leb", b.locals[k].n) \o <<b.locals[k].type>>
              /\ Fits("leb", b.locals[k].n) /\ b.locals[k].type \in 0..(Base - 1)
              /\ Len(Decls(b.locals)[k]) = Len(Form("leb", b.locals[k].n)) + 1
<1>1. /\ b.locals \in Seq([n : Numbers, type : 0..(Base - 1)]) /\ Len(b.locals) \in Numbers
  BY DEF WellFormedBody
<1>2. Len(b.locals) \in Nat
  BY <1>1
<1>3. \A v \in Numbers : Fits("leb", v)
  BY DEF Fits, Forms
<1>4. \A k \in 1..Len(b.locals) : b.locals[k].n \in Numbers /\ b.locals[k].type \in 0..(Base - 1)
  <2>1. PICK R, ds : R = [n : Numbers, type : 0..(Base - 1)] /\ ds = b.locals
    OBVIOUS
  <2>2. \A k \in 1..Len(ds) : ds[k] \in R
    <3>1. ds \in Seq(R)
      BY <1>1, <2>1, Zenon
    <3> QED
      BY <3>1
  <2>3. \A r \in R : r.n \in Numbers /\ r.type \in 0..(Base - 1)
    BY <2>1
  <2> QED
    BY <2>1, <2>2, <2>3
<1>5. ASSUME NEW k \in 1..Len(b.locals)
      PROVE  /\ Decls(b.locals)[k] = Form("leb", b.locals[k].n) \o <<b.locals[k].type>>
             /\ Decls(b.locals)[k] \in Seq(Nat)
             /\ Len(Decls(b.locals)[k]) = Len(Form("leb", b.locals[k].n)) + 1
  <2>1. Decls(b.locals)[k] = EmitLeb(b.locals[k].n) \o <<b.locals[k].type>>
    BY DEF Decls
  <2>2. EmitLeb(b.locals[k].n) = Form("leb", b.locals[k].n)
    BY DEF Form
  <2>3. Form("leb", b.locals[k].n) \in Seq(Nat)
    BY <1>3, <1>4, FormSeq
  <2>4. b.locals[k].type \in Nat
    BY <1>4, Powers
  <2>5. PICK t : t = <<b.locals[k].type>> /\ t \in Seq(Nat) /\ Len(t) = 1
    <3>1. PICK u \in Nat : u = b.locals[k].type
      BY <2>4
    <3>2. <<u>> \in Seq(Nat) /\ Len(<<u>>) = 1
      OBVIOUS
    <3> QED
      BY <3>1, <3>2
  <2> QED
    BY <2>1, <2>2, <2>3, <2>5, JoinedLen
<1> QED
  BY <1>1, <1>2, <1>3, <1>4, <1>5 DEF Pieces

\* The declarations with their count, and the instructions behind them.
LEMMA LocalsAre ==
  ASSUME NEW b, WellFormedBody(b)
  PROVE  /\ LocalsBytes(b.locals) =
              Form("leb", Len(b.locals)) \o Pre(Decls(b.locals), Len(b.locals))
         /\ Pre(Decls(b.locals), Len(b.locals)) \in Seq(Nat)
         /\ LocalsBytes(b.locals) \in Seq(Nat) /\ Len(LocalsBytes(b.locals)) \in Nat
<1>1. Len(b.locals) \in Nat /\ Fits("leb", Len(b.locals)) /\ Pieces(Decls(b.locals), Len(b.locals))
  BY DeclsAre
<1>2. Decls(b.locals) = [k \in 1..Len(b.locals) |-> Decls(b.locals)[k]]
  BY DEF Decls
<1>3. FlattenSeq(Decls(b.locals)) = Pre(Decls(b.locals), Len(b.locals))
  BY <1>2, PreAll
<1>4. LocalsBytes(b.locals) = EmitLeb(Len(b.locals)) \o FlattenSeq(Decls(b.locals))
  BY DEF LocalsBytes, Decls
<1>5. EmitLeb(Len(b.locals)) = Form("leb", Len(b.locals))
  BY DEF Form
<1>6. Pre(Decls(b.locals), Len(b.locals)) \in Seq(Nat)
  <2>1. Grows(Decls(b.locals), Len(b.locals)) /\ Len(b.locals) \in 0..Len(b.locals)
    BY <1>1, PreGrows
  <2> QED
    BY <2>1 DEF Grows
<1>7. Form("leb", Len(b.locals)) \in Seq(Nat)
  BY <1>1, FormSeq
<1>8. PICK x, y : x = Form("leb", Len(b.locals)) /\ y = Pre(Decls(b.locals), Len(b.locals))
  OBVIOUS
<1>9. LocalsBytes(b.locals) = x \o y
  BY <1>3, <1>4, <1>5, <1>8
<1>10. x \o y \in Seq(Nat)
  BY <1>6, <1>7, <1>8, JoinedLen
<1> QED
  BY <1>6, <1>8, <1>9, <1>10

LEMMA BodyIs ==
  ASSUME NEW b, WellFormedBody(b), NEW form \in Forms
  PROVE  /\ BodyData(b, form) = LocalsBytes(b.locals) \o Pre(Instrs(b, form), Len(b.code))
         /\ Pre(Instrs(b, form), Len(b.code)) \in Seq(Nat)
         /\ BodyData(b, form) \in Seq(Nat) /\ Len(BodyData(b, form)) \in Nat
<1>1. Pieces(Instrs(b, form), Len(b.code)) /\ Len(b.code) \in Nat
  BY InstrsAre
<1>2. Instrs(b, form) = [k \in 1..Len(b.code) |-> Instrs(b, form)[k]]
  BY DEF Instrs
<1>3. FlattenSeq(Instrs(b, form)) = Pre(Instrs(b, form), Len(b.code))
  BY <1>2, PreAll
<1>4. BodyData(b, form) = LocalsBytes(b.locals) \o FlattenSeq(Instrs(b, form))
  BY DEF BodyData, Instrs
<1>5. Pre(Instrs(b, form), Len(b.code)) \in Seq(Nat)
  <2>1. Grows(Instrs(b, form), Len(b.code)) /\ Len(b.code) \in 0..Len(b.code)
    BY <1>1, PreGrows
  <2> QED
    BY <2>1 DEF Grows
<1>6. PICK x, y : x = LocalsBytes(b.locals) /\ y = Pre(Instrs(b, form), Len(b.code))
  OBVIOUS
<1>7. x \o y \in Seq(Nat)
  BY <1>5, <1>6, LocalsAre, JoinedLen
<1> QED
  BY <1>3, <1>4, <1>5, <1>6, <1>7

\* The bodies and the data of a code section.
BodiesMeasured(s, lengths, labels) ==
  \A b \in ToSet(s.bodies) : Measured(lengths, BodyData(b, labels))

LEMMA BodiesAre ==
  ASSUME NEW s, WellFormedSection(s), s.id = WASM_SECT_CODE,
         NEW lengths, NEW labels, BodiesMeasured(s, lengths, labels)
  PROVE  /\ Len(s.bodies) \in Nat /\ Fits("leb", Len(s.bodies))
         /\ Pieces(BodyForms(s, lengths, labels), Len(s.bodies))
         /\ \A k \in 1..Len(s.bodies) :
              /\ BodyForms(s, lengths, labels)[k] = Sized(lengths, BodyData(s.bodies[k], labels))
              /\ s.bodies[k] \in ToSet(s.bodies) /\ WellFormedBody(s.bodies[k])
              /\ Measured(lengths, BodyData(s.bodies[k], labels))
<1>1. /\ Sequence(s.bodies) /\ Len(s.bodies) \in Numbers
      /\ \A b \in ToSet(s.bodies) : WellFormedBody(b)
  BY DEF WellFormedSection
<1>2. /\ Len(s.bodies) \in Nat
      /\ \A k \in 1..Len(s.bodies) : s.bodies[k] \in ToSet(s.bodies)
  BY <1>1, SequenceIs
<1>3. ASSUME NEW k \in 1..Len(s.bodies)
      PROVE  /\ BodyForms(s, lengths, labels)[k] = Sized(lengths, BodyData(s.bodies[k], labels))
             /\ BodyForms(s, lengths, labels)[k] \in Seq(Nat)
             /\ s.bodies[k] \in ToSet(s.bodies) /\ WellFormedBody(s.bodies[k])
             /\ Measured(lengths, BodyData(s.bodies[k], labels))
  <2>1. s.bodies[k] \in ToSet(s.bodies)
    BY <1>2
  <2>2. Measured(lengths, BodyData(s.bodies[k], labels))
    BY <2>1 DEF BodiesMeasured
  <2>3. BodyForms(s, lengths, labels)[k] = Sized(lengths, BodyData(s.bodies[k], labels))
    BY DEF BodyForms
  <2>4. Sized(lengths, BodyData(s.bodies[k], labels)) \in Seq(Nat)
    BY <2>2, SizedIs
  <2> QED
    BY <1>1, <2>1, <2>2, <2>3, <2>4
<1>4. Fits("leb", Len(s.bodies))
  BY <1>1 DEF Fits, Forms
<1> QED
  BY <1>2, <1>3, <1>4 DEF Pieces

LEMMA CodeIs ==
  ASSUME NEW s, WellFormedSection(s), s.id = WASM_SECT_CODE,
         NEW lengths, NEW labels, BodiesMeasured(s, lengths, labels)
  PROVE  /\ CodeData(s, lengths, labels) =
              Form("leb", Len(s.bodies)) \o Pre(BodyForms(s, lengths, labels), Len(s.bodies))
         /\ Form("leb", Len(s.bodies)) \in Seq(Nat)
         /\ Pre(BodyForms(s, lengths, labels), Len(s.bodies)) \in Seq(Nat)
         /\ CodeData(s, lengths, labels) \in Seq(Nat)
<1> DEFINE F == BodyForms(s, lengths, labels)
           n == Len(s.bodies)
<1>1. n \in Nat /\ Fits("leb", n) /\ Pieces(F, n)
  BY BodiesAre
<1>2. F = [k \in 1..n |-> F[k]]
  BY DEF BodyForms
<1>3. CodeData(s, lengths, labels) = EmitLeb(n) \o FlattenSeq(F)
  BY DEF CodeData, BodyForms
<1> HIDE DEF F, n
<1>4. FlattenSeq(F) = Pre(F, n)
  BY <1>2, PreAll
<1>5. EmitLeb(n) = Form("leb", n)
  BY DEF Form
<1>6. Pre(F, n) \in Seq(Nat)
  <2>1. Grows(F, n) /\ n \in 0..n
    BY <1>1, PreGrows
  <2> QED
    BY <2>1 DEF Grows
<1>7. Form("leb", n) \in Seq(Nat)
  BY <1>1, FormSeq
<1>8. PICK x, y : x = Form("leb", n) /\ y = Pre(F, n)
  OBVIOUS
<1>9. CodeData(s, lengths, labels) = x \o y
  BY <1>3, <1>4, <1>5, <1>8
<1>10. x \o y \in Seq(Nat)
  BY <1>6, <1>7, <1>8, JoinedLen
<1> QED
  BY <1>6, <1>7, <1>8, <1>9, <1>10 DEF F, n

\* A section is its code, the length of its data and the data.
SectionParts(s, lengths, labels, form, data) ==
  /\ SectionBytes(s, lengths, labels) = <<s.id>> \o Sized(form, data)
  /\ Measured(form, data) /\ s.id \in Nat
  /\ s.id = WASM_SECT_CODE => form = lengths /\ data = CodeData(s, lengths, labels)
  /\ s.id # WASM_SECT_CODE => Fits(form, Len(data)) /\ SectionBytes(s, lengths, labels) = s.raw

LEMMA PartsExist ==
  ASSUME NEW s, WellFormedSection(s), NEW lengths, NEW labels,
         s.id = WASM_SECT_CODE => Measured(lengths, CodeData(s, lengths, labels))
  PROVE  \E form, data : SectionParts(s, lengths, labels, form, data)
<1>1. CASE s.id = WASM_SECT_CODE
  <2>1. SectionBytes(s, lengths, labels) = <<s.id>> \o Sized(lengths, CodeData(s, lengths, labels))
    BY <1>1 DEF SectionBytes
  <2>2. s.id \in Nat
    BY <1>1 DEF WASM_SECT_CODE
  <2>3. SectionParts(s, lengths, labels, lengths, CodeData(s, lengths, labels))
    BY <1>1, <2>1, <2>2 DEF SectionParts
  <2> QED
    BY <2>3
<1>2. CASE s.id # WASM_SECT_CODE
  <2>1. /\ s.id \in Nat /\ s.raw \in Seq(Nat)
        /\ \E n \in 1..Len(s.raw), form \in Forms \ {"leb4"} :
             /\ s.raw = <<s.id>> \o Sized(form, SubSeq(s.raw, n + 1, Len(s.raw)))
             /\ Len(s.raw) - n \in Numbers
    BY <1>2 DEF WellFormedSection
  <2>2. PICK n \in 1..Len(s.raw), form \in Forms \ {"leb4"} :
          /\ s.raw = <<s.id>> \o Sized(form, SubSeq(s.raw, n + 1, Len(s.raw)))
          /\ Len(s.raw) - n \in Numbers
    BY <2>1, Zenon
  <2>3. PICK data : data = SubSeq(s.raw, n + 1, Len(s.raw))
    OBVIOUS
  <2>4. data \in Seq(Nat) /\ Len(data) = Len(s.raw) - n
    <3>1. PICK r \in Seq(Nat) : r = s.raw
      BY <2>1
    <3>2. PICK l \in Nat : l = Len(r) /\ n \in 1..l
      BY <3>1
    <3>3. data = SubSeq(r, n + 1, l)
      BY <2>3, <3>1, <3>2
    <3>4. \A i \in (n + 1)..l : r[i] \in Nat
      BY <3>2
    <3>5. data \in Seq(Nat) /\ Len(data) = IF n + 1 <= l THEN l - (n + 1) + 1 ELSE 0
      BY <3>2, <3>3, <3>4, SubSeqProperties
    <3>6. Len(data) = l - n
      BY <3>2, <3>5
    <3> QED
      BY <3>1, <3>2, <3>5, <3>6
  <2>5. Fits(form, Len(data))
    BY <2>2, <2>4 DEF Fits
  <2>6. SectionBytes(s, lengths, labels) = s.raw
    BY <1>2 DEF SectionBytes
  <2>7. SectionParts(s, lengths, labels, form, data)
    BY <1>2, <2>1, <2>2, <2>3, <2>4, <2>5, <2>6 DEF SectionParts, Measured
  <2> QED
    BY <2>7
<1> QED
  BY <1>1, <1>2

LEMMA PartsLen ==
  ASSUME NEW s, NEW lengths, NEW labels, NEW form, NEW data,
         SectionParts(s, lengths, labels, form, data)
  PROVE  /\ SectionBytes(s, lengths, labels) \in Seq(Nat)
         /\ Len(SectionBytes(s, lengths, labels)) = 1 + Len(Form(form, Len(data))) + Len(data)
         /\ Len(Form(form, Len(data))) \in Nat /\ Len(Form(form, Len(data))) >= 1
         /\ Len(data) \in Nat
<1>1. PICK x : x = <<s.id>> /\ x \in Seq(Nat) /\ Len(x) = 1
  <2>1. PICK u \in Nat : u = s.id
    BY DEF SectionParts
  <2>2. <<u>> \in Seq(Nat) /\ Len(<<u>>) = 1
    OBVIOUS
  <2> QED
    BY <2>1, <2>2
<1>2. /\ Sized(form, data) \in Seq(Nat)
      /\ Len(Sized(form, data)) = Len(Form(form, Len(data))) + Len(data)
      /\ Len(Form(form, Len(data))) \in Nat /\ Len(Form(form, Len(data))) >= 1
  BY SizedIs DEF SectionParts
<1>3. Len(data) \in Nat
  BY DEF SectionParts, Measured
<1>4. PICK u : u = x \o Sized(form, data)
  OBVIOUS
<1>5. u \in Seq(Nat) /\ Len(u) = 1 + Len(Sized(form, data))
  BY <1>1, <1>2, <1>4, JoinedLen
<1>6. SectionBytes(s, lengths, labels) = u
  BY <1>1, <1>4 DEF SectionParts
<1>7. PICK f \in Nat, d \in Nat : f = Len(Form(form, Len(data))) /\ d = Len(data)
  BY <1>2, <1>3
<1>8. 1 + (f + d) = 1 + f + d
  OBVIOUS
<1> QED
  BY <1>2, <1>3, <1>5, <1>6, <1>7, <1>8
-----------------------------------------------------------------------------
(***************************************************************************)
(* The file and the module it encodes.                                     *)
(***************************************************************************)
module == file.module

\* The file encodes its module with these forms of its lengths and labels.
Valid(lengths, labels) ==
  /\ lengths \in Forms \ {"leb4"} /\ labels \in Forms
  /\ Sequence(module) /\ file.truncated \in BOOLEAN
  /\ \A s \in ToSet(module) : WellFormedSection(s)
  /\ Encoded(file, lengths, labels)

LEMMA ValidExists ==
  ASSUME file \in Files
  PROVE  \E lengths, labels : Valid(lengths, labels)
<1>1. /\ Sequence(module) /\ file.truncated \in BOOLEAN
      /\ \E lengths \in Forms \ {"leb4"}, labels \in Forms : Encoded(file, lengths, labels)
  BY ModulesAssumption DEF module
<1>2. \A s \in ToSet(module) : WellFormedSection(s)
  <2>1. ToSet(module) \in {ToSet(f.module) : f \in Files}
    BY DEF module
  <2> QED
    BY <2>1, ModulesAssumption
<1>3. PICK lengths \in Forms \ {"leb4"}, labels \in Forms : Encoded(file, lengths, labels)
  BY <1>1, Zenon
<1>4. Valid(lengths, labels)
  BY <1>1, <1>2, <1>3 DEF Valid
<1> QED
  BY <1>4

\* The lengths of a section and of its bodies are numbers.
CodeMeasured(s, lengths, labels) ==
  s.id = WASM_SECT_CODE =>
    /\ Measured(lengths, CodeData(s, lengths, labels)) /\ BodiesMeasured(s, lengths, labels)

CodeFits(s, lengths, labels) ==
  s.id = WASM_SECT_CODE =>
    /\ Fits(lengths, Len(CodeData(s, lengths, labels)))
    /\ \A b \in ToSet(s.bodies) : Fits(lengths, Len(BodyData(b, labels)))

\* Five bytes hold any length.
LEMMA PaddedMeasured ==
  ASSUME NEW s, WellFormedSection(s)
  PROVE  CodeMeasured(s, "leb5", "leb4")
<1> SUFFICES ASSUME s.id = WASM_SECT_CODE
             PROVE  /\ Measured("leb5", CodeData(s, "leb5", "leb4"))
                    /\ BodiesMeasured(s, "leb5", "leb4")
  BY DEF CodeMeasured
<1>1. BodiesMeasured(s, "leb5", "leb4")
  <2> SUFFICES ASSUME NEW b \in ToSet(s.bodies) PROVE Measured("leb5", BodyData(b, "leb4"))
    BY DEF BodiesMeasured
  <2>1. WellFormedBody(b) /\ "leb4" \in Forms
    BY DEF WellFormedSection, Forms
  <2> QED
    BY <2>1, BodyIs DEF Measured
<1> QED
  BY <1>1, CodeIs DEF Measured

\* So do those of the file.
LEMMA FileMeasured ==
  ASSUME NEW lengths, NEW labels, Valid(lengths, labels), NEW s \in ToSet(module)
  PROVE  /\ CodeMeasured(s, lengths, labels) /\ CodeFits(s, lengths, labels)
         /\ WellFormedSection(s)
<1>1. WellFormedSection(s) /\ lengths \in Forms /\ lengths # "leb4" /\ labels \in Forms
  BY DEF Valid
<1>2. CASE s.id = WASM_SECT_CODE
  <2>1. /\ Len(CodeData(s, lengths, labels)) \in Numbers
        /\ \A b \in ToSet(s.bodies) : Len(BodyData(b, labels)) \in Numbers
    BY <1>2 DEF Valid, Encoded, module
  <2>2. CodeFits(s, lengths, labels)
    BY <1>1, <2>1 DEF CodeFits, Fits
  <2>3. BodiesMeasured(s, lengths, labels)
    <3> SUFFICES ASSUME NEW b \in ToSet(s.bodies) PROVE Measured(lengths, BodyData(b, labels))
      BY DEF BodiesMeasured
    <3>1. WellFormedBody(b)
      BY <1>1, <1>2 DEF WellFormedSection
    <3>2. Fits(lengths, Len(BodyData(b, labels)))
      BY <1>2, <2>2 DEF CodeFits
    <3> QED
      BY <1>1, <3>1, <3>2, BodyIs DEF Measured
  <2>4. Measured(lengths, CodeData(s, lengths, labels))
    <3>1. CodeData(s, lengths, labels) \in Seq(Nat)
      BY <1>1, <1>2, <2>3, CodeIs
    <3>2. Fits(lengths, Len(CodeData(s, lengths, labels)))
      BY <1>2, <2>2 DEF CodeFits
    <3> QED
      BY <3>1, <3>2 DEF Measured
  <2> QED
    BY <1>1, <2>2, <2>3, <2>4 DEF CodeMeasured
<1>3. CASE s.id # WASM_SECT_CODE
  BY <1>1, <1>3 DEF CodeMeasured, CodeFits
<1> QED
  BY <1>2, <1>3

\* The sections of a module one behind the other.
LEMMA SectsAre ==
  ASSUME NEW m, Sequence(m), \A s \in ToSet(m) : WellFormedSection(s), NEW lengths, NEW labels,
         \A s \in ToSet(m) : CodeMeasured(s, lengths, labels)
  PROVE  /\ Len(m) \in Nat /\ Pieces(Sects(m, lengths, labels), Len(m))
         /\ \A k \in 1..Len(m) :
              /\ Sects(m, lengths, labels)[k] = SectionBytes(m[k], lengths, labels)
              /\ m[k] \in ToSet(m)
              /\ Len(Sects(m, lengths, labels)[k]) \in Nat
              /\ Len(Sects(m, lengths, labels)[k]) >= 2
         /\ Encode(m, lengths, labels) = Header \o Pre(Sects(m, lengths, labels), Len(m))
<1> DEFINE S == Sects(m, lengths, labels)
<1>1. Len(m) \in Nat /\ \A k \in 1..Len(m) : m[k] \in ToSet(m)
  BY SequenceIs
<1>2. ASSUME NEW k \in 1..Len(m)
      PROVE  /\ S[k] = SectionBytes(m[k], lengths, labels)
             /\ S[k] \in Seq(Nat) /\ Len(S[k]) \in Nat /\ Len(S[k]) >= 2
  <2>1. S[k] = SectionBytes(m[k], lengths, labels)
    BY DEF Sects
  <2>2. PICK form, data : SectionParts(m[k], lengths, labels, form, data)
    <3>1. WellFormedSection(m[k])
      BY <1>1
    <3>2. m[k].id = WASM_SECT_CODE => Measured(lengths, CodeData(m[k], lengths, labels))
      BY <1>1 DEF CodeMeasured
    <3> QED
      BY <3>1, <3>2, PartsExist
  <2>3. PICK u : u = SectionBytes(m[k], lengths, labels)
    OBVIOUS
  <2>4. PICK f \in Nat, d \in Nat :
          /\ f = Len(Form(form, Len(data))) /\ d = Len(data) /\ f >= 1
          /\ Len(u) = 1 + f + d /\ u \in Seq(Nat)
    BY <2>2, <2>3, PartsLen
  <2> HIDE DEF S
  <2> QED
    BY <2>1, <2>3, <2>4
<1>3. Encode(m, lengths, labels) = Header \o Pre(S, Len(m))
  <2>1. S = [k \in 1..Len(m) |-> S[k]]
    BY DEF Sects
  <2>2. FlattenSeq(S) = Pre(S, Len(m))
    <3> HIDE DEF S
    <3> QED
      BY <2>1, PreAll
  <2>3. Encode(m, lengths, labels) = Header \o FlattenSeq(S)
    BY DEF Encode, Sects
  <2> QED
    BY <2>2, <2>3
<1> HIDE DEF S
<1> QED
  BY <1>1, <1>2, <1>3 DEF Pieces, S
-----------------------------------------------------------------------------
SecAt(lengths, labels, i) == At(9, Sects(module, lengths, labels), i)

Whole(lengths, labels) == Encode(module, lengths, labels)

LEMMA HeaderSeq == Header \in Seq(Nat) /\ Len(Header) = 8
BY DEF Header

LEMMA PrefixLies ==
  ASSUME NEW w \in Seq(Nat), NEW v \in Seq(Nat), \A k \in 1..Len(v) : v[k] = w[k],
         NEW p, NEW d, LiesIn(w, p, d), p + Len(d) <= Len(v) + 1
  PROVE  LiesIn(v, p, d)
<1>1. PICK l \in Nat, n \in Nat : l = Len(d) /\ n = Len(v)
  BY DEF LiesIn
<1>2. p \in Nat \ {0} /\ d \in Seq(Nat) /\ \A k \in 1..l : w[p + k - 1] = d[k]
  BY <1>1 DEF LiesIn
<1>3. ASSUME NEW k \in 1..l PROVE v[p + k - 1] = d[k]
  <2>1. p + k - 1 \in 1..n
    BY <1>1, <1>2
  <2> QED
    BY <1>1, <1>2, <2>1
<1> QED
  BY <1>1, <1>2, <1>3 DEF LiesIn

\* A sequence lies in itself.
LEMMA LiesWhole ==
  ASSUME NEW w \in Seq(Nat)
  PROVE  LiesIn(w, 1, w)
<1>1. PICK n \in Nat : n = Len(w)
  OBVIOUS
<1>2. \A k \in 1..n : w[1 + k - 1] = w[k]
  OBVIOUS
<1> QED
  BY <1>1, <1>2 DEF LiesIn

FilePlaces(lengths, labels) ==
  LET S == Sects(module, lengths, labels)
      n == Len(module)
  IN /\ n \in Nat /\ Pieces(S, n) /\ Places(9, S, n)
     /\ end <= SecAt(lengths, labels, n + 1)
     /\ ~file.truncated => end = SecAt(lengths, labels, n + 1)
     /\ Whole(lengths, labels) \in Seq(Nat)
     /\ \A k \in 1..Len(bytes) : bytes[k] = Whole(lengths, labels)[k]
     /\ \A k \in 1..n : LiesIn(Whole(lengths, labels), SecAt(lengths, labels, k), S[k])

\* The bytes of the file are the first of the module's.
LEMMA FilePlacesAre ==
  ASSUME bytes \in Seq(Nat), NEW lengths, NEW labels, Valid(lengths, labels)
  PROVE  FilePlaces(lengths, labels) /\ LiesIn(Whole(lengths, labels), 1, Header)
<1> DEFINE S == Sects(module, lengths, labels)
           n == Len(module)
           W == Whole(lengths, labels)
<1>1. /\ n \in Nat /\ Pieces(S, n) /\ W = Header \o Pre(S, n)
  <2>1. Sequence(module) /\ \A s \in ToSet(module) : WellFormedSection(s)
    BY DEF Valid
  <2>2. \A s \in ToSet(module) : CodeMeasured(s, lengths, labels)
    BY FileMeasured
  <2> QED
    BY <2>1, <2>2, SectsAre DEF Whole
<1> HIDE DEF S, n, W
<1>2. Places(9, S, n)
  BY <1>1, PlacesAre
<1>3. PICK f : f = Pre(S, n) /\ f \in Seq(Nat)
  <2>1. Grows(S, n) /\ n \in 0..n
    BY <1>1, PreGrows
  <2> QED
    BY <2>1 DEF Grows
<1>4. PICK l \in Nat : l = Len(f)
  BY <1>3
<1>5. W \in Seq(Nat) /\ Len(W) = 8 + l
  BY <1>1, <1>3, <1>4, HeaderSeq, JoinedLen
<1>6. At(9, S, n + 1) = 9 + l
  BY <1>2, <1>3, <1>4 DEF Places
<1>7. \/ bytes = W
      \/ file.truncated /\ bytes = SubSeq(W, 1, Len(bytes)) /\ Len(bytes) <= Len(W)
  BY Zenon DEF Valid, Encoded, W, Whole, module, bytes
<1>8. PICK e \in Nat : e = Len(bytes) /\ end = e + 1
  BY DEF end
<1>9. /\ e <= 8 + l /\ (~file.truncated => e = 8 + l)
      /\ \A k \in 1..e : bytes[k] = W[k]
  <2>1. CASE bytes = W
    BY <1>5, <1>8, <2>1
  <2>2. CASE file.truncated /\ bytes = SubSeq(W, 1, Len(bytes)) /\ Len(bytes) <= Len(W)
    <3>1. e <= 8 + l /\ bytes = SubSeq(W, 1, e)
      BY <1>5, <1>8, <2>2
    <3>2. ASSUME NEW k \in 1..e PROVE bytes[k] = W[k]
      <4>1. PICK s : s = SubSeq(W, 1, e)
        OBVIOUS
      <4>2. s[k] = W[k]
        BY <1>5, <3>1, <4>1
      <4> QED
        BY <3>1, <4>1, <4>2
    <3> QED
      BY <2>2, <3>1, <3>2
  <2> QED
    BY <1>7, <2>1, <2>2
<1>10. LiesIn(W, 1, Header) /\ LiesIn(W, 9, f)
  <2>1. LiesIn(W, 1, Header \o f)
    BY <1>1, <1>3, <1>5, LiesWhole
  <2>2. PICK o \in Nat : o = 1
    OBVIOUS
  <2>3. LiesIn(W, o, Header) /\ LiesIn(W, o + Len(Header), f)
    BY <1>3, <1>5, <2>1, <2>2, HeaderSeq, LiesJoined
  <2>4. o + Len(Header) = 9
    BY <2>2, HeaderSeq
  <2> QED
    BY <2>2, <2>3, <2>4
<1>11. \A k \in 1..n : LiesIn(W, At(9, S, k), S[k])
  BY <1>1, <1>3, <1>5, <1>10, FlatLies
<1>12. end <= SecAt(lengths, labels, n + 1)
       /\ (~file.truncated => end = SecAt(lengths, labels, n + 1))
  BY <1>6, <1>8, <1>9 DEF SecAt, S
<1> QED
  BY <1>1, <1>2, <1>5, <1>8, <1>9, <1>10, <1>11, <1>12, Zenon DEF FilePlaces, SecAt, S, n, W

\* The places of the sections.
LEMMA SecPlaces ==
  ASSUME bytes \in Seq(Nat), NEW lengths, NEW labels, Valid(lengths, labels)
  PROVE  /\ Len(module) \in Nat /\ SecAt(lengths, labels, 1) = 9
         /\ \A k \in 1..(Len(module) + 1) : SecAt(lengths, labels, k) \in Nat
         /\ \A k \in 1..Len(module) :
              /\ Len(SectionBytes(module[k], lengths, labels)) \in Nat
              /\ SecAt(lengths, labels, k + 1) =
                   SecAt(lengths, labels, k) + Len(SectionBytes(module[k], lengths, labels))
         /\ \A k \in 1..(Len(module) + 1) :
              SecAt(lengths, labels, k) <= SecAt(lengths, labels, Len(module) + 1)
         /\ \A k \in 1..Len(module) :
              SecAt(lengths, labels, k + 1) <= end =>
                LiesIn(bytes, SecAt(lengths, labels, k), SectionBytes(module[k], lengths, labels))
<1> DEFINE S == Sects(module, lengths, labels)
           W == Whole(lengths, labels)
<1>1. PICK n \in Nat : n = Len(module)
  BY FilePlacesAre DEF FilePlaces
<1>2. /\ Pieces(S, n) /\ Places(9, S, n) /\ W \in Seq(Nat)
      /\ \A k \in 1..Len(bytes) : bytes[k] = W[k]
      /\ \A k \in 1..n : LiesIn(W, At(9, S, k), S[k])
  BY <1>1, FilePlacesAre DEF FilePlaces, SecAt
<1>3. \A k \in 1..n : S[k] = SectionBytes(module[k], lengths, labels)
  BY <1>1 DEF Sects
<1>4. \A k : SecAt(lengths, labels, k) = At(9, S, k)
  BY DEF SecAt
<1> HIDE DEF S, W
<1>5. /\ At(9, S, 1) = 9
      /\ \A k \in 1..(n + 1) : At(9, S, k) \in Nat
      /\ \A k \in 1..n : At(9, S, k + 1) = At(9, S, k) + Len(S[k]) /\ Len(S[k]) \in Nat
  BY <1>2 DEF Places
<1>6. \A k \in 1..(n + 1) : At(9, S, k) <= At(9, S, n + 1)
  <2>1. \A j, k \in 1..(n + 1) : j <= k => At(9, S, j) <= At(9, S, k)
    BY <1>2, PlacesOrder
  <2>2. n + 1 \in 1..(n + 1) /\ \A k \in 1..(n + 1) : k <= n + 1
    OBVIOUS
  <2> QED
    BY <2>1, <2>2
<1>7. ASSUME NEW k \in 1..n, At(9, S, k + 1) <= end PROVE LiesIn(bytes, At(9, S, k), S[k])
  <2>1. PICK a \in Nat, l \in Nat : a = At(9, S, k) /\ l = Len(S[k]) /\ At(9, S, k + 1) = a + l
    BY <1>5
  <2>2. a + l <= Len(bytes) + 1
    BY <1>7, <2>1 DEF end
  <2> QED
    BY <1>2, <2>1, <2>2, PrefixLies
<1> QED
  BY <1>1, <1>3, <1>4, <1>5, <1>6, <1>7
-----------------------------------------------------------------------------
(***************************************************************************)
(* The steps outside of bodies.                                            *)
(***************************************************************************)
LEMMA SubSeqIs ==
  ASSUME NEW s \in Seq(Nat), NEW p \in Nat, NEW q \in Nat, 1 <= p, p <= q + 1, q <= Len(s)
  PROVE  /\ SubSeq(s, p, q) \in Seq(Nat) /\ Len(SubSeq(s, p, q)) = q + 1 - p
         /\ \A k \in 1..(q + 1 - p) : SubSeq(s, p, q)[k] = s[p + k - 1]
<1>1. \A i \in p..q : s[i] \in Nat
  OBVIOUS
<1>2. PICK t : t = SubSeq(s, p, q)
  OBVIOUS
<1>3. /\ t \in Seq(Nat) /\ Len(t) = IF p <= q THEN q - p + 1 ELSE 0
      /\ \A i \in 1..(q - p + 1) : t[i] = s[p + i - 1]
  BY <1>1, <1>2, SubSeqProperties
<1>4. q - p + 1 = q + 1 - p
  OBVIOUS
<1>5. Len(t) = q + 1 - p
  BY <1>3, <1>4
<1> QED
  BY <1>2, <1>3, <1>4, <1>5

Entered == Emit(Header) /\ ptr' = 9 /\ phase' = "section"

\* The header of a whole module is accepted.
LEMMA HeaderRead ==
  ASSUME WInv, NEW lengths, NEW labels, Valid(lengths, labels), CheckHeader
  PROVE  Entered \/ (file.truncated /\ phase' = "returned")
<1>1. Entered \/ phase' = "returned"
  BY DEF CheckHeader, Entered, Return
<1>2. ASSUME ~file.truncated PROVE Entered
  <2>1. /\ bytes \in Seq(Nat) /\ LiesIn(Whole(lengths, labels), 1, Header)
        /\ Whole(lengths, labels) \in Seq(Nat) /\ Len(bytes) \in Nat
        /\ \A k \in 1..Len(bytes) : bytes[k] = Whole(lengths, labels)[k]
    BY Ranges, FilePlacesAre DEF FilePlaces
  <2>2. PICK e \in Nat : e = end /\ e >= 9 /\ e = Len(bytes) + 1
    <3>1. end = SecAt(lengths, labels, Len(module) + 1)
      BY <1>2, <2>1, FilePlacesAre DEF FilePlaces
    <3>2. PICK n \in Nat : n = Len(module)
      BY <2>1, SecPlaces
    <3>3. 1 \in 1..(n + 1) /\ SecAt(lengths, labels, 1) = 9
      BY <2>1, SecPlaces
    <3>4. 9 <= end
      <4>1. SecAt(lengths, labels, 1) <= SecAt(lengths, labels, Len(module) + 1)
        BY <2>1, <3>2, <3>3, SecPlaces
      <4> QED
        BY <3>1, <3>3, <4>1
    <3> QED
      BY <2>1, <3>4, Ranges
  <2>3. LiesIn(bytes, 1, Header)
    <3>1. 1 + Len(Header) <= Len(bytes) + 1
      BY <2>2, HeaderSeq
    <3> QED
      BY <2>1, <3>1, PrefixLies
  <2>4. PICK a, b : a = SubSeq(Header, 1, 4) /\ b = SubSeq(Header, 5, 8)
    OBVIOUS
  <2>5. /\ a \in Seq(Nat) /\ Len(a) = 4 /\ \A k \in 1..4 : a[k] = Header[k]
        /\ b \in Seq(Nat) /\ Len(b) = 4 /\ \A k \in 1..4 : b[k] = Header[4 + k]
    <3>1. PICK h \in Seq(Nat) : h = Header /\ Len(h) = 8
      BY HeaderSeq
    <3>2. a \in Seq(Nat) /\ Len(a) = 4 /\ \A k \in 1..4 : a[k] = h[1 + k - 1]
      <4>1. PICK x \in Nat, y \in Nat : x = 1 /\ y = 4 /\ y + 1 - x = 4
        OBVIOUS
      <4>2. /\ SubSeq(h, x, y) \in Seq(Nat) /\ Len(SubSeq(h, x, y)) = y + 1 - x
            /\ \A k \in 1..(y + 1 - x) : SubSeq(h, x, y)[k] = h[x + k - 1]
        <5>1. 1 <= x /\ x <= y + 1 /\ y <= Len(h)
          BY <3>1, <4>1
        <5> QED
          BY <5>1, SubSeqIs
      <4>3. a = SubSeq(h, x, y)
        BY <2>4, <3>1, <4>1
      <4> QED
        BY <4>1, <4>2, <4>3
    <3>3. b \in Seq(Nat) /\ Len(b) = 4 /\ \A k \in 1..4 : b[k] = h[5 + k - 1]
      <4>1. PICK x \in Nat, y \in Nat : x = 5 /\ y = 8 /\ y + 1 - x = 4
        OBVIOUS
      <4>2. /\ SubSeq(h, x, y) \in Seq(Nat) /\ Len(SubSeq(h, x, y)) = y + 1 - x
            /\ \A k \in 1..(y + 1 - x) : SubSeq(h, x, y)[k] = h[x + k - 1]
        <5>1. 1 <= x /\ x <= y + 1 /\ y <= Len(h)
          BY <3>1, <4>1
        <5> QED
          BY <5>1, SubSeqIs
      <4>3. b = SubSeq(h, x, y)
        BY <2>4, <3>1, <4>1
      <4> QED
        BY <4>1, <4>2, <4>3
    <3>4. \A k \in 1..4 : 1 + k - 1 = k /\ 5 + k - 1 = 4 + k
      OBVIOUS
    <3> QED
      BY <3>1, <3>2, <3>3, <3>4
  <2>6. LiesIn(bytes, 1, a) /\ LiesIn(bytes, 5, b)
    <3>1. /\ 1 + 8 <= Len(bytes) + 1
          /\ \A k \in 1..8 : bytes[1 + k - 1] = Header[k]
      BY <2>3, HeaderSeq DEF LiesIn
    <3>2. \A k \in 1..4 : bytes[1 + k - 1] = a[k]
      BY <2>5, <3>1
    <3>3. ASSUME NEW k \in 1..4 PROVE bytes[5 + k - 1] = b[k]
      <4>1. PICK n \in Nat : n = 4 + k /\ n \in 1..8 /\ 5 + k - 1 = 1 + n - 1
        OBVIOUS
      <4> QED
        BY <2>5, <3>1, <4>1
    <3> QED
      BY <2>1, <2>5, <3>1, <3>2, <3>3 DEF LiesIn
  <2>7. From(1, 5) = a /\ From(5, 9) = b
    <3>1. From(1, 1 + Len(a)) = a
      BY <2>1, <2>6, CopyIs
    <3>2. From(5, 5 + Len(b)) = b
      BY <2>1, <2>6, CopyIs
    <3> QED
      BY <2>5, <3>1, <3>2
  <2>8. From(1, 1) \o a = a
    <3>1. From(1, 1) = SubSeq(bytes, 1, 1 - 1)
      BY DEF From
    <3>2. From(1, 1) = <<>>
      BY <2>1, <3>1
    <3> QED
      BY <2>5, <3>2, EmptyJoin
  <2>9. ~(end <= 4 \/ From(1, 5) # From(1, 1) \o SubSeq(Header, 1, 4))
    <3>1. ~(end <= 4)
      BY <2>2
    <3>2. From(1, 5) = From(1, 1) \o SubSeq(Header, 1, 4)
      BY <2>4, <2>7, <2>8, Zenon
    <3> QED
      BY <3>1, <3>2, Zenon
  <2>10. ~(end <= 8 \/ From(5, 9) # SubSeq(Header, 5, 8))
    BY <2>2, <2>4, <2>7
  <2> QED
    BY <2>9, <2>10, Zenon DEF CheckHeader, Entered
<1>3. file.truncated \in BOOLEAN
  BY DEF Valid
<1> QED
  BY <1>1, <1>2, <1>3

\* The bodies of a code section lie in the file from q on.
BodiesLie(s, lengths, labels, q) ==
  q \in Nat \ {0} /\ LiesIn(bytes, q, Pre(BodyForms(s, lengths, labels), Len(s.bodies)))

BodyAt(s, lengths, labels, q, k) == At(q, BodyForms(s, lengths, labels), k)

\* What NextSection can make of the i-th section.
GivenUp == file.truncated /\ phase' = "returned"

LostIn == file.truncated /\ ptr' = end

CopiedSection(lengths, labels, i) ==
  /\ phase' = "section" /\ module[i].id # WASM_SECT_CODE
  /\ \/ LostIn
     \/ /\ Emit(SectionBytes(module[i], lengths, labels))
        /\ ptr' = SecAt(lengths, labels, i + 1)

OpenedCode(lengths, labels, i) ==
  /\ phase' = "code" /\ module[i].id = WASM_SECT_CODE
  /\ \/ LostIn /\ section_end' = end /\ bodies' = 0
     \/ /\ Emit(<<WASM_SECT_CODE>> \o EmitLeb5(0) \o Form("leb", Len(module[i].bodies)))
        /\ bodies' = Len(module[i].bodies) /\ before' = pos + 1
        /\ section_end' = SecAt(lengths, labels, i + 1) /\ section_end' <= end
        /\ \E q : /\ BodiesLie(module[i], lengths, labels, q) /\ ptr' = q
                  /\ section_end' = BodyAt(module[i], lengths, labels, q, Len(module[i].bodies) + 1)
-----------------------------------------------------------------------------
\* What NextSection reads as the length of the section.
SectLen == Read(ptr + 1, end)

\* A section at hand: its parts, and where they lie in the module.
SectHere(lengths, labels, i, form, data) ==
  /\ i \in 1..Len(module) /\ ptr = SecAt(lengths, labels, i) /\ ptr < end
  /\ SectionParts(module[i], lengths, labels, form, data) /\ Fits(form, Len(data))

LEMMA SectExists ==
  ASSUME WInv, NEW lengths, NEW labels, Valid(lengths, labels), NEW i \in 1..(Len(module) + 1),
         ptr = SecAt(lengths, labels, i), ptr < end
  PROVE  \E form, data : SectHere(lengths, labels, i, form, data)
<1>1. PICK n \in Nat : n = Len(module)
  BY Ranges, SecPlaces
<1>2. i # n + 1
  <2>1. end <= SecAt(lengths, labels, n + 1)
    BY <1>1, Ranges, FilePlacesAre DEF FilePlaces
  <2> QED
    BY <2>1, Ranges
<1>3. i \in 1..n
  BY <1>1, <1>2
<1>4. /\ module[i] \in ToSet(module) /\ WellFormedSection(module[i])
      /\ CodeMeasured(module[i], lengths, labels) /\ CodeFits(module[i], lengths, labels)
  <2>1. module[i] \in ToSet(module)
    BY <1>1, <1>3, SequenceIs DEF Valid
  <2> QED
    BY <2>1, FileMeasured
<1>5. PICK form, data : SectionParts(module[i], lengths, labels, form, data)
  BY <1>4, PartsExist DEF CodeMeasured
<1>6. Fits(form, Len(data))
  BY <1>4, <1>5 DEF SectionParts, CodeFits
<1> QED
  BY <1>1, <1>3, <1>5, <1>6 DEF SectHere

SectPlaces(lengths, labels, i, form, data, f, d) ==
  /\ f \in Nat /\ d \in Nat /\ f = Len(Form(form, Len(data))) /\ d = Len(data) /\ f >= 1
  /\ SecAt(lengths, labels, i + 1) = ptr + 1 + f + d
  /\ bytes[ptr] = module[i].id
  /\ LiesIn(Whole(lengths, labels), ptr + 1, Form(form, d))
  /\ LiesIn(Whole(lengths, labels), ptr + 1 + f, data)
  /\ (SecAt(lengths, labels, i + 1) > end => file.truncated)

LEMMA SectPlacesAre ==
  ASSUME WInv, NEW lengths, NEW labels, Valid(lengths, labels), NEW i, NEW form, NEW data,
         SectHere(lengths, labels, i, form, data)
  PROVE  \E f, d : SectPlaces(lengths, labels, i, form, data, f, d)
<1> DEFINE W == Whole(lengths, labels)
           s == module[i]
<1>1. PICK n \in Nat : n = Len(module) /\ i \in 1..n
  BY Ranges, SecPlaces DEF SectHere
<1>2. /\ SectionParts(s, lengths, labels, form, data)
      /\ ptr = SecAt(lengths, labels, i) /\ ptr < end
  BY DEF SectHere
<1>3. PICK f \in Nat, d \in Nat :
        /\ f = Len(Form(form, Len(data))) /\ d = Len(data) /\ f >= 1
        /\ Len(SectionBytes(s, lengths, labels)) = 1 + f + d
  BY <1>2, PartsLen
<1>4. SecAt(lengths, labels, i + 1) = ptr + 1 + f + d
  <2>1. SecAt(lengths, labels, i + 1) =
          SecAt(lengths, labels, i) + Len(SectionBytes(s, lengths, labels))
    BY <1>1, Ranges, SecPlaces
  <2>2. ptr + (1 + f + d) = ptr + 1 + f + d
    BY Ranges
  <2> QED
    BY <1>2, <1>3, <2>1, <2>2
<1>5. /\ W \in Seq(Nat) /\ \A k \in 1..Len(bytes) : bytes[k] = W[k]
      /\ LiesIn(W, ptr, SectionBytes(s, lengths, labels))
      /\ ~file.truncated => end = SecAt(lengths, labels, n + 1)
  <2>1. FilePlaces(lengths, labels)
    BY Ranges, FilePlacesAre
  <2>2. Sects(module, lengths, labels)[i] = SectionBytes(s, lengths, labels)
    BY <1>1 DEF Sects
  <2> QED
    BY <1>1, <1>2, <2>1, <2>2 DEF FilePlaces
<1> HIDE DEF W
<1>6. PICK x, y, z : /\ x = <<s.id>> /\ x \in Seq(Nat) /\ Len(x) = 1 /\ x[1] = s.id
                     /\ y = Form(form, d) /\ z = data /\ y \in Seq(Nat) /\ z \in Seq(Nat)
                     /\ Len(y) = f
  <2>1. PICK u \in Nat : u = s.id
    BY <1>2 DEF SectionParts
  <2>2. <<u>> \in Seq(Nat) /\ Len(<<u>>) = 1 /\ <<u>>[1] = u
    OBVIOUS
  <2>3. Form(form, d) \in Seq(Nat) /\ data \in Seq(Nat)
    BY <1>2, <1>3, SizedIs DEF SectionParts, Measured
  <2> QED
    BY <1>3, <2>1, <2>2, <2>3
<1>7. PICK v : v = y \o z
  OBVIOUS
<1>8. v \in Seq(Nat)
  BY <1>6, <1>7, JoinedLen
<1>9. SectionBytes(s, lengths, labels) = x \o v
  <2>1. Sized(form, data) = v
    BY <1>2, <1>3, <1>6, <1>7, SizedIs DEF SectionParts
  <2> QED
    BY <1>2, <1>6, <2>1 DEF SectionParts
<1>10. LiesIn(W, ptr, x) /\ LiesIn(W, ptr + Len(x), v)
  <2>1. LiesIn(W, ptr, x \o v)
    BY <1>5, <1>9
  <2>2. ptr \in Nat
    BY Ranges
  <2> QED
    BY <1>5, <1>6, <1>8, <2>1, <2>2, LiesJoined, ZenonT(60)
<1>11. PICK p \in Nat : p = ptr + 1 /\ p = ptr + Len(x)
  BY <1>6, Ranges
<1>12. LiesIn(W, p, y) /\ LiesIn(W, p + Len(y), z)
  <2>1. LiesIn(W, p, y \o z)
    BY <1>7, <1>10, <1>11
  <2> QED
    BY <1>5, <1>6, <2>1, LiesJoined
<1>13. bytes[ptr] = s.id
  <2>1. ptr \in 1..Len(bytes)
    BY <1>2, Ranges
  <2>2. 1 \in 1..Len(x) /\ ptr + 1 - 1 = ptr
    BY <1>6, Ranges
  <2>3. W[ptr] = x[1]
    BY <1>10, <2>2 DEF LiesIn
  <2> QED
    BY <1>5, <1>6, <2>1, <2>3
<1>14. ASSUME SecAt(lengths, labels, i + 1) > end, ~file.truncated PROVE FALSE
  <2>1. i + 1 \in 1..(n + 1)
    BY <1>1
  <2>2. /\ SecAt(lengths, labels, i + 1) <= SecAt(lengths, labels, n + 1)
        /\ SecAt(lengths, labels, i + 1) \in Nat
    BY <1>1, <2>1, Ranges, SecPlaces
  <2> QED
    BY <1>5, <1>14, <2>2, Ranges
<1>15. SectPlaces(lengths, labels, i, form, data, f, d)
  BY <1>3, <1>4, <1>6, <1>11, <1>12, <1>13, <1>14 DEF SectPlaces, W
<1> QED
  BY <1>15

\* A length the file ends in is none, and nothing is left behind it.
LEMMA CutLength ==
  ASSUME WInv, NEW lengths, NEW labels, Valid(lengths, labels), NEW i, NEW form, NEW data,
         SectHere(lengths, labels, i, form, data),
         NEW f, NEW d, SectPlaces(lengths, labels, i, form, data, f, d), ptr + 1 + f > end
  PROVE  SectLen = [val |-> 0, ptr |-> end] /\ file.truncated
<1>1. /\ f \in Nat /\ d \in Nat /\ f = Len(Form(form, d)) /\ d = Len(data)
      /\ SecAt(lengths, labels, i + 1) = ptr + 1 + f + d
      /\ LiesIn(Whole(lengths, labels), ptr + 1, Form(form, d))
      /\ (SecAt(lengths, labels, i + 1) > end => file.truncated)
  BY DEF SectPlaces
<1>2. PICK p \in Nat, e \in Nat : p = ptr + 1 /\ e = end /\ p <= e /\ p + f > e
  BY <1>1, Ranges DEF SectHere
<1>3. file.truncated
  <2>1. ptr + 1 + f + d = p + f + d
    BY <1>2
  <2>2. p + f + d > e
    BY <1>1, <1>2
  <2> QED
    BY <1>1, <1>2, <2>1, <2>2
<1>4. Fits(form, d)
  BY <1>1 DEF SectHere
<1>5. ASSUME NEW x \in p..(e - 1) PROVE bytes[x] = Form(form, d)[x - p + 1]
  <2>1. PICK k \in Nat : k = x - p + 1 /\ k \in 1..f /\ p + k - 1 = x
    <3>1. f \in Nat /\ x \in Int /\ p <= x /\ x <= e - 1 /\ p + f > e
      BY <1>1, <1>2
    <3>2. PICK k \in Nat : k = x - p + 1
      BY <3>1
    <3>3. k \in 1..f /\ p + k - 1 = x
      BY <3>1, <3>2
    <3> QED
      BY <3>2, <3>3
  <2>2. x \in 1..Len(bytes)
    BY <1>2, Ranges
  <2>3. bytes[x] = Whole(lengths, labels)[x]
    BY <2>2, Ranges, FilePlacesAre DEF FilePlaces
  <2>4. Whole(lengths, labels)[p + k - 1] = Form(form, d)[k]
    BY <1>1, <1>2, <2>1 DEF LiesIn
  <2> QED
    BY <2>1, <2>3, <2>4
<1>6. \A signed : ReadLeb(bytes, p, e, signed) = [val |-> 0, ptr |-> e]
  <2>1. bytes \in Seq(Nat) /\ p + Len(Form(form, d)) > e /\ p <= e
    BY <1>1, <1>2, Ranges
  <2> QED
    BY <1>4, <1>5, <2>1, CutIsRead
<1>7. ReadLeb(bytes, p, e, FALSE) = [val |-> 0, ptr |-> e]
  BY <1>6, Zenon
<1> QED
  BY <1>2, <1>3, <1>7 DEF SectLen, Read

\* Otherwise it is read.
LEMMA LengthRead ==
  ASSUME WInv, NEW lengths, NEW labels, Valid(lengths, labels), NEW i, NEW form, NEW data,
         SectHere(lengths, labels, i, form, data),
         NEW f, NEW d, SectPlaces(lengths, labels, i, form, data, f, d), ptr + 1 + f <= end
  PROVE  SectLen = [val |-> d, ptr |-> ptr + 1 + f]
<1>1. /\ f \in Nat /\ d \in Nat /\ f = Len(Form(form, d)) /\ d = Len(data)
      /\ LiesIn(Whole(lengths, labels), ptr + 1, Form(form, d))
  BY DEF SectPlaces
<1>2. PICK p \in Nat, e \in Nat : p = ptr + 1 /\ e = end /\ p + f <= e /\ e = Len(bytes) + 1
  BY <1>1, Ranges
<1>3. LiesIn(bytes, p, Form(form, d))
  <2>1. /\ Whole(lengths, labels) \in Seq(Nat) /\ bytes \in Seq(Nat)
        /\ \A k \in 1..Len(bytes) : bytes[k] = Whole(lengths, labels)[k]
    BY Ranges, FilePlacesAre DEF FilePlaces
  <2>2. LiesIn(Whole(lengths, labels), p, Form(form, d)) /\ p + Len(Form(form, d)) <= Len(bytes) + 1
    BY <1>1, <1>2
  <2> QED
    BY <2>1, <2>2, PrefixLies
<1>4. Fits(form, d)
  BY <1>1 DEF SectHere
<1>5. Read(p, e) = [val |-> d, ptr |-> p + f]
  BY <1>1, <1>2, <1>3, <1>4, Ranges, FormRead, SMTT(60)
<1> QED
  BY <1>2, <1>5 DEF SectLen
-----------------------------------------------------------------------------
\* NextSection, by what it read.
SectionStep(lp, st) ==
  /\ st > end => phase' = "returned"
  /\ st <= end /\ bytes[ptr] # WASM_SECT_CODE =>
       Emit(From(ptr, st)) /\ ptr' = st /\ phase' = "section"
  /\ st <= end /\ bytes[ptr] = WASM_SECT_CODE =>
       /\ Emit(<<WASM_SECT_CODE>> \o EmitLeb5(0) \o EmitLeb(Read(lp, st).val))
       /\ before' = pos + 1 /\ bodies' = Read(lp, st).val /\ section_end' = st
       /\ ptr' = Read(lp, st).ptr /\ phase' = "code"

LEMMA SectionStepIs ==
  ASSUME WInv, NextSection, NEW v \in Nat, NEW lp \in Nat, SectLen = [val |-> v, ptr |-> lp],
         NEW st \in Nat, st = lp + v
  PROVE  SectionStep(lp, st)
<1> DEFINE len  == Read(ptr + 1, end)
           stop == len.ptr + len.val
<1>1. lp = len.ptr /\ st = stop
  <2>1. len = [val |-> v, ptr |-> lp]
    BY DEF SectLen
  <2> HIDE DEF len
  <2> QED
    BY <2>1
<1>2. phase = "section"
  BY DEF NextSection
<1>3. CASE st > end
  <2>1. Return(-4)
    <3>1. ~(st <= end)
      BY <1>3, Ranges
    <3> QED
      BY <1>1, <1>3, <3>1 DEF NextSection
  <2>2. ~(st <= end)
    BY <1>3, Ranges
  <2> QED
    BY <2>1, <2>2 DEF Return, SectionStep
<1>4. CASE st <= end
  <2>1. ~(st > end)
    BY <1>4, Ranges
  <2>2. CASE bytes[ptr] # WASM_SECT_CODE
    <3>1. Emit(From(ptr, st)) /\ ptr' = st /\ UNCHANGED phase
      BY <1>1, <1>4, <2>1, <2>2 DEF NextSection
    <3> QED
      BY <1>2, <2>1, <2>2, <3>1 DEF SectionStep
  <2>3. CASE bytes[ptr] = WASM_SECT_CODE
    <3>1. /\ Emit(<<WASM_SECT_CODE>> \o EmitLeb5(0) \o EmitLeb(Read(lp, st).val))
          /\ before' = pos + 1 /\ bodies' = Read(lp, st).val /\ section_end' = st
          /\ ptr' = Read(lp, st).ptr /\ phase' = "code"
      BY <1>1, <1>4, <2>1, <2>3 DEF NextSection
    <3> QED
      BY <2>1, <2>3, <3>1 DEF SectionStep
  <2> QED
    BY <2>2, <2>3
<1> QED
  BY <1>3, <1>4, Ranges

\* Where the data of a code section lies.
LEMMA CodeLies ==
  ASSUME bytes \in Seq(Nat), NEW s, WellFormedSection(s), s.id = WASM_SECT_CODE,
         NEW lengths, NEW labels, BodiesMeasured(s, lengths, labels),
         NEW a \in Nat, LiesIn(bytes, a, CodeData(s, lengths, labels)),
         NEW stop \in Nat, stop = a + Len(CodeData(s, lengths, labels)), stop <= end
  PROVE  \E q : /\ Read(a, stop) = [val |-> Len(s.bodies), ptr |-> q]
                /\ BodiesLie(s, lengths, labels, q)
                /\ stop = BodyAt(s, lengths, labels, q, Len(s.bodies) + 1)
<1>1. PICK n \in Nat : n = Len(s.bodies)
  BY BodiesAre
<1>2. PICK F : F = BodyForms(s, lengths, labels)
  OBVIOUS
<1>3. Fits("leb", n) /\ Pieces(F, n)
  BY <1>1, <1>2, BodiesAre
<1>4. PICK x, y : x = Form("leb", n) /\ y = Pre(F, n)
  OBVIOUS
<1>5. CodeData(s, lengths, labels) = x \o y /\ x \in Seq(Nat) /\ y \in Seq(Nat)
  BY <1>1, <1>2, <1>4, CodeIs
<1>6. LiesIn(bytes, a, x) /\ LiesIn(bytes, a + Len(x), y)
  <2>1. LiesIn(bytes, a, x \o y)
    BY <1>5
  <2> QED
    BY <1>5, <2>1, LiesJoined
<1>7. PICK l \in Nat, m \in Nat : l = Len(x) /\ m = Len(y) /\ stop = a + (l + m)
  <2>1. Len(x) \in Nat /\ Len(y) \in Nat /\ Len(x \o y) = Len(x) + Len(y)
    BY <1>5, JoinedLen
  <2> QED
    BY <1>5, <2>1
<1>8. PICK q \in Nat : q = a + l /\ q <= stop /\ stop = q + m /\ q >= 1
  <2>1. a >= 1
    BY <1>6 DEF LiesIn
  <2> QED
    BY <1>7, <2>1
<1>9. Read(a, stop) = [val |-> n, ptr |-> q]
  BY <1>3, <1>4, <1>6, <1>7, <1>8, FormRead
<1>10. stop = At(q, F, n + 1)
  <2>1. Places(q, F, n)
    BY <1>3, PlacesAre
  <2> QED
    BY <1>4, <1>7, <1>8, <2>1 DEF Places
<1>11. BodiesLie(s, lengths, labels, q)
  BY <1>1, <1>2, <1>4, <1>6, <1>7, <1>8 DEF BodiesLie
<1>12. stop = BodyAt(s, lengths, labels, q, n + 1)
  BY <1>2, <1>10 DEF BodyAt
<1>13. Read(a, stop) = [val |-> Len(s.bodies), ptr |-> q]
  BY <1>1, <1>9
<1>14. stop = BodyAt(s, lengths, labels, q, Len(s.bodies) + 1)
  BY <1>1, <1>12
<1> QED
  BY <1>11, <1>13, <1>14

LEMMA SectionRead ==
  ASSUME WInv, NEW lengths, NEW labels, Valid(lengths, labels), NEW i \in 1..(Len(module) + 1),
         ptr = SecAt(lengths, labels, i), NextSection
  PROVE  /\ i \in 1..Len(module)
         /\ GivenUp \/ CopiedSection(lengths, labels, i) \/ OpenedCode(lengths, labels, i)
<1> DEFINE s == module[i]
<1>1. ptr < end
  BY DEF NextSection
<1>2. PICK form, data : SectHere(lengths, labels, i, form, data)
  BY <1>1, SectExists
<1>3. PICK f, d : SectPlaces(lengths, labels, i, form, data, f, d)
  BY <1>2, SectPlacesAre
<1>4. /\ i \in 1..Len(module) /\ ptr = SecAt(lengths, labels, i) /\ ptr < end
      /\ SectionParts(s, lengths, labels, form, data)
  BY <1>2 DEF SectHere
<1>5. /\ f \in Nat /\ d \in Nat /\ d = Len(data) /\ bytes[ptr] = s.id
      /\ SecAt(lengths, labels, i + 1) = ptr + 1 + f + d
      /\ (SecAt(lengths, labels, i + 1) > end => file.truncated)
  BY <1>3 DEF SectPlaces
<1>6. PICK e \in Nat, p \in Nat : e = end /\ p = ptr
  BY Ranges
<1>7. s \in ToSet(module) /\ WellFormedSection(s) /\ CodeMeasured(s, lengths, labels)
  <2>1. s \in ToSet(module)
    BY <1>4, SequenceIs DEF Valid
  <2> QED
    BY <2>1, FileMeasured
<1>8. CASE ptr + 1 + f > end
  <2>1. SectLen = [val |-> 0, ptr |-> end] /\ file.truncated
    BY <1>2, <1>3, <1>8, CutLength
  <2>2. SectionStep(e, e)
    <3>1. PICK z \in Nat : z = 0 /\ e = e + z
      OBVIOUS
    <3> QED
      BY <1>6, <2>1, <3>1, SectionStepIs
  <2>3. e <= end
    BY <1>6
  <2>4. CASE s.id # WASM_SECT_CODE
    <3>1. ptr' = end /\ phase' = "section"
      BY <1>5, <1>6, <2>2, <2>3, <2>4 DEF SectionStep
    <3> QED
      BY <1>4, <2>1, <2>4, <3>1 DEF CopiedSection, LostIn
  <2>5. CASE s.id = WASM_SECT_CODE
    <3>1. ReadLeb(bytes, e, e, FALSE) = [val |-> 0, ptr |-> e]
      <4>1. e >= e
        OBVIOUS
      <4>2. \A signed : ReadLeb(bytes, e, e, signed) = [val |-> 0, ptr |-> e]
        BY <4>1, ReadAtEnd
      <4> QED
        BY <4>2, Zenon
    <3>2. PICK r : r = Read(e, e)
      OBVIOUS
    <3>3. r = [val |-> 0, ptr |-> e]
      BY <3>1, <3>2 DEF Read
    <3>4. bodies' = r.val /\ section_end' = e /\ ptr' = r.ptr /\ phase' = "code"
      BY <1>5, <2>2, <2>3, <2>5, <3>2 DEF SectionStep
    <3> QED
      BY <1>4, <1>6, <2>1, <2>5, <3>3, <3>4 DEF OpenedCode, LostIn
  <2> QED
    BY <2>4, <2>5
<1>9. CASE ~(ptr + 1 + f > end)
  <2>1. SectLen = [val |-> d, ptr |-> ptr + 1 + f]
    <3>1. ptr + 1 + f <= end
      BY <1>5, <1>6, <1>9
    <3> QED
      BY <1>2, <1>3, <3>1, LengthRead
  <2>2. PICK lp \in Nat, st \in Nat :
          lp = ptr + 1 + f /\ st = lp + d /\ st = SecAt(lengths, labels, i + 1)
    <3>1. ptr + 1 + f \in Nat /\ ptr + 1 + f + d \in Nat
      BY <1>5, <1>6
    <3> QED
      BY <1>5, <3>1
  <2>3. SectionStep(lp, st)
    BY <1>5, <2>1, <2>2, SectionStepIs
  <2>4. CASE st > end
    BY <1>4, <1>5, <2>2, <2>3, <2>4 DEF SectionStep, GivenUp
  <2>5. CASE st <= end
    <3>1. LiesIn(bytes, ptr, SectionBytes(s, lengths, labels))
      BY <1>4, <2>2, <2>5, Ranges, SecPlaces
    <3>2. st = ptr + Len(SectionBytes(s, lengths, labels))
      BY <1>4, <2>2, Ranges, SecPlaces
    <3>3. CASE s.id # WASM_SECT_CODE
      <4>1. Emit(From(ptr, st)) /\ ptr' = st /\ phase' = "section"
        BY <1>5, <2>3, <2>5, <3>3 DEF SectionStep
      <4>2. From(ptr, st) = SectionBytes(s, lengths, labels)
        BY <3>1, <3>2, Ranges, CopyIs
      <4> QED
        BY <1>4, <2>2, <3>3, <4>1, <4>2 DEF CopiedSection
    <3>4. CASE s.id = WASM_SECT_CODE
      <4>1. data = CodeData(s, lengths, labels)
        BY <1>4, <3>4 DEF SectionParts
      <4>2. LiesIn(bytes, lp, data)
        <5>1. LiesIn(Whole(lengths, labels), lp, data)
          BY <1>3, <2>2 DEF SectPlaces
        <5>2. lp + Len(data) <= Len(bytes) + 1
          BY <1>5, <2>2, <2>5, Ranges
        <5>3. /\ Whole(lengths, labels) \in Seq(Nat)
              /\ \A k \in 1..Len(bytes) : bytes[k] = Whole(lengths, labels)[k]
          BY Ranges, FilePlacesAre DEF FilePlaces
        <5> QED
          BY <5>1, <5>2, <5>3, Ranges, PrefixLies
      <4>3. PICK q : /\ Read(lp, st) = [val |-> Len(s.bodies), ptr |-> q]
                     /\ BodiesLie(s, lengths, labels, q)
                     /\ st = BodyAt(s, lengths, labels, q, Len(s.bodies) + 1)
        <5>1. BodiesMeasured(s, lengths, labels) /\ st = lp + Len(CodeData(s, lengths, labels))
          BY <1>5, <1>7, <2>2, <3>4, <4>1 DEF CodeMeasured
        <5>2. LiesIn(bytes, lp, CodeData(s, lengths, labels)) /\ bytes \in Seq(Nat)
          BY <4>1, <4>2, Ranges
        <5>3. lp \in Nat /\ st \in Nat
          OBVIOUS
        <5>4. WellFormedSection(s)
          BY <1>7
        <5> HIDE DEF s
        <5> QED
          BY <5>4, <2>5, <3>4, <5>1, <5>2, <5>3, CodeLies
      <4>4. /\ Emit(<<WASM_SECT_CODE>> \o EmitLeb5(0) \o EmitLeb(Read(lp, st).val))
            /\ before' = pos + 1 /\ bodies' = Read(lp, st).val /\ section_end' = st
            /\ ptr' = Read(lp, st).ptr /\ phase' = "code"
        BY <1>5, <2>3, <2>5, <3>4 DEF SectionStep
      <4>5. Read(lp, st).val = Len(s.bodies) /\ Read(lp, st).ptr = q
        BY <4>3
      <4>6. EmitLeb(Len(s.bodies)) = Form("leb", Len(s.bodies))
        BY DEF Form
      <4> QED
        BY <1>4, <2>2, <2>5, <3>4, <4>3, <4>4, <4>5, <4>6 DEF OpenedCode
    <3> QED
      BY <3>3, <3>4
  <2> QED
    BY <1>6, <2>2, <2>4, <2>5
<1> QED
  BY <1>8, <1>9
-----------------------------------------------------------------------------
DeclBytes(n, type) == Form("leb", n) \o <<type>>

\* A declaration is read to its end.
LEMMA DeclRead ==
  ASSUME bytes \in Seq(Nat), NEW n, Fits("leb", n), NEW type \in 0..(Base - 1),
         NEW a \in Nat, LiesIn(bytes, a, DeclBytes(n, type)),
         NEW limit \in Nat, a + Len(DeclBytes(n, type)) <= limit
  PROVE  NextDecl(a, limit) = a + Len(DeclBytes(n, type))
<1>d. PICK d : d = DeclBytes(n, type)
  OBVIOUS
<1>1. PICK x : x = Form("leb", n)
  OBVIOUS
<1>2. PICK y : y = <<type>>
  OBVIOUS
<1>3. x \in Seq(Nat) /\ y \in Seq(Nat) /\ Len(y) = 1
  <2>1. type \in Nat
    BY Powers
  <2> QED
    BY <1>1, <1>2, <2>1, FormSeq
<1>4. LiesIn(bytes, a, x) /\ LiesIn(bytes, a + Len(x), y)
  <2>1. LiesIn(bytes, a, x \o y)
    BY <1>1, <1>2 DEF DeclBytes
  <2> QED
    BY <1>3, <2>1, LiesJoined
<1>5. PICK l \in Nat : l = Len(x) /\ Len(d) = l + 1
  BY <1>1, <1>2, <1>3, <1>d, JoinedLen DEF DeclBytes
<1>6. PICK c \in Nat : c = a + l /\ c + 1 <= limit /\ a + Len(d) = c + 1
  <2>1. PICK e \in Nat : e = Len(d) /\ e = l + 1
    BY <1>5
  <2>2. a + e <= limit
    BY <1>d, <2>1
  <2>3. a + e = (a + l) + 1 /\ a + l \in Nat
    <3>1. \A i, j, k \in Nat : k = j + 1 => i + k = (i + j) + 1 /\ i + j \in Nat
      OBVIOUS
    <3> QED
      BY <2>1, <3>1
  <2> QED
    BY <2>1, <2>2, <2>3
<1>7. Read(a, limit) = [val |-> n, ptr |-> c]
  <2>1. c <= limit
    BY <1>6
  <2> QED
    BY <1>1, <1>4, <1>5, <1>6, <2>1, FormRead
<1>8. ReadLeb(bytes, c, limit, TRUE).ptr = c + 1
  <2>1. LiesIn(bytes, c, <<type>>)
    BY <1>2, <1>4, <1>5, <1>6
  <2>2. \A signed : ReadLeb(bytes, c, limit, signed).ptr = c + 1
    BY <1>6, <2>1, ByteIsRead
  <2> QED
    BY <2>2, Zenon
<1>9. Read(a, limit).ptr = c
  BY <1>7
<1> QED
  BY <1>d, <1>6, <1>8, <1>9, Zenon DEF NextDecl

\* So are all of them.
LEMMA DeclsRead ==
  ASSUME bytes \in Seq(Nat), NEW limit \in Nat, limit <= end, NEW b, WellFormedBody(b),
         NEW q \in Nat, LiesIn(bytes, q, Pre(Decls(b.locals), Len(b.locals))),
         q + Len(Pre(Decls(b.locals), Len(b.locals))) <= limit
  PROVE  LocalsEnd(q, Len(b.locals), limit) = q + Len(Pre(Decls(b.locals), Len(b.locals)))
<1> DEFINE s == Decls(b.locals)
<1>1. PICK n \in Nat : n = Len(b.locals)
  BY DeclsAre
<1>2. /\ Pieces(s, n)
      /\ \A k \in 1..n :
           /\ s[k] = DeclBytes(b.locals[k].n, b.locals[k].type)
           /\ Fits("leb", b.locals[k].n) /\ b.locals[k].type \in 0..(Base - 1)
  BY <1>1, DeclsAre DEF DeclBytes
<1>3. LiesIn(bytes, q, Pre(s, n)) /\ q + Len(Pre(s, n)) <= limit
  BY <1>1
<1> HIDE DEF s
<1>4. \A k \in 1..n : LiesIn(bytes, At(q, s, k), s[k])
  BY <1>2, <1>3, FlatLies
<1>5. Places(q, s, n)
  BY <1>2, PlacesAre
<1>6. /\ At(q, s, 1) = q
      /\ \A k \in 1..(n + 1) : At(q, s, k) \in Nat
      /\ \A k \in 1..n : At(q, s, k + 1) = At(q, s, k) + Len(s[k]) /\ Len(s[k]) \in Nat
      /\ At(q, s, n + 1) = q + Len(Pre(s, n))
  BY <1>5 DEF Places
<1>7. \A k \in 1..(n + 1) : At(q, s, k) <= limit
  <2>1. \A k \in 1..(n + 1) : At(q, s, k) <= At(q, s, n + 1)
    <3>1. \A k, m \in 1..(n + 1) : k <= m => At(q, s, k) <= At(q, s, m)
      BY <1>2, PlacesOrder
    <3>2. n + 1 \in 1..(n + 1) /\ \A k \in 1..(n + 1) : k <= n + 1
      OBVIOUS
    <3> QED
      BY <3>1, <3>2
  <2> QED
    BY <1>3, <1>6, <2>1
<1>8. ASSUME NEW k \in 1..n
      PROVE  NextDecl(At(q, s, k), limit) = At(q, s, k + 1)
  <2>1. PICK a \in Nat, c \in Nat, l \in Nat :
          a = At(q, s, k) /\ c = At(q, s, k + 1) /\ l = Len(s[k]) /\ c = a + l
    <3>1. k \in 1..(n + 1) /\ k + 1 \in 1..(n + 1)
      OBVIOUS
    <3>2. At(q, s, k) \in Nat /\ At(q, s, k + 1) \in Nat /\ Len(s[k]) \in Nat
      BY <1>6, <3>1
    <3> QED
      BY <1>6, <3>2
  <2>2. c <= limit
    BY <1>7, <2>1
  <2>5. PICK type \in 0..(Base - 1) : type = b.locals[k].type
    BY <1>2, Zenon
  <2>3. PICK d, m : d = s[k] /\ m = b.locals[k].n
    OBVIOUS
  <2>4. /\ d = DeclBytes(m, type) /\ Fits("leb", m) /\ type \in 0..(Base - 1)
        /\ LiesIn(bytes, a, d)
    BY <1>2, <1>4, <2>1, <2>3, <2>5
  <2>7. NextDecl(a, limit) = a + Len(d)
    <3>1. a + Len(d) <= limit
      BY <2>1, <2>2, <2>3
    <3>2. Fits("leb", m) /\ type \in 0..(Base - 1)
      BY <2>4
    <3>3. d = DeclBytes(m, type) /\ LiesIn(bytes, a, DeclBytes(m, type))
      BY <2>4
    <3>4. bytes \in Seq(Nat) /\ a \in Nat /\ limit \in Nat
      BY <2>1
    <3>5. a + Len(DeclBytes(m, type)) <= limit
      BY <3>1, <3>3
    <3>6. NextDecl(a, limit) = a + Len(DeclBytes(m, type))
      BY <3>2, <3>3, <3>4, <3>5, DeclRead
    <3> QED
      BY <3>3, <3>6
  <2> QED
    BY <2>1, <2>3, <2>7
<1>9. PICK f : DeclsEqn(f, n, q, limit) /\ LocalsEnd(q, n, limit) = f[n]
  <2>1. q \in 1..limit
    <3>1. Len(Pre(s, n)) \in Nat
      BY <1>3 DEF LiesIn
    <3> QED
      BY <1>3, <3>1 DEF LiesIn
  <2> QED
    BY <2>1, LocalsEndIn
<1>10. f[0] = q /\ \A k \in 1..n : f[k] = NextDecl(f[k - 1], limit)
  BY <1>9, DeclsEqnIs
<1> DEFINE T == {k \in 0..n : f[k] = At(q, s, k + 1)}
<1>11. 0 \in T
  BY <1>6, <1>10
<1>12. ASSUME NEW k \in 1..n, k - 1 \in T PROVE k \in T
  <2>1. f[k - 1] = At(q, s, k)
    BY <1>12
  <2>2. f[k] = NextDecl(At(q, s, k), limit)
    BY <1>10, <2>1
  <2>3. f[k] = At(q, s, k + 1)
    BY <1>8, <2>2
  <2> QED
    BY <2>3
<1> HIDE DEF T
<1>13. 0..n \subseteq T
  BY <1>11, <1>12, UpTo
<1>14. f[n] = At(q, s, n + 1)
  BY <1>13 DEF T
<1> QED
  BY <1>1, <1>6, <1>9, <1>14 DEF s

\* NextBody, by what it read.
BodyStep(lp, limit, start) ==
  /\ Emit(EmitLeb5(0) \o From(lp, start))
  /\ body_before' = pos /\ body_end' = limit /\ ptr' = start
  /\ start = LocalsEnd(Read(lp, limit).ptr, Read(lp, limit).val, limit)

LEMMA BodyStepIs ==
  ASSUME NextBody, NEW v, NEW lp, Read(ptr, section_end) = [val |-> v, ptr |-> lp]
  PROVE  \E start : BodyStep(lp, lp + v, start)
<1> DEFINE len   == Read(ptr, section_end)
           count == Read(len.ptr, len.ptr + len.val)
           start == LocalsEnd(count.ptr, count.val, len.ptr + len.val)
<1>1. /\ Emit(EmitLeb5(0) \o From(len.ptr, start))
      /\ body_before' = pos /\ body_end' = len.ptr + len.val /\ ptr' = start
  BY DEF NextBody
<1>2. len.ptr = lp /\ len.val = v
  OBVIOUS
<1>3. count = Read(lp, lp + v)
  BY <1>2
<1>4. start = LocalsEnd(Read(lp, lp + v).ptr, Read(lp, lp + v).val, lp + v)
  BY <1>2, <1>3
<1> HIDE DEF len, count, start
<1> QED
  BY <1>1, <1>2, <1>4 DEF BodyStep

\* What NextBody makes of a body that lies at the pointer: its instructions
\* lie where it goes on.
OpenedBody(b, labels, stop) ==
  /\ Emit(EmitLeb5(0) \o LocalsBytes(b.locals))
  /\ body_before' = pos /\ body_end' = stop
  /\ ptr' \in Nat \ {0}
  /\ LiesIn(bytes, ptr', Pre(Instrs(b, labels), Len(b.code)))
  /\ stop = At(ptr', Instrs(b, labels), Len(b.code) + 1)
-----------------------------------------------------------------------------
\* Where the parts of a body lie.
LEMMA BodyParts ==
  ASSUME bytes \in Seq(Nat), NEW b, WellFormedBody(b), NEW labels \in Forms,
         NEW lp \in Nat, LiesIn(bytes, lp, BodyData(b, labels)),
         NEW stop \in Nat, stop = lp + Len(BodyData(b, labels)), stop <= end
  PROVE  \E start \in Nat \ {0} :
           /\ LocalsEnd(Read(lp, stop).ptr, Read(lp, stop).val, stop) = start
           /\ From(lp, start) = LocalsBytes(b.locals)
           /\ LiesIn(bytes, start, Pre(Instrs(b, labels), Len(b.code)))
           /\ stop = At(start, Instrs(b, labels), Len(b.code) + 1)
<1>1. PICK n : n = Len(b.locals)
  OBVIOUS
<1>2. PICK x, y, z, u : /\ x = Form("leb", n) /\ y = Pre(Decls(b.locals), n)
                        /\ z = Pre(Instrs(b, labels), Len(b.code)) /\ u = LocalsBytes(b.locals)
  OBVIOUS
<1>3. /\ u = x \o y /\ x \in Seq(Nat) /\ y \in Seq(Nat) /\ u \in Seq(Nat)
      /\ Fits("leb", n)
  BY <1>1, <1>2, LocalsAre, DeclsAre, FormSeq
<1>4. BodyData(b, labels) = u \o z /\ z \in Seq(Nat)
  BY <1>2, BodyIs
<1>5. LiesIn(bytes, lp, u) /\ LiesIn(bytes, lp + Len(u), z)
  <2>1. LiesIn(bytes, lp, u \o z)
    BY <1>4
  <2> QED
    BY <1>3, <1>4, <2>1, LiesJoined
<1>6. LiesIn(bytes, lp, x) /\ LiesIn(bytes, lp + Len(x), y)
  <2>1. LiesIn(bytes, lp, x \o y)
    BY <1>3, <1>5
  <2> QED
    BY <1>3, <2>1, LiesJoined
<1>7. PICK i \in Nat, j \in Nat, k \in Nat :
        /\ i = Len(x) /\ j = Len(y) /\ k = Len(z) /\ Len(u) = i + j
        /\ stop = lp + ((i + j) + k)
  <2>1. Len(u) = Len(x) + Len(y) /\ Len(x) \in Nat /\ Len(y) \in Nat
    BY <1>3, JoinedLen
  <2>2. Len(u \o z) = Len(u) + Len(z) /\ Len(z) \in Nat
    BY <1>3, <1>4, JoinedLen
  <2> QED
    BY <1>4, <2>1, <2>2
<1>8. PICK c \in Nat, start \in Nat \ {0} :
        /\ c = lp + i /\ start = c + j /\ start = lp + Len(u)
        /\ c <= stop /\ start <= stop /\ stop = start + k
  <2>1. lp >= 1
    BY <1>5 DEF LiesIn
  <2>2. PICK c \in Nat, v \in Nat : c = lp + i /\ v = c + j
    OBVIOUS
  <2>3. v \in Nat \ {0} /\ v = lp + (i + j) /\ stop = v + k
    BY <1>7, <2>1, <2>2
  <2>4. v = lp + Len(u)
    BY <1>7, <2>3
  <2>5. c <= stop /\ v <= stop
    BY <2>2, <2>3
  <2> QED
    BY <2>2, <2>3, <2>4, <2>5
<1>9. Read(lp, stop) = [val |-> n, ptr |-> c]
  <2>1. lp + Len(Form("leb", n)) <= stop /\ lp + Len(Form("leb", n)) = c
    BY <1>2, <1>7, <1>8
  <2>2. LiesIn(bytes, lp, Form("leb", n))
    BY <1>2, <1>6
  <2>3. Read(lp, stop) = [val |-> n, ptr |-> lp + Len(Form("leb", n))]
    BY <1>3, <2>1, <2>2, FormRead
  <2> QED
    BY <2>1, <2>3
<1>10. LocalsEnd(c, n, stop) = start
  <2>1. LiesIn(bytes, c, Pre(Decls(b.locals), Len(b.locals)))
    BY <1>1, <1>2, <1>6, <1>7, <1>8
  <2>2. /\ c + Len(Pre(Decls(b.locals), Len(b.locals))) = start
        /\ c + Len(Pre(Decls(b.locals), Len(b.locals))) <= stop
    BY <1>1, <1>2, <1>7, <1>8
  <2>3. LocalsEnd(c, Len(b.locals), stop) = c + Len(Pre(Decls(b.locals), Len(b.locals)))
    BY <2>1, <2>2, DeclsRead
  <2> QED
    BY <1>1, <2>2, <2>3
<1>11. LocalsEnd(Read(lp, stop).ptr, Read(lp, stop).val, stop) = start
  <2>1. Read(lp, stop).ptr = c /\ Read(lp, stop).val = n
    BY <1>9
  <2> QED
    BY <1>10, <2>1, Zenon
<1>12. From(lp, start) = u
  BY <1>5, <1>8, CopyIs
<1>13. stop = At(start, Instrs(b, labels), Len(b.code) + 1)
  <2>1. PICK s : s = Instrs(b, labels)
    OBVIOUS
  <2>4. PICK m \in Nat : m = Len(b.code)
    BY InstrsAre
  <2>2. Pieces(s, m)
    BY <2>1, <2>4, InstrsAre
  <2>3. At(start, s, m + 1) = start + Len(Pre(s, m))
    BY <2>2, PlacesAre DEF Places
  <2> QED
    BY <1>2, <1>7, <1>8, <2>1, <2>3, <2>4
<1>14. LiesIn(bytes, start, z)
  BY <1>5, <1>8
<1> QED
  BY <1>2, <1>8, <1>11, <1>12, <1>13, <1>14

\* A body that lies at the pointer is opened.
LEMMA BodyRead ==
  ASSUME WInv, NEW b, WellFormedBody(b), NEW labels \in Forms, NEW lengths,
         Fits(lengths, Len(BodyData(b, labels))),
         LiesIn(bytes, ptr, Sized(lengths, BodyData(b, labels))),
         NEW stop \in Nat, stop = ptr + Len(Sized(lengths, BodyData(b, labels))),
         stop <= section_end, NextBody
  PROVE  OpenedBody(b, labels, stop)
<1>1. PICK d, x : d = BodyData(b, labels) /\ x = Form(lengths, Len(d))
  OBVIOUS
<1>2. d \in Seq(Nat) /\ x \in Seq(Nat) /\ Sized(lengths, d) = x \o d
  BY <1>1, BodyIs, FormSeq DEF Sized
<1>3. PICK i \in Nat, k \in Nat : i = Len(x) /\ k = Len(d) /\ stop = ptr + (i + k)
  <2>1. Len(x \o d) = Len(x) + Len(d) /\ Len(x) \in Nat /\ Len(d) \in Nat
    BY <1>2, JoinedLen
  <2> QED
    BY <1>1, <1>2, <2>1
<1>4. bytes \in Seq(Nat) /\ ptr \in Nat /\ section_end \in Nat /\ section_end <= end /\ end \in Nat
  BY Ranges
<1>5. LiesIn(bytes, ptr, x) /\ LiesIn(bytes, ptr + Len(x), d)
  <2>1. LiesIn(bytes, ptr, x \o d)
    BY <1>1, <1>2
  <2> QED
    BY <1>2, <1>4, <2>1, LiesJoined
<1>6. PICK lp \in Nat : lp = ptr + i /\ lp <= section_end /\ stop = lp + k
  BY <1>3, <1>4
<1>7. Read(ptr, section_end) = [val |-> k, ptr |-> lp]
  <2>1. ptr + Len(Form(lengths, k)) = lp /\ ptr + Len(Form(lengths, k)) <= section_end
    BY <1>1, <1>3, <1>6
  <2>2. LiesIn(bytes, ptr, Form(lengths, k)) /\ Fits(lengths, k)
    BY <1>1, <1>3, <1>5
  <2>3. Read(ptr, section_end) = [val |-> k, ptr |-> ptr + Len(Form(lengths, k))]
    BY <1>4, <2>1, <2>2, FormRead
  <2> QED
    BY <2>1, <2>3
<1>8. PICK start : BodyStep(lp, stop, start)
  <2>1. \E start : BodyStep(lp, lp + k, start)
    BY <1>7, BodyStepIs
  <2> QED
    BY <1>6, <2>1
<1>9. PICK q \in Nat \ {0} :
        /\ LocalsEnd(Read(lp, stop).ptr, Read(lp, stop).val, stop) = q
        /\ From(lp, q) = LocalsBytes(b.locals)
        /\ LiesIn(bytes, q, Pre(Instrs(b, labels), Len(b.code)))
        /\ stop = At(q, Instrs(b, labels), Len(b.code) + 1)
  <2>1. LiesIn(bytes, lp, BodyData(b, labels)) /\ stop = lp + Len(BodyData(b, labels))
    BY <1>1, <1>3, <1>5, <1>6
  <2>2. stop <= end
    BY <1>4
  <2> QED
    BY <1>4, <2>1, <2>2, BodyParts
<1>10. start = q
  BY <1>8, <1>9 DEF BodyStep
<1> QED
  BY <1>8, <1>9, <1>10, Zenon DEF BodyStep, OpenedBody
-----------------------------------------------------------------------------
(***************************************************************************)
(* What is written.                                                        *)
(***************************************************************************)
written == SubSeq(out, 1, pos)

\* The first of two pieces put together.
LEMMA PrefixIs ==
  ASSUME NEW s \in Seq(Nat), NEW t \in Seq(Nat), NEW n \in Nat, n = Len(s)
  PROVE  SubSeq(s \o t, 1, n) = s
<1>1. PICK u : u = s \o t
  OBVIOUS
<1>2. Joins(u, s, t)
  BY <1>1, Joined
<1>3. u \in Seq(Nat) /\ n <= Len(u) /\ Len(u) \in Nat /\ \A k \in 1..n : u[k] = s[k]
  BY <1>2 DEF Joins
<1>4. PICK v : v = SubSeq(u, 1, n)
  OBVIOUS
<1>5. v \in Seq(Nat) /\ Len(v) = n /\ \A k \in 1..n : v[k] = u[k]
  <2>1. PICK x \in Nat : x = 1
    OBVIOUS
  <2>2. 1 <= x /\ x <= n + 1
    BY <2>1
  <2>3. SubSeq(u, x, n) = v
    BY <1>4, <2>1
  <2>4. /\ v \in Seq(Nat) /\ Len(v) = n + 1 - x
        /\ \A k \in 1..(n + 1 - x) : v[k] = u[x + k - 1]
    BY <1>3, <2>2, <2>3, SubSeqIs, ZenonT(60)
  <2>5. n + 1 - x = n /\ \A k \in 1..n : x + k - 1 = k
    BY <2>1
  <2> QED
    BY <2>4, <2>5
<1>6. \A k \in 1..n : v[k] = s[k]
  BY <1>3, <1>5
<1>7. v = s
  BY <1>5, <1>6, SeqEqual
<1> QED
  BY <1>1, <1>4, <1>7

\* The file with data at p: what is before it, the data and the rest.
LEMMA WrittenParts ==
  ASSUME out \in Seq(Nat), NEW p \in 0..Len(out), NEW data \in Seq(Nat)
  PROVE  /\ SubSeq(out, 1, p) \in Seq(Nat) /\ Len(SubSeq(out, 1, p)) = p
         /\ \A k \in 1..p : SubSeq(out, 1, p)[k] = out[k]
         /\ \E c \in Seq(Nat) : Written(p, data) = (SubSeq(out, 1, p) \o data) \o c
<1>1. PICK m \in Nat, l \in Nat, n \in Nat : m = p /\ l = Len(data) /\ n = Len(out)
  <2>1. Len(out) \in Nat /\ Len(data) \in Nat
    OBVIOUS
  <2>2. p \in Nat
    BY <2>1
  <2> QED
    BY <2>1, <2>2
<1>2. m <= n
  BY <1>1
<1>3. PICK a, c : a = SubSeq(out, 1, p) /\ c = SubSeq(out, p + Len(data) + 1, Len(out))
  OBVIOUS
<1>4. a \in Seq(Nat) /\ Len(a) = m /\ \A k \in 1..m : a[k] = out[k]
  <2>1. PICK x \in Nat : x = 1
    OBVIOUS
  <2>2. 1 <= x /\ x <= m + 1 /\ m <= Len(out)
    BY <1>1, <1>2, <2>1
  <2>3. SubSeq(out, x, m) = a
    BY <1>1, <1>3, <2>1
  <2>4. /\ a \in Seq(Nat) /\ Len(a) = m + 1 - x
        /\ \A k \in 1..(m + 1 - x) : a[k] = out[x + k - 1]
    BY <2>2, <2>3, SubSeqIs, ZenonT(60)
  <2>5. m + 1 - x = m /\ \A k \in 1..m : x + k - 1 = k
    BY <2>1
  <2> QED
    BY <2>4, <2>5
<1>5. c \in Seq(Nat)
  <2>1. \A i \in (m + l + 1)..n : out[i] \in Nat
    BY <1>1
  <2>2. c = SubSeq(out, m + l + 1, n) /\ m + l + 1 \in Nat
    BY <1>1, <1>3
  <2> QED
    BY <2>1, <2>2, SubSeqProperties
<1>6. Written(p, data) = (a \o data) \o c
  BY <1>3 DEF Written
<1> QED
  BY <1>1, <1>3, <1>4, <1>5, <1>6

\* What is emitted comes behind what has been written.
LEMMA EmitIs ==
  ASSUME WInv, NEW data \in Seq(Nat), Emit(data)
  PROVE  written' = written \o data
<1>1. PICK p \in Nat, l \in Nat : p = pos /\ l = Len(data) /\ p \in 0..Len(out) /\ out \in Seq(Nat)
  BY Ranges
<1>2. PICK a : a = SubSeq(out, 1, p)
  OBVIOUS
<1>3. PICK c \in Seq(Nat) : Written(p, data) = (a \o data) \o c
  BY <1>1, <1>2, WrittenParts
<1>4. a \in Seq(Nat) /\ Len(a) = p
  BY <1>1, <1>2, WrittenParts
<1>5. PICK b : b = a \o data
  OBVIOUS
<1>6. b \in Seq(Nat) /\ Len(b) = p + l
  BY <1>1, <1>4, <1>5, JoinedLen
<1>7. out' = b \o c /\ pos' = p + l
  BY <1>1, <1>3, <1>5 DEF Emit
<1>8. SubSeq(b \o c, 1, p + l) = b
  BY <1>1, <1>6, PrefixIs
<1> QED
  BY <1>1, <1>2, <1>5, <1>7, <1>8 DEF written

\* Three pieces of which the second is as long as any length reserved.
Opened(a, d) == (a \o EmitLeb5(0)) \o d

LEMMA Lebs5 ==
  ASSUME NEW v \in Nat
  PROVE  EmitLeb5(v) \in Seq(Nat) /\ Len(EmitLeb5(v)) = MaxLen /\ Form("leb5", v) = EmitLeb5(v)
<1>1. MaxLen \in 1..MaxLen
  BY Widths
<1>2. EmittedSeq(v, MaxLen)
  BY <1>1, EmittedIsSeq
<1> QED
  BY <1>2 DEF EmittedSeq, EmitLeb5, Form

LEMMA Assoc ==
  ASSUME NEW s \in Seq(Nat), NEW t \in Seq(Nat), NEW u \in Seq(Nat)
  PROVE  (s \o t) \o u = s \o (t \o u)
BY ConcatAssociative

LEMMA OpenedIs ==
  ASSUME NEW a \in Seq(Nat), NEW d \in Seq(Nat)
  PROVE  /\ Opened(a, d) \in Seq(Nat) /\ Len(Opened(a, d)) = Len(a) + MaxLen + Len(d)
         /\ a \o Sized("leb5", d) = (a \o EmitLeb5(Len(d))) \o d
         /\ \A e \in Seq(Nat) : Opened(a, d) \o e = Opened(a, d \o e)
<1>1. PICK n \in Nat : n = Len(d)
  OBVIOUS
<1>2. PICK y, z : y = EmitLeb5(0) /\ z = EmitLeb5(n)
  OBVIOUS
<1>3. y \in Seq(Nat) /\ Len(y) = MaxLen /\ z \in Seq(Nat) /\ Form("leb5", n) = z
  BY <1>2, Lebs5
<1>4. PICK b : b = a \o y
  OBVIOUS
<1>5. b \in Seq(Nat) /\ Len(b) = Len(a) + MaxLen
  BY <1>3, <1>4, JoinedLen
<1>6. Opened(a, d) = b \o d
  BY <1>2, <1>4 DEF Opened
<1>7. Opened(a, d) \in Seq(Nat) /\ Len(Opened(a, d)) = Len(a) + MaxLen + Len(d)
  BY <1>5, <1>6, JoinedLen
<1>8. a \o Sized("leb5", d) = (a \o EmitLeb5(Len(d))) \o d
  <2>1. Sized("leb5", d) = z \o d
    BY <1>1, <1>3 DEF Sized
  <2>2. (a \o z) \o d = a \o (z \o d)
    BY <1>3, Assoc
  <2> QED
    BY <1>1, <1>2, <2>1, <2>2
<1>9. ASSUME NEW e \in Seq(Nat) PROVE Opened(a, d) \o e = Opened(a, d \o e)
  <2>1. (b \o d) \o e = b \o (d \o e)
    BY <1>5, Assoc
  <2> QED
    BY <1>2, <1>4, <1>6, <2>1 DEF Opened
<1> QED
  BY <1>7, <1>8, <1>9

\* The length patched is that of what was written since.
LEMMA PatchIs ==
  ASSUME WInv, NEW a \in Seq(Nat), NEW d \in Seq(Nat), written = Opened(a, d),
         EmitPatchedLength(Len(a))
  PROVE  written' = a \o Sized("leb5", d)
<1>1. PICK p \in Nat, n \in Nat, l \in Nat, m \in Nat :
        p = Len(a) /\ n = Len(d) /\ l = MaxLen /\ m = pos /\ m <= Len(out)
  BY Ranges
<1>2. out \in Seq(Nat) /\ Len(out) \in Nat /\ p \in Nat /\ m \in 0..Len(out)
  BY <1>1, Ranges
<1>3. PICK x, y : x = EmitLeb5(0) /\ y = EmitLeb5(n)
  OBVIOUS
<1>4. x \in Seq(Nat) /\ Len(x) = l /\ y \in Seq(Nat) /\ Len(y) = l
  BY <1>1, <1>3, Lebs5
<1>5. PICK b, w : b = a \o x /\ w = b \o d
  OBVIOUS
<1>6. Joins(b, a, x) /\ b \in Seq(Nat) /\ Len(b) = p + l
  BY <1>1, <1>4, <1>5, Joined DEF Joins
<1>7. Joins(w, b, d) /\ w \in Seq(Nat) /\ Len(w) = p + l + n
  BY <1>1, <1>5, <1>6, Joined, ZenonT(60) DEF Joins
<1>8. written = w /\ w = SubSeq(out, 1, m)
  BY <1>1, <1>3, <1>5 DEF Opened, written
<1>9. m = p + l + n /\ \A k \in 1..m : out[k] = w[k]
  <2>1. Len(w) = m /\ \A k \in 1..m : w[k] = out[k]
    BY <1>2, <1>4, <1>8, WrittenParts
  <2> QED
    BY <1>7, <2>1
<1>10. PICK u : u = Written(p, y)
  OBVIOUS
<1>11. out' = u /\ pos' = m
  <2>1. pos - Len(a) - MaxLen = n
    BY <1>1, <1>9
  <2> QED
    BY <1>1, <1>3, <1>10, <2>1 DEF EmitPatchedLength
<1>12. PICK c \in Seq(Nat) : u = (SubSeq(out, 1, p) \o y) \o c
  <2>1. p \in 0..Len(out)
    BY <1>1, <1>2, <1>9
  <2> QED
    BY <1>2, <1>4, <1>10, <2>1, WrittenParts
<1>13. PICK h : h = SubSeq(out, 1, p)
  OBVIOUS
<1>14. h \in Seq(Nat) /\ Len(h) = p /\ \A k \in 1..p : h[k] = out[k]
  <2>1. p \in 0..Len(out)
    BY <1>1, <1>2, <1>9
  <2> QED
    BY <1>2, <1>4, <1>13, <2>1, WrittenParts
<1>15. PICK e : e = h \o y
  OBVIOUS
<1>16. Joins(e, h, y) /\ e \in Seq(Nat) /\ Len(e) = p + l
  <2>1. Joins(e, h, y)
    BY <1>4, <1>14, <1>15, Joined
  <2>2. e \in Seq(Nat) /\ Len(e) = Len(h) + Len(y)
    BY <1>4, <1>14, <1>15, JoinedLen
  <2> QED
    BY <1>4, <1>14, <2>1, <2>2
<1>17. Joins(u, e, c) /\ u \in Seq(Nat)
  BY <1>12, <1>13, <1>15, <1>16, Joined DEF Joins
<1>18. PICK g, t : g = a \o y /\ t = g \o d
  OBVIOUS
<1>19. Joins(g, a, y) /\ g \in Seq(Nat) /\ Len(g) = p + l
  BY <1>1, <1>4, <1>18, Joined, ZenonT(60) DEF Joins
<1>20. Joins(t, g, d) /\ t \in Seq(Nat) /\ Len(t) = m
  <2>1. Len(t) = Len(g) + Len(d) /\ t \in Seq(Nat)
    BY <1>18, <1>19, JoinedLen
  <2>2. Len(t) = m
    BY <1>1, <1>9, <1>19, <2>1
  <2> QED
    BY <1>18, <1>19, <2>1, <2>2, Joined
<1>27. Len(out) <= Len(u) /\ \A k \in (p + Len(y) + 1)..Len(out) : u[k] = out[k]
  <2>1. p \in 0..Len(out)
    BY <1>1, <1>2, <1>9
  <2> QED
    <3>1. y \in Seq(Nat)
      BY <1>4
    <3>2. ASSUME NEW v, v = Written(p, y)
          PROVE  Len(out) <= Len(v) /\ \A k \in (p + Len(y) + 1)..Len(out) : v[k] = out[k]
      BY <1>2, <2>1, <3>1, <3>2, WrittenIs, SMTT(60)
    <3> QED
      BY <1>10, <3>2
<1>21. ASSUME NEW k \in 1..m PROVE u[k] = t[k]
  <2>1. CASE k <= p
    <3>1. k \in 1..p /\ k \in 1..(p + l)
      BY <2>1
    <3>2. u[k] = e[k] /\ e[k] = h[k] /\ h[k] = out[k]
      BY <1>14, <1>16, <1>17, <3>1 DEF Joins
    <3>3. out[k] = w[k] /\ w[k] = b[k] /\ b[k] = a[k]
      BY <1>1, <1>6, <1>7, <1>9, <3>1 DEF Joins
    <3>4. t[k] = g[k] /\ g[k] = a[k]
      BY <1>1, <1>19, <1>20, <3>1 DEF Joins
    <3> QED
      BY <3>2, <3>3, <3>4
  <2>2. CASE p < k /\ k <= p + l
    <3>1. k \in (p + 1)..(p + l) /\ k \in 1..(p + l)
      BY <2>2
    <3>2. u[k] = e[k] /\ e[k] = y[k - p]
      BY <1>4, <1>14, <1>16, <1>17, <3>1 DEF Joins
    <3>3. t[k] = g[k] /\ g[k] = y[k - p]
      BY <1>1, <1>4, <1>19, <1>20, <3>1 DEF Joins
    <3> QED
      BY <3>2, <3>3
  <2>3. CASE p + l < k
    <3>1. k \in (p + l + 1)..(p + l + n)
      BY <1>9, <2>3
    <3>2. u[k] = out[k]
      <4>1. k \in (p + Len(y) + 1)..Len(out)
        BY <1>1, <1>2, <1>4, <2>3
      <4> QED
        BY <1>27, <4>1
    <3>3. out[k] = w[k] /\ w[k] = d[k - (p + l)]
      BY <1>1, <1>6, <1>7, <1>9, <3>1 DEF Joins
    <3>4. t[k] = d[k - (p + l)]
      BY <1>1, <1>19, <1>20, <3>1 DEF Joins
    <3> QED
      BY <3>2, <3>3, <3>4
  <2> QED
    BY <2>1, <2>2, <2>3
<1>22. PICK r : r = SubSeq(u, 1, m)
  OBVIOUS
<1>23. r \in Seq(Nat) /\ Len(r) = m /\ \A k \in 1..m : r[k] = u[k]
  <2>1. PICK z \in Nat : z = 1
    OBVIOUS
  <2>2. m <= Len(u)
    BY <1>1, <1>2, <1>17, <1>27
  <2>3. 1 <= z /\ z <= m + 1 /\ r = SubSeq(u, z, m)
    BY <1>22, <2>1
  <2>4. /\ r \in Seq(Nat) /\ Len(r) = m + 1 - z
        /\ \A k \in 1..(m + 1 - z) : r[k] = u[z + k - 1]
    BY <1>17, <2>2, <2>3, SubSeqIs
  <2>5. m + 1 - z = m /\ \A k \in 1..m : z + k - 1 = k
    BY <2>1
  <2> QED
    BY <2>4, <2>5
<1>24. r = t
  <2>1. \A k \in 1..m : r[k] = t[k]
    BY <1>21, <1>23
  <2> QED
    BY <1>20, <1>23, <2>1, SeqEqual
<1>25. written' = t
  BY <1>11, <1>22, <1>24 DEF written
<1>26. a \o Sized("leb5", d) = t
  <2>1. a \o Sized("leb5", d) = (a \o EmitLeb5(Len(d))) \o d
    BY OpenedIs
  <2> QED
    BY <1>1, <1>3, <1>18, <2>1
<1> QED
  BY <1>25, <1>26
-----------------------------------------------------------------------------
\* Pieces one behind the other, and something in front of them.
Stack(a, s, k) == a \o Pre(s, k - 1)

StackGrows(a, s, n) ==
  /\ Stack(a, s, 1) = a
  /\ \A k \in 1..(n + 1) : Stack(a, s, k) \in Seq(Nat)
  /\ \A k \in 1..n : Stack(a, s, k + 1) = Stack(a, s, k) \o s[k]
  /\ Stack(a, s, n + 1) = a \o Pre(s, n)

LEMMA Stacked ==
  ASSUME NEW a \in Seq(Nat), NEW s, NEW n, Pieces(s, n)
  PROVE  StackGrows(a, s, n)
<1>1. n \in Nat /\ \A k \in 1..n : s[k] \in Seq(Nat)
  BY DEF Pieces
<1>2. /\ Pre(s, 0) = <<>>
      /\ \A k \in 0..n : Pre(s, k) \in Seq(Nat)
      /\ \A k \in 1..n : Pre(s, k) = Pre(s, k - 1) \o s[k]
  BY PreGrows DEF Grows
<1>3. Stack(a, s, 1) = a
  <2>1. Stack(a, s, 1) = a \o Pre(s, 0)
    BY DEF Stack
  <2> QED
    BY <1>2, <2>1, EmptyJoin
<1>4. ASSUME NEW k \in 1..(n + 1) PROVE Stack(a, s, k) \in Seq(Nat)
  <2>1. PICK t : t = Pre(s, k - 1)
    OBVIOUS
  <2>2. k - 1 \in 0..n
    BY <1>1
  <2>3. t \in Seq(Nat)
    BY <1>2, <2>1, <2>2
  <2>4. a \o t \in Seq(Nat)
    BY <2>3, JoinedLen
  <2> QED
    BY <2>1, <2>4 DEF Stack
<1>5. ASSUME NEW k \in 1..n PROVE Stack(a, s, k + 1) = Stack(a, s, k) \o s[k]
  <2>1. PICK t, u, v : t = Pre(s, k - 1) /\ u = s[k] /\ v = Pre(s, k)
    OBVIOUS
  <2>2. k - 1 \in 0..n /\ (k + 1) - 1 = k
    BY <1>1
  <2>3. t \in Seq(Nat) /\ u \in Seq(Nat) /\ v = t \o u
    BY <1>1, <1>2, <2>1, <2>2
  <2>4. (a \o t) \o u = a \o (t \o u)
    BY <2>3, Assoc
  <2>5. Stack(a, s, k + 1) = a \o v
    BY <2>1, <2>2 DEF Stack
  <2>6. Stack(a, s, k) = a \o t
    BY <2>1 DEF Stack
  <2> QED
    BY <2>1, <2>3, <2>4, <2>5, <2>6
<1>6. Stack(a, s, n + 1) = a \o Pre(s, n)
  <2>1. (n + 1) - 1 = n
    BY <1>1
  <2> QED
    BY <2>1 DEF Stack
<1> QED
  BY <1>3, <1>4, <1>5, <1>6 DEF StackGrows

\* What has been written when the i-th section is at hand; when its j-th body
\* is; and when the k-th instruction of that is, if nothing was refused.
PadSects == Sects(module, "leb5", "leb4")
PadBodies(s) == BodyForms(s, "leb5", "leb4")

FileFront(i) == Stack(Header, PadSects, i)
CodeStart(i) == FileFront(i) \o <<WASM_SECT_CODE>>
CodeDone(s, j) == Stack(Form("leb", Len(s.bodies)), PadBodies(s), j)
CodeFront(i, j) == Opened(CodeStart(i), CodeDone(module[i], j))
BodyDone(b, k) == Stack(LocalsBytes(b.locals), Instrs(b, "leb4"), k)
BodyFront(i, j, k) == Opened(CodeFront(i, j), BodyDone(module[i].bodies[j], k))

LEMMA FrontsGrow ==
  ASSUME NEW lengths, NEW labels, Valid(lengths, labels)
  PROVE  /\ FileFront(1) = Header
         /\ \A i \in 1..(Len(module) + 1) : FileFront(i) \in Seq(Nat)
         /\ \A i \in 1..Len(module) :
              FileFront(i + 1) = FileFront(i) \o SectionBytes(module[i], "leb5", "leb4")
         /\ FileFront(Len(module) + 1) = Padded
<1>1. /\ Sequence(module) /\ \A s \in ToSet(module) : WellFormedSection(s)
      /\ \A s \in ToSet(module) : CodeMeasured(s, "leb5", "leb4")
  BY PaddedMeasured DEF Valid
<1>2. /\ Len(module) \in Nat /\ Pieces(PadSects, Len(module))
      /\ \A k \in 1..Len(module) : PadSects[k] = SectionBytes(module[k], "leb5", "leb4")
      /\ Padded = Header \o Pre(PadSects, Len(module))
  <2>1. PICK m : m = module
    OBVIOUS
  <2>2. /\ Sequence(m) /\ \A s \in ToSet(m) : WellFormedSection(s)
        /\ \A s \in ToSet(m) : CodeMeasured(s, "leb5", "leb4")
    BY <1>1, <2>1
  <2>3. PadSects = Sects(m, "leb5", "leb4") /\ Padded = Encode(m, "leb5", "leb4")
    BY <2>1 DEF PadSects, Padded, module
  <2>4. /\ Len(m) \in Nat /\ Pieces(Sects(m, "leb5", "leb4"), Len(m))
        /\ \A k \in 1..Len(m) : Sects(m, "leb5", "leb4")[k] = SectionBytes(m[k], "leb5", "leb4")
        /\ Encode(m, "leb5", "leb4") = Header \o Pre(Sects(m, "leb5", "leb4"), Len(m))
    BY <2>2, SectsAre
  <2> QED
    BY <2>1, <2>3, <2>4
<1>3. Header \in Seq(Nat)
  BY HeaderSeq
<1>4. /\ Stack(Header, PadSects, 1) = Header
      /\ \A k \in 1..(Len(module) + 1) : Stack(Header, PadSects, k) \in Seq(Nat)
      /\ \A k \in 1..Len(module) :
           Stack(Header, PadSects, k + 1) = Stack(Header, PadSects, k) \o PadSects[k]
      /\ Stack(Header, PadSects, Len(module) + 1) = Header \o Pre(PadSects, Len(module))
  <2>1. StackGrows(Header, PadSects, Len(module))
    BY <1>2, <1>3, Stacked
  <2> QED
    BY <2>1 DEF StackGrows
<1> QED
  BY <1>2, <1>4 DEF FileFront

LEMMA CodeGrows ==
  ASSUME NEW s, WellFormedSection(s), s.id = WASM_SECT_CODE
  PROVE  /\ CodeDone(s, 1) = Form("leb", Len(s.bodies))
         /\ \A j \in 1..(Len(s.bodies) + 1) : CodeDone(s, j) \in Seq(Nat)
         /\ \A j \in 1..Len(s.bodies) :
              CodeDone(s, j + 1) = CodeDone(s, j) \o Sized("leb5", BodyData(s.bodies[j], "leb4"))
         /\ CodeDone(s, Len(s.bodies) + 1) = CodeData(s, "leb5", "leb4")
<1>1. BodiesMeasured(s, "leb5", "leb4")
  BY PaddedMeasured DEF CodeMeasured
<1>2. PICK n, F, x : n = Len(s.bodies) /\ F = PadBodies(s) /\ x = Form("leb", n)
  OBVIOUS
<1>3. /\ Pieces(F, n) /\ Fits("leb", n)
      /\ \A k \in 1..n : F[k] = Sized("leb5", BodyData(s.bodies[k], "leb4"))
  BY <1>1, <1>2, BodiesAre DEF PadBodies
<1>4. x \in Seq(Nat) /\ CodeData(s, "leb5", "leb4") = x \o Pre(F, n)
  BY <1>1, <1>2, CodeIs DEF PadBodies
<1>5. /\ Stack(x, F, 1) = x
      /\ \A k \in 1..(n + 1) : Stack(x, F, k) \in Seq(Nat)
      /\ \A k \in 1..n : Stack(x, F, k + 1) = Stack(x, F, k) \o F[k]
      /\ Stack(x, F, n + 1) = x \o Pre(F, n)
  <2>1. StackGrows(x, F, n)
    BY <1>3, <1>4, Stacked
  <2> QED
    BY <2>1 DEF StackGrows
<1>6. \A j : CodeDone(s, j) = Stack(x, F, j)
  BY <1>2 DEF CodeDone
<1> QED
  BY <1>2, <1>3, <1>4, <1>5, <1>6

LEMMA BodyGrows ==
  ASSUME NEW b, WellFormedBody(b)
  PROVE  /\ BodyDone(b, 1) = LocalsBytes(b.locals)
         /\ \A k \in 1..(Len(b.code) + 1) : BodyDone(b, k) \in Seq(Nat)
         /\ \A k \in 1..Len(b.code) :
              BodyDone(b, k + 1) = BodyDone(b, k) \o InstrBytes(b.code[k], "leb4")
         /\ BodyDone(b, Len(b.code) + 1) = BodyData(b, "leb4")
<1>1. "leb4" \in Forms
  BY DEF Forms
<1>2. PICK n, F, x : n = Len(b.code) /\ F = Instrs(b, "leb4") /\ x = LocalsBytes(b.locals)
  OBVIOUS
<1>3. Pieces(F, n) /\ \A k \in 1..n : F[k] = InstrBytes(b.code[k], "leb4")
  BY <1>1, <1>2, InstrsAre
<1>4. x \in Seq(Nat) /\ BodyData(b, "leb4") = x \o Pre(F, n)
  BY <1>1, <1>2, BodyIs, LocalsAre
<1>5. /\ Stack(x, F, 1) = x
      /\ \A k \in 1..(n + 1) : Stack(x, F, k) \in Seq(Nat)
      /\ \A k \in 1..n : Stack(x, F, k + 1) = Stack(x, F, k) \o F[k]
      /\ Stack(x, F, n + 1) = x \o Pre(F, n)
  <2>1. StackGrows(x, F, n)
    BY <1>3, <1>4, Stacked
  <2> QED
    BY <2>1 DEF StackGrows
<1>6. \A k : BodyDone(b, k) = Stack(x, F, k)
  BY <1>2 DEF BodyDone
<1> QED
  BY <1>2, <1>3, <1>4, <1>5, <1>6
-----------------------------------------------------------------------------
(***************************************************************************)
(* Where weeify is in the module its file encodes, and what it has written *)
(* of it.                                                                  *)
(***************************************************************************)
\* No instruction in front of the k-th, the j-th body, the i-th section is one
\* to be refused.
CleanCode(b, k) == \A m \in 1..(k - 1) : ~Refused(b.code[m])
CleanBodies(s, j) ==
  \A m \in 1..(j - 1) : CleanCode(s.bodies[m], Len(s.bodies[m].code) + 1)
CleanSections(i) ==
  \A m \in 1..(i - 1) :
    module[m].id = WASM_SECT_CODE => CleanBodies(module[m], Len(module[m].bodies) + 1)

\* A body was given up for an instruction that is refused, or there was none
\* so far and w is written.
Told(clean, w) ==
  /\ dropped # 0 => \E x \in Instructions : Refused(x)
  /\ dropped = 0 => clean /\ written = w

AtSection(lengths, labels, i) ==
  /\ i \in 1..(Len(module) + 1)
  /\ ptr = SecAt(lengths, labels, i)
  /\ Told(CleanSections(i), FileFront(i))

\* In the i-th section, whose bodies lie from q on, at the j-th body.
InCode(lengths, labels, i, q, j) ==
  /\ i \in 1..Len(module) /\ module[i].id = WASM_SECT_CODE
  /\ BodiesLie(module[i], lengths, labels, q)
  /\ section_end = SecAt(lengths, labels, i + 1)
  /\ section_end = BodyAt(module[i], lengths, labels, q, Len(module[i].bodies) + 1)
  /\ j \in 1..(Len(module[i].bodies) + 1)
  /\ dropped = 0 => before = Len(CodeStart(i))

AtBody(lengths, labels, i, q, j) ==
  /\ InCode(lengths, labels, i, q, j)
  /\ bodies = (Len(module[i].bodies) + 1) - j
  /\ ptr = BodyAt(module[i], lengths, labels, q, j)
  /\ Told(CleanSections(i) /\ CleanBodies(module[i], j), CodeFront(i, j))

\* In that body, whose instructions lie from p on, at the k-th.
CodeLiesAt(b, labels, p) ==
  /\ p \in Nat \ {0} /\ LiesIn(bytes, p, Pre(Instrs(b, labels), Len(b.code)))
  /\ body_end = At(p, Instrs(b, labels), Len(b.code) + 1)

InstrAt(labels, i, j, p, k) ==
  /\ CodeLiesAt(module[i].bodies[j], labels, p)
  /\ k \in 1..(Len(module[i].bodies[j].code) + 1)
  /\ ptr = At(p, Instrs(module[i].bodies[j], labels), k)
  /\ dropped = 0 => body_before = Len(CodeFront(i, j))

AtInstr(lengths, labels, i, q, j, p, k) ==
  /\ InCode(lengths, labels, i, q, j)
  /\ j <= Len(module[i].bodies) /\ bodies = Len(module[i].bodies) - j
  /\ body_end = BodyAt(module[i], lengths, labels, q, j + 1)
  /\ InstrAt(labels, i, j, p, k)
  /\ Told(CleanSections(i) /\ CleanBodies(module[i], j) /\ CleanCode(module[i].bodies[j], k),
          BodyFront(i, j, k))

Finished == \E n : n = Len(module) + 1 /\ Told(CleanSections(n), Padded)

\* Of a file that is cut short, a length the file ends in ends it.
Along(lengths, labels) ==
  \/ phase = "header" /\ pos = 0 /\ dropped = 0
  \/ /\ phase = "section"
     /\ (file.truncated /\ ptr = end) \/ \E i : AtSection(lengths, labels, i)
  \/ /\ phase = "code"
     /\ \/ file.truncated /\ bodies = 0 /\ section_end = end
        \/ \E i, q, j : AtBody(lengths, labels, i, q, j)
  \/ /\ phase = "body"
     /\ \E i, q, j, p, k : AtInstr(lengths, labels, i, q, j, p, k)
  \/ /\ phase \in {"returned", "exit"}
     /\ file.truncated \/ Finished

\* A code section of the module and its bodies.
LEMMA CodeSection ==
  ASSUME NEW lengths, NEW labels, Valid(lengths, labels), NEW i \in 1..Len(module),
         module[i].id = WASM_SECT_CODE
  PROVE  /\ WellFormedSection(module[i]) /\ BodiesMeasured(module[i], lengths, labels)
         /\ Len(module[i].bodies) \in Nat
         /\ \A j \in 1..Len(module[i].bodies) :
              /\ WellFormedBody(module[i].bodies[j])
              /\ Fits(lengths, Len(BodyData(module[i].bodies[j], labels)))
              /\ \A k \in 1..Len(module[i].bodies[j].code) :
                   module[i].bodies[j].code[k] \in Instructions
<1>1. module[i] \in ToSet(module)
  BY SequenceIs DEF Valid
<1>2. PICK s : s = module[i]
  OBVIOUS
<1>3. /\ WellFormedSection(s) /\ CodeMeasured(s, lengths, labels) /\ CodeFits(s, lengths, labels)
      /\ s.id = WASM_SECT_CODE
  BY <1>1, <1>2, FileMeasured
<1>4. BodiesMeasured(s, lengths, labels)
  BY <1>3 DEF CodeMeasured
<1>5. /\ Len(s.bodies) \in Nat
      /\ \A j \in 1..Len(s.bodies) : s.bodies[j] \in ToSet(s.bodies) /\ WellFormedBody(s.bodies[j])
  BY <1>3, <1>4, BodiesAre
<1>6. ASSUME NEW j \in 1..Len(s.bodies)
      PROVE  /\ Fits(lengths, Len(BodyData(s.bodies[j], labels)))
             /\ \A k \in 1..Len(s.bodies[j].code) : s.bodies[j].code[k] \in Instructions
  <2>1. PICK b : b = s.bodies[j]
    OBVIOUS
  <2>2. b \in ToSet(s.bodies) /\ WellFormedBody(b)
    BY <1>5, <2>1
  <2>3. Fits(lengths, Len(BodyData(b, labels)))
    BY <1>3, <2>2 DEF CodeFits
  <2>4. ASSUME NEW k \in 1..Len(b.code) PROVE b.code[k] \in Instructions
    <3>1. b.code[k] \in ToSet(b.code)
      <4>1. labels \in Forms
        BY DEF Valid
      <4> QED
        BY <2>2, <4>1, InstrsAre
    <3>2. s \in {t \in ToSet(file.module) : t.id = WASM_SECT_CODE}
      BY <1>1, <1>2, <1>3 DEF module
    <3>3. PICK x, C, T : /\ x = b.code[k] /\ C = ToSet(b.code)
                         /\ T = {t \in ToSet(file.module) : t.id = WASM_SECT_CODE}
      OBVIOUS
    <3>4. x \in UNION {ToSet(c.code) : c \in ToSet(s.bodies)}
      BY <2>2, <3>1, <3>3
    <3>5. Instructions = UNION {UNION {ToSet(c.code) : c \in ToSet(t.bodies)} : t \in T}
      BY <3>3 DEF Instructions
    <3>6. s \in T
      BY <3>2, <3>3
    <3> QED
      BY <3>3, <3>4, <3>5, <3>6
  <2> QED
    BY <2>1, <2>3, <2>4
<1> QED
  BY <1>2, <1>3, <1>4, <1>5, <1>6

\* The j-th body lies at its place, in front of the next.
LEMMA BodyLies ==
  ASSUME WInv, NEW lengths, NEW labels, Valid(lengths, labels), NEW i, NEW q, NEW j,
         InCode(lengths, labels, i, q, j), j <= Len(module[i].bodies)
  PROVE  /\ LiesIn(bytes, BodyAt(module[i], lengths, labels, q, j),
                   Sized(lengths, BodyData(module[i].bodies[j], labels)))
         /\ BodyAt(module[i], lengths, labels, q, j) \in Nat
         /\ BodyAt(module[i], lengths, labels, q, j + 1) \in Nat
         /\ BodyAt(module[i], lengths, labels, q, j + 1)
              = BodyAt(module[i], lengths, labels, q, j)
                  + Len(Sized(lengths, BodyData(module[i].bodies[j], labels)))
         /\ BodyAt(module[i], lengths, labels, q, j + 1) <= section_end
<1>1. PICK s : s = module[i]
  OBVIOUS
<1>2. /\ i \in 1..Len(module) /\ s.id = WASM_SECT_CODE /\ BodiesLie(s, lengths, labels, q)
      /\ section_end = BodyAt(s, lengths, labels, q, Len(s.bodies) + 1)
      /\ j \in 1..(Len(s.bodies) + 1) /\ j <= Len(s.bodies)
  BY <1>1 DEF InCode
<1>3. WellFormedSection(s) /\ BodiesMeasured(s, lengths, labels)
  BY <1>1, <1>2, CodeSection
<1>4. PICK n, F : n = Len(s.bodies) /\ F = BodyForms(s, lengths, labels)
  OBVIOUS
<1>5. /\ Pieces(F, n) /\ n \in Nat
      /\ \A k \in 1..n : F[k] = Sized(lengths, BodyData(s.bodies[k], labels))
  BY <1>2, <1>3, <1>4, BodiesAre
<1>6. q \in Nat /\ LiesIn(bytes, q, Pre(F, n)) /\ bytes \in Seq(Nat)
  BY <1>2, <1>4, Ranges DEF BodiesLie
<1>7. \A k \in 1..n : LiesIn(bytes, At(q, F, k), F[k])
  BY <1>5, <1>6, FlatLies
<1>8. /\ \A k \in 1..(n + 1) : At(q, F, k) \in Nat
      /\ \A k \in 1..n : At(q, F, k + 1) = At(q, F, k) + Len(F[k])
  BY <1>5, <1>6, PlacesAre DEF Places
<1>9. \A k, m \in 1..(n + 1) : k <= m => At(q, F, k) <= At(q, F, m)
  BY <1>5, <1>6, PlacesOrder
<1>10. j \in 1..n /\ j \in 1..(n + 1) /\ j + 1 \in 1..(n + 1) /\ n + 1 \in 1..(n + 1) /\ j + 1 <= n + 1
  BY <1>2, <1>4, <1>5
<1>11. LiesIn(bytes, At(q, F, j), Sized(lengths, BodyData(s.bodies[j], labels)))
  BY <1>5, <1>7, <1>10
<1>12. At(q, F, j + 1) = At(q, F, j) + Len(Sized(lengths, BodyData(s.bodies[j], labels)))
  BY <1>5, <1>8, <1>10
<1>13. At(q, F, j) \in Nat /\ At(q, F, j + 1) \in Nat
  BY <1>8, <1>10
<1>14. At(q, F, j + 1) <= At(q, F, n + 1)
  BY <1>9, <1>10
<1>15. \A k : BodyAt(module[i], lengths, labels, q, k) = At(q, F, k)
  BY <1>1, <1>4 DEF BodyAt
<1>16. section_end = At(q, F, n + 1)
  BY <1>1, <1>2, <1>4, <1>15
<1> QED
  BY <1>1, <1>11, <1>12, <1>13, <1>14, <1>15, <1>16

\* So does the k-th instruction.
LEMMA InstrLiesHere ==
  ASSUME WInv, NEW b, WellFormedBody(b), NEW labels \in Forms, NEW p, CodeLiesAt(b, labels, p),
         NEW k \in 1..(Len(b.code) + 1), ptr = At(p, Instrs(b, labels), k)
  PROVE  /\ ptr < body_end =>
              /\ k \in 1..Len(b.code) /\ InstrHere(b.code[k], labels)
              /\ At(p, Instrs(b, labels), k + 1) = ptr + Len(InstrBytes(b.code[k], labels))
         /\ ptr >= body_end => k = Len(b.code) + 1
<1>1. PICK n, F : n = Len(b.code) /\ F = Instrs(b, labels)
  OBVIOUS
<1>2. /\ n \in Nat /\ Pieces(F, n)
      /\ \A m \in 1..n : F[m] = InstrBytes(b.code[m], labels) /\ WellFormedInstr(b.code[m])
  BY <1>1, InstrsAre
<1>3. /\ p \in Nat /\ LiesIn(bytes, p, Pre(F, n)) /\ body_end = At(p, F, n + 1)
      /\ k \in 1..(n + 1) /\ ptr = At(p, F, k)
  BY <1>1 DEF CodeLiesAt
<1>4. \A m \in 1..n : LiesIn(bytes, At(p, F, m), F[m])
  BY <1>2, <1>3, Ranges, FlatLies
<1>5. /\ \A m \in 1..(n + 1) : At(p, F, m) \in Nat
      /\ \A m \in 1..n : At(p, F, m + 1) = At(p, F, m) + Len(F[m])
  BY <1>2, <1>3, PlacesAre, ZenonT(60) DEF Places
<1>6. \A l, m \in 1..(n + 1) : l <= m => At(p, F, l) <= At(p, F, m)
  BY <1>2, <1>3, PlacesOrder
<1>7. CASE k \in 1..n
  <2>1. k + 1 \in 1..(n + 1) /\ n + 1 \in 1..(n + 1) /\ k + 1 <= n + 1
    BY <1>2, <1>7
  <2>2. /\ LiesIn(bytes, ptr, InstrBytes(b.code[k], labels)) /\ WellFormedInstr(b.code[k])
        /\ At(p, F, k + 1) = ptr + Len(InstrBytes(b.code[k], labels))
    BY <1>2, <1>3, <1>4, <1>5, <1>7
  <2>3. At(p, F, k + 1) <= body_end
    BY <1>3, <1>6, <2>1
  <2>4. Len(InstrBytes(b.code[k], labels)) \in Nat /\ Len(InstrBytes(b.code[k], labels)) >= 1
    BY <2>2, InstrSeq
  <2>5. ptr + Len(InstrBytes(b.code[k], labels)) <= body_end
    BY <2>2, <2>3
  <2>6. InstrHere(b.code[k], labels)
    BY <2>2, <2>5 DEF InstrHere
  <2>7. ptr < body_end
    BY <2>4, <2>5, Ranges
  <2>8. ~(ptr >= body_end)
    BY <2>7, Ranges
  <2> QED
    BY <1>1, <1>7, <2>2, <2>6, <2>8
<1>8. CASE k = n + 1
  <2>1. ~(ptr < body_end)
    BY <1>3, <1>8, Ranges
  <2> QED
    BY <1>1, <1>8, <2>1
<1> QED
  BY <1>2, <1>3, <1>7, <1>8
-----------------------------------------------------------------------------
\* The module and its bytes stay the same.
LEMMA Same ==
  ASSUME file' = file
  PROVE  /\ module' = module /\ bytes' = bytes /\ end' = end /\ file.truncated' = file.truncated
         /\ \A lengths, labels : Valid(lengths, labels)' <=> Valid(lengths, labels)
         /\ \A lengths, labels, i : SecAt(lengths, labels, i)' = SecAt(lengths, labels, i)
         /\ \A i : FileFront(i)' = FileFront(i) /\ CodeStart(i)' = CodeStart(i)
         /\ \A i, j : CodeFront(i, j)' = CodeFront(i, j)
         /\ \A i, j, k : BodyFront(i, j, k)' = BodyFront(i, j, k)
         /\ \A i : CleanSections(i)' <=> CleanSections(i)
         /\ Padded' = Padded /\ Instructions' = Instructions
<1>1. module' = module /\ bytes' = bytes /\ end' = end /\ file.truncated' = file.truncated
  BY DEF module, bytes, end
<1>2. \A lengths, labels : Valid(lengths, labels)' <=> Valid(lengths, labels)
  BY <1>1 DEF Valid, Encoded, bytes
<1>3. \A lengths, labels, i : SecAt(lengths, labels, i)' = SecAt(lengths, labels, i)
  BY <1>1 DEF SecAt
<1>4. \A i : FileFront(i)' = FileFront(i) /\ CodeStart(i)' = CodeStart(i)
  BY <1>1 DEF FileFront, PadSects, CodeStart
<1>5. \A i, j : CodeFront(i, j)' = CodeFront(i, j)
  BY <1>1, <1>4 DEF CodeFront
<1>6. \A i, j, k : BodyFront(i, j, k)' = BodyFront(i, j, k)
  BY <1>1, <1>5 DEF BodyFront
<1>7. \A i : CleanSections(i)' <=> CleanSections(i)
  BY <1>1 DEF CleanSections
<1>8. Padded' = Padded /\ Instructions' = Instructions
  BY DEF Padded, Instructions
<1> QED
  BY <1>1, <1>2, <1>3, <1>4, <1>5, <1>6, <1>7, <1>8

\* What is in front of a body.
LEMMA CodeFronts ==
  ASSUME NEW lengths, NEW labels, Valid(lengths, labels), NEW i \in 1..Len(module),
         module[i].id = WASM_SECT_CODE
  PROVE  /\ CodeStart(i) \in Seq(Nat)
         /\ \A j \in 1..(Len(module[i].bodies) + 1) :
              CodeDone(module[i], j) \in Seq(Nat) /\ CodeFront(i, j) \in Seq(Nat)
<1>1. PICK f : f = FileFront(i)
  OBVIOUS
<1>2. f \in Seq(Nat)
  <2>1. Sequence(module)
    BY DEF Valid
  <2>2. i \in 1..(Len(module) + 1)
    BY <2>1, SequenceIs
  <2> QED
    BY <1>1, <2>2, FrontsGrow
<1>3. PICK c : c = <<WASM_SECT_CODE>>
  OBVIOUS
<1>4. c \in Seq(Nat)
  BY <1>3 DEF WASM_SECT_CODE
<1>5. PICK a : a = f \o c
  OBVIOUS
<1>6. a \in Seq(Nat) /\ CodeStart(i) = a
  BY <1>1, <1>2, <1>3, <1>4, <1>5, JoinedLen DEF CodeStart
<1>7. WellFormedSection(module[i])
  BY CodeSection
<1>8. ASSUME NEW j \in 1..(Len(module[i].bodies) + 1)
      PROVE  CodeDone(module[i], j) \in Seq(Nat) /\ CodeFront(i, j) \in Seq(Nat)
  <2>1. PICK d : d = CodeDone(module[i], j)
    OBVIOUS
  <2>2. d \in Seq(Nat)
    BY <1>7, <2>1, CodeGrows
  <2>3. Opened(a, d) \in Seq(Nat)
    BY <1>6, <2>2, OpenedIs
  <2> QED
    BY <1>6, <2>1, <2>2, <2>3 DEF CodeFront
<1> QED
  BY <1>6, <1>8

-----------------------------------------------------------------------------
\* The steps over an instruction.
Passing == TransformLabel \/ TransformLabels \/ TransformOther

LEMMA Passes ==
  ASSUME WInv, NEW x, NEW form, InstrHere(x, form), Passing
  PROVE  Passed(x, form) /\ ~Refused(x)
<1>1. CASE TransformLabel
  BY <1>1, LabelPasses
<1>2. CASE TransformLabels
  BY <1>2, LabelsPass
<1>3. CASE TransformOther
  BY <1>3, OtherPasses
<1> QED
  BY <1>1, <1>2, <1>3 DEF Passing

LEMMA PassingKeeps ==
  ASSUME Passing
  PROVE  phase = "body" /\ ptr < body_end /\ phase' = phase /\ UNCHANGED bodyVars
BY SMTT(60) DEF Passing, TransformLabel, TransformLabels, TransformOther, AtOpcode

\* The k-th instruction of a body is behind.
LEMMA WrittenInstr ==
  ASSUME WInv, NEW lengths, NEW labels, Valid(lengths, labels),
         NEW i, NEW q, NEW j, NEW k, InCode(lengths, labels, i, q, j), j <= Len(module[i].bodies),
         k \in 1..Len(module[i].bodies[j].code), written = BodyFront(i, j, k),
         Emit(InstrBytes(module[i].bodies[j].code[k], "leb4"))
  PROVE  written' = BodyFront(i, j, k + 1)
<1>1. PICK b : b = module[i].bodies[j]
  OBVIOUS
<1>2. /\ i \in 1..Len(module) /\ module[i].id = WASM_SECT_CODE
      /\ j \in 1..(Len(module[i].bodies) + 1) /\ Len(module[i].bodies) \in Nat
  BY CodeSection DEF InCode
<1>3. WellFormedBody(b) /\ j \in 1..Len(module[i].bodies)
  <2>1. j \in 1..Len(module[i].bodies)
    BY <1>2
  <2> QED
    BY <1>1, <1>2, <2>1, CodeSection
<1>4. PICK a, d, e, y : /\ a = CodeFront(i, j) /\ d = BodyDone(b, k) /\ e = BodyDone(b, k + 1)
                        /\ y = InstrBytes(b.code[k], "leb4")
  OBVIOUS
<1>5. a \in Seq(Nat)
  BY <1>2, <1>4, CodeFronts
<1>6. "leb4" \in Forms
  BY DEF Forms
<1>7. Len(b.code) \in Nat /\ WellFormedInstr(b.code[k])
  BY <1>1, <1>3, <1>6, InstrsAre
<1>8. y \in Seq(Nat)
  BY <1>4, <1>6, <1>7, InstrSeq
<1>9. d \in Seq(Nat) /\ e = d \o y
  <2>1. k \in 1..Len(b.code) /\ k \in 1..(Len(b.code) + 1)
    BY <1>1, <1>7
  <2> QED
    BY <1>3, <1>4, <2>1, BodyGrows
<1>10. Opened(a, d) \o y = Opened(a, e)
  BY <1>5, <1>8, <1>9, OpenedIs, ZenonT(60)
<1>11. written' = written \o y
  BY <1>1, <1>4, <1>8, EmitIs
<1> QED
  BY <1>1, <1>4, <1>10, <1>11, ZenonT(60) DEF BodyFront

LEMMA PassAlong ==
  ASSUME WInv, NEW lengths, NEW labels, Valid(lengths, labels),
         NEW i, NEW q, NEW j, NEW p, NEW k, AtInstr(lengths, labels, i, q, j, p, k), Passing
  PROVE  AtInstr(lengths, labels, i, q, j, p, k + 1)'
<1>1. PICK b : b = module[i].bodies[j]
  OBVIOUS
<1>2. InCode(lengths, labels, i, q, j) /\ j <= Len(module[i].bodies)
  BY DEF AtInstr
<1>3. /\ phase = "body" /\ ptr < body_end /\ phase' = phase
      /\ file' = file /\ section_end' = section_end /\ before' = before /\ bodies' = bodies
      /\ body_end' = body_end /\ body_before' = body_before /\ dropped' = dropped
  BY PassingKeeps DEF bodyVars
<1>4. /\ i \in 1..Len(module) /\ module[i].id = WASM_SECT_CODE
      /\ j \in 1..(Len(module[i].bodies) + 1) /\ Len(module[i].bodies) \in Nat
  BY <1>2, CodeSection DEF InCode
<1>5. WellFormedBody(b) /\ labels \in Forms
  <2>1. j \in 1..Len(module[i].bodies)
    BY <1>2, <1>4
  <2> QED
    BY <1>1, <1>4, <2>1, CodeSection DEF Valid
<1>6. /\ CodeLiesAt(b, labels, p) /\ k \in 1..(Len(b.code) + 1)
      /\ ptr = At(p, Instrs(b, labels), k)
      /\ (dropped = 0 => body_before = Len(CodeFront(i, j)))
  BY <1>1 DEF AtInstr, InstrAt
<1>7. /\ k \in 1..Len(b.code) /\ InstrHere(b.code[k], labels)
      /\ At(p, Instrs(b, labels), k + 1) = ptr + Len(InstrBytes(b.code[k], labels))
  BY <1>3, <1>5, <1>6, InstrLiesHere
<1>8. Passed(b.code[k], labels) /\ ~Refused(b.code[k])
  BY <1>7, Passes
<1>9. module' = module /\ bytes' = bytes
  BY <1>3, Same
<1>10. InCode(lengths, labels, i, q, j)'
  BY <1>2, <1>3, <1>9, Same DEF InCode, BodiesLie
<1>11. InstrAt(labels, i, j, p, k + 1)'
  <2>1. CodeLiesAt(module[i].bodies[j], labels, p)'
    BY <1>1, <1>3, <1>6, <1>9 DEF CodeLiesAt
  <2>2. k + 1 \in 1..(Len(b.code) + 1)
    <3>1. Len(b.code) \in Nat
      BY <1>5, InstrsAre
    <3> QED
      BY <1>7, <3>1
  <2>3. ptr' = At(p, Instrs(b, labels), k + 1)
    BY <1>7, <1>8 DEF Passed
  <2> QED
    BY <1>1, <1>3, <1>6, <1>9, <2>1, <2>2, <2>3, Same DEF InstrAt
<1>12. Told(CleanSections(i) /\ CleanBodies(module[i], j) /\ CleanCode(b, k), BodyFront(i, j, k))
  BY <1>1 DEF AtInstr
<1>13. dropped' # 0 => \E x \in Instructions' : Refused(x)
  BY <1>3, <1>12, Same DEF Told
<1>14. ASSUME dropped' = 0
       PROVE  /\ CleanSections(i)' /\ CleanBodies(module'[i], j)
              /\ CleanCode(module'[i].bodies[j], k + 1) /\ written' = BodyFront(i, j, k + 1)'
  <2>1. /\ CleanSections(i) /\ CleanBodies(module[i], j) /\ CleanCode(b, k)
        /\ written = BodyFront(i, j, k)
    BY <1>3, <1>12, <1>14 DEF Told
  <2>2. CleanCode(b, k + 1)
    <3>1. \A m \in 1..((k + 1) - 1) : m \in 1..(k - 1) \/ m = k
      BY <1>7
    <3> QED
      BY <1>8, <2>1, <3>1 DEF CleanCode
  <2>3. written' = BodyFront(i, j, k + 1)
    BY <1>1, <1>2, <1>7, <1>8, <2>1, WrittenInstr DEF Passed
  <2> QED
    BY <1>1, <1>3, <1>9, <2>1, <2>2, <2>3, Same
<1>15. Told(CleanSections(i) /\ CleanBodies(module[i], j) /\ CleanCode(module[i].bodies[j], k + 1),
            BodyFront(i, j, k + 1))'
  BY <1>13, <1>14 DEF Told
<1>16. body_end' = BodyAt(module'[i], lengths, labels, q, j + 1)
  BY <1>3, <1>9 DEF AtInstr
<1>17. j <= Len(module'[i].bodies) /\ bodies' = Len(module'[i].bodies) - j
  BY <1>3, <1>9 DEF AtInstr
<1> QED
  BY <1>10, <1>11, <1>15, <1>16, <1>17 DEF AtInstr
-----------------------------------------------------------------------------
\* The steps from body to body.
LEMMA WrittenLen ==
  ASSUME WInv
  PROVE  written \in Seq(Nat) /\ Len(written) = pos
<1>1. PICK p, e : p \in Nat /\ p = pos /\ e = <<>>
  BY Ranges
<1>2. out \in Seq(Nat) /\ p \in 0..Len(out) /\ e \in Seq(Nat)
  BY <1>1, Ranges
<1>3. SubSeq(out, 1, p) \in Seq(Nat) /\ Len(SubSeq(out, 1, p)) = p
  BY <1>2, WrittenParts
<1> QED
  BY <1>1, <1>3 DEF written

\* The parts of the state at a body, and at an instruction of it.
LEMMA InCodeParts ==
  ASSUME NEW lengths, NEW labels, Valid(lengths, labels), NEW i, NEW q, NEW j,
         InCode(lengths, labels, i, q, j)
  PROVE  /\ i \in 1..Len(module) /\ module[i].id = WASM_SECT_CODE
         /\ WellFormedSection(module[i]) /\ Len(module[i].bodies) \in Nat
         /\ j \in 1..(Len(module[i].bodies) + 1) /\ labels \in Forms
         /\ CodeStart(i) \in Seq(Nat)
         /\ CodeDone(module[i], j) \in Seq(Nat) /\ CodeFront(i, j) \in Seq(Nat)
         /\ j <= Len(module[i].bodies) =>
              /\ j \in 1..Len(module[i].bodies)
              /\ j + 1 \in 1..(Len(module[i].bodies) + 1)
              /\ WellFormedBody(module[i].bodies[j])
              /\ Fits(lengths, Len(BodyData(module[i].bodies[j], labels)))
<1>1. i \in 1..Len(module) /\ module[i].id = WASM_SECT_CODE /\ j \in 1..(Len(module[i].bodies) + 1)
  BY DEF InCode
<1>2. WellFormedSection(module[i]) /\ Len(module[i].bodies) \in Nat
  BY <1>1, CodeSection
<1>3. labels \in Forms
  BY DEF Valid
<1>4. /\ CodeStart(i) \in Seq(Nat)
      /\ CodeDone(module[i], j) \in Seq(Nat) /\ CodeFront(i, j) \in Seq(Nat)
  BY <1>1, CodeFronts
<1>5. ASSUME j <= Len(module[i].bodies)
      PROVE  /\ j \in 1..Len(module[i].bodies)
             /\ j + 1 \in 1..(Len(module[i].bodies) + 1)
             /\ WellFormedBody(module[i].bodies[j])
             /\ Fits(lengths, Len(BodyData(module[i].bodies[j], labels)))
  <2>1. j \in 1..Len(module[i].bodies) /\ j + 1 \in 1..(Len(module[i].bodies) + 1)
    BY <1>1, <1>2, <1>5
  <2> QED
    BY <1>1, <2>1, CodeSection
<1> QED
  BY <1>1, <1>2, <1>3, <1>4, <1>5

LEMMA OpenAlong ==
  ASSUME WInv, NEW lengths, NEW labels, Valid(lengths, labels), NEW i, NEW q, NEW j,
         AtBody(lengths, labels, i, q, j), NextBody
  PROVE  (\E p : AtInstr(lengths, labels, i, q, j, p, 1)') /\ body_end' <= end
<1>1. PICK b : b = module[i].bodies[j]
  OBVIOUS
<1>2. /\ phase' = "body" /\ bodies > 0 /\ bodies' = bodies - 1 /\ file' = file
      /\ section_end' = section_end /\ before' = before /\ dropped' = dropped
  BY DEF NextBody
<1>3. /\ InCode(lengths, labels, i, q, j) /\ bodies = (Len(module[i].bodies) + 1) - j
      /\ ptr = BodyAt(module[i], lengths, labels, q, j)
      /\ Told(CleanSections(i) /\ CleanBodies(module[i], j), CodeFront(i, j))
  BY DEF AtBody
<1>4. j <= Len(module[i].bodies) /\ bodies' = Len(module[i].bodies) - j
  <2>1. Len(module[i].bodies) \in Nat /\ j \in 1..(Len(module[i].bodies) + 1)
    BY <1>3, InCodeParts
  <2> QED
    BY <1>2, <1>3, <2>1
<1>5. /\ WellFormedBody(b) /\ labels \in Forms /\ Fits(lengths, Len(BodyData(b, labels)))
  BY <1>1, <1>3, <1>4, InCodeParts
<1>6. PICK stop \in Nat : stop = BodyAt(module[i], lengths, labels, q, j + 1)
  BY <1>3, <1>4, BodyLies
<1>7. /\ LiesIn(bytes, ptr, Sized(lengths, BodyData(b, labels)))
      /\ stop = ptr + Len(Sized(lengths, BodyData(b, labels))) /\ stop <= section_end
  BY <1>1, <1>3, <1>4, <1>6, BodyLies
<1>8. OpenedBody(b, labels, stop)
  BY <1>5, <1>7, BodyRead
<1>9. module' = module /\ bytes' = bytes
  BY <1>2, Same
<1>10. InCode(lengths, labels, i, q, j)'
  BY <1>2, <1>3, <1>9, Same DEF InCode, BodiesLie
<1>11. body_end' = stop /\ stop <= end
  BY <1>7, <1>8, Ranges DEF OpenedBody
<1>12. dropped = 0 =>
         /\ CleanSections(i) /\ CleanBodies(module[i], j)
         /\ written = CodeFront(i, j) /\ written' = BodyFront(i, j, 1)
         /\ body_before' = Len(CodeFront(i, j))
  <2> SUFFICES ASSUME dropped = 0
               PROVE  /\ CleanSections(i) /\ CleanBodies(module[i], j)
                      /\ written = CodeFront(i, j) /\ written' = BodyFront(i, j, 1)
                      /\ body_before' = Len(CodeFront(i, j))
    OBVIOUS
  <2>1. CleanSections(i) /\ CleanBodies(module[i], j) /\ written = CodeFront(i, j)
    BY <1>3 DEF Told
  <2>2. body_before' = Len(CodeFront(i, j))
    BY <1>8, <2>1, WrittenLen DEF OpenedBody
  <2>3. PICK a, x, l : a = CodeFront(i, j) /\ x = EmitLeb5(0) /\ l = LocalsBytes(b.locals)
    OBVIOUS
  <2>4. a \in Seq(Nat) /\ x \in Seq(Nat) /\ l \in Seq(Nat)
    BY <1>3, <1>5, <2>3, InCodeParts, Lebs5, LocalsAre
  <2>5. Emit(x \o l) /\ x \o l \in Seq(Nat)
    BY <1>8, <2>3, <2>4, JoinedLen DEF OpenedBody
  <2>6. written' = a \o (x \o l)
    BY <2>1, <2>3, <2>5, EmitIs
  <2>7. (a \o x) \o l = a \o (x \o l)
    BY <2>4, Assoc
  <2>8. BodyDone(b, 1) = l
    BY <1>5, <2>3, BodyGrows
  <2>9. BodyFront(i, j, 1) = (a \o x) \o l
    BY <1>1, <2>3, <2>8 DEF BodyFront, Opened
  <2> QED
    BY <2>1, <2>2, <2>6, <2>7, <2>9
<1>13. PICK p : p = ptr'
  OBVIOUS
<1>14. InstrAt(labels, i, j, p, 1)'
  <2>1. CodeLiesAt(module[i].bodies[j], labels, p)'
    BY <1>1, <1>8, <1>9, <1>11, <1>13 DEF CodeLiesAt, OpenedBody
  <2>2. PICK n, F : n \in Nat /\ n = Len(b.code) /\ F = Instrs(b, labels) /\ Pieces(F, n)
    BY <1>5, InstrsAre
  <2>3. 1 \in 1..(n + 1)
    BY <2>2
  <2>4. ptr' = At(p, F, 1)
    <3>1. p \in Nat
      BY <1>8, <1>13 DEF OpenedBody
    <3>2. At(p, F, 1) = p
      BY <2>2, <3>1, PlacesAre DEF Places
    <3> QED
      BY <1>13, <3>2
  <2>5. dropped' = 0 => body_before' = Len(CodeFront(i, j)')
    BY <1>2, <1>12, Same
  <2> QED
    BY <1>1, <1>9, <2>1, <2>2, <2>3, <2>4, <2>5 DEF InstrAt
<1>15. CleanCode(b, 1)
  <2>1. \A m \in 1..(1 - 1) : FALSE
    OBVIOUS
  <2> QED
    BY <2>1 DEF CleanCode
<1>16. Told(CleanSections(i) /\ CleanBodies(module[i], j) /\ CleanCode(module[i].bodies[j], 1),
            BodyFront(i, j, 1))'
  <2>1. dropped' # 0 => \E x \in Instructions' : Refused(x)
    BY <1>2, <1>3, Same DEF Told
  <2>2. dropped' = 0 =>
          /\ CleanSections(i)' /\ CleanBodies(module'[i], j)
          /\ CleanCode(module'[i].bodies[j], 1) /\ written' = BodyFront(i, j, 1)'
    BY <1>1, <1>2, <1>9, <1>12, <1>15, Same
  <2> QED
    BY <2>1, <2>2 DEF Told
<1>17. AtInstr(lengths, labels, i, q, j, p, 1)'
  <2>1. body_end' = BodyAt(module'[i], lengths, labels, q, j + 1)
    BY <1>6, <1>9, <1>11
  <2>2. j <= Len(module'[i].bodies) /\ bodies' = Len(module'[i].bodies) - j
    BY <1>4, <1>9
  <2> QED
    BY <1>10, <1>14, <1>16, <2>1, <2>2 DEF AtInstr
<1> QED
  BY <1>11, <1>17

-----------------------------------------------------------------------------
\* Behind the j-th body, however it was left.
LEMMA LeftBody ==
  ASSUME WInv, NEW lengths, NEW labels, Valid(lengths, labels),
         NEW i, NEW q, NEW j, NEW p, NEW k, AtInstr(lengths, labels, i, q, j, p, k),
         ptr' = body_end, UNCHANGED <<file, section_end, before, bodies>>,
         dropped' = 0 => dropped = 0,
         dropped' # 0 => \E x \in Instructions : Refused(x),
         dropped' = 0 => CleanBodies(module[i], j + 1) /\ written' = CodeFront(i, j + 1)
  PROVE  AtBody(lengths, labels, i, q, j + 1)'
<1>1. /\ InCode(lengths, labels, i, q, j) /\ j <= Len(module[i].bodies)
      /\ bodies = Len(module[i].bodies) - j
      /\ body_end = BodyAt(module[i], lengths, labels, q, j + 1)
      /\ Told(CleanSections(i) /\ CleanBodies(module[i], j) /\ CleanCode(module[i].bodies[j], k),
              BodyFront(i, j, k))
  BY DEF AtInstr
<1>2. Len(module[i].bodies) \in Nat /\ j \in Nat /\ j + 1 \in 1..(Len(module[i].bodies) + 1)
  BY <1>1, InCodeParts
<1>3. module' = module /\ bytes' = bytes /\ file' = file
  BY Same
<1>4. InCode(lengths, labels, i, q, j + 1)'
  BY <1>1, <1>2, <1>3, Same DEF InCode, BodiesLie
<1>5. bodies' = (Len(module'[i].bodies) + 1) - (j + 1)
  <2>1. Len(module[i].bodies) - j = (Len(module[i].bodies) + 1) - (j + 1)
    BY <1>2
  <2> QED
    BY <1>1, <1>3, <2>1
<1>6. ptr' = BodyAt(module'[i], lengths, labels, q, j + 1)
  BY <1>1, <1>3
<1>7. Told(CleanSections(i) /\ CleanBodies(module[i], j + 1), CodeFront(i, j + 1))'
  <2>1. dropped' # 0 => \E x \in Instructions' : Refused(x)
    BY <1>3, Same
  <2>2. dropped' = 0 => CleanSections(i)
    BY <1>1 DEF Told
  <2>3. dropped' = 0 =>
          CleanSections(i)' /\ CleanBodies(module'[i], j + 1) /\ written' = CodeFront(i, j + 1)'
    BY <1>3, <2>2, Same
  <2> QED
    BY <2>1, <2>3 DEF Told
<1> QED
  BY <1>4, <1>5, <1>6, <1>7 DEF AtBody

LEMMA RefuseAlong ==
  ASSUME WInv, NEW lengths, NEW labels, Valid(lengths, labels),
         NEW i, NEW q, NEW j, NEW p, NEW k, AtInstr(lengths, labels, i, q, j, p, k), Refuse
  PROVE  AtBody(lengths, labels, i, q, j + 1)'
<1>1. PICK b : b = module[i].bodies[j]
  OBVIOUS
<1>2. /\ ptr < body_end /\ Verdict # 0 /\ ptr' = body_end
      /\ dropped' = (IF dropped = 0 THEN Verdict ELSE dropped)
      /\ UNCHANGED <<file, section_end, before, bodies>>
  BY DEF Refuse, LeaveBody
<1>3. dropped' # 0
  BY <1>2
<1>4. InCode(lengths, labels, i, q, j) /\ j <= Len(module[i].bodies)
  BY DEF AtInstr
<1>5. /\ i \in 1..Len(module) /\ module[i].id = WASM_SECT_CODE /\ j \in 1..Len(module[i].bodies)
      /\ WellFormedBody(b) /\ labels \in Forms
  BY <1>1, <1>4, InCodeParts
<1>6. /\ CodeLiesAt(b, labels, p) /\ k \in 1..(Len(b.code) + 1)
      /\ ptr = At(p, Instrs(b, labels), k)
  BY <1>1 DEF AtInstr, InstrAt
<1>7. k \in 1..Len(b.code) /\ InstrHere(b.code[k], labels)
  BY <1>2, <1>5, <1>6, InstrLiesHere
<1>8. Refused(b.code[k])
  BY <1>2, <1>7, VerdictIs
<1>9. b.code[k] \in Instructions
  BY <1>1, <1>5, <1>7, CodeSection
<1>10. \E x \in Instructions : Refused(x)
  BY <1>8, <1>9
<1> QED
  BY <1>2, <1>3, <1>10, LeftBody

LEMMA CloseAlong ==
  ASSUME WInv, NEW lengths, NEW labels, Valid(lengths, labels),
         NEW i, NEW q, NEW j, NEW p, NEW k, AtInstr(lengths, labels, i, q, j, p, k), EndBody
  PROVE  AtBody(lengths, labels, i, q, j + 1)'
<1>1. PICK b, s : b = s.bodies[j] /\ s = module[i]
  OBVIOUS
<1>2. /\ ptr >= body_end /\ ptr' = body_end /\ EmitPatchedLength(body_before)
      /\ UNCHANGED <<file, section_end, before, bodies>> /\ dropped' = dropped
  BY DEF EndBody, LeaveBody, bodyVars
<1>3. InCode(lengths, labels, i, q, j) /\ j <= Len(s.bodies)
  BY <1>1 DEF AtInstr
<1>4. /\ j \in 1..Len(s.bodies) /\ WellFormedBody(b) /\ labels \in Forms
      /\ WellFormedSection(s) /\ s.id = WASM_SECT_CODE /\ CodeStart(i) \in Seq(Nat)
      /\ CodeDone(s, j) \in Seq(Nat) /\ CodeFront(i, j) \in Seq(Nat)
  BY <1>1, <1>3, InCodeParts
<1>5. /\ CodeLiesAt(b, labels, p) /\ k \in 1..(Len(b.code) + 1)
      /\ ptr = At(p, Instrs(b, labels), k)
      /\ (dropped = 0 => body_before = Len(CodeFront(i, j)))
  BY <1>1 DEF AtInstr, InstrAt
<1>6. k = Len(b.code) + 1
  BY <1>2, <1>4, <1>5, InstrLiesHere
<1>7. Told(CleanSections(i) /\ CleanBodies(s, j) /\ CleanCode(b, k), BodyFront(i, j, k))
  BY <1>1 DEF AtInstr
<1>8. dropped' # 0 => \E x \in Instructions : Refused(x)
  BY <1>2, <1>7 DEF Told
<1>9. ASSUME dropped' = 0
      PROVE  CleanBodies(s, j + 1) /\ written' = CodeFront(i, j + 1)
  <2>1. CleanBodies(s, j) /\ CleanCode(b, k) /\ written = BodyFront(i, j, k)
    BY <1>2, <1>7, <1>9 DEF Told
  <2>2. CleanBodies(s, j + 1)
    <3>1. \A m \in 1..((j + 1) - 1) : m \in 1..(j - 1) \/ m = j
      BY <1>4
    <3> QED
      BY <1>1, <1>6, <2>1, <3>1 DEF CleanBodies
  <2>3. PICK a, c, d, e, y : /\ a = CodeFront(i, j) /\ d = BodyDone(b, k) /\ c = CodeStart(i)
                             /\ e = CodeDone(s, j) /\ y = Sized("leb5", d)
    OBVIOUS
  <2>4. d = BodyData(b, "leb4") /\ d \in Seq(Nat)
    BY <1>4, <1>6, <2>3, BodyGrows, BodyIs DEF Forms
  <2>5. a \in Seq(Nat) /\ c \in Seq(Nat) /\ e \in Seq(Nat) /\ a = Opened(c, e)
    BY <1>1, <1>4, <2>3 DEF CodeFront
  <2>6. written = Opened(a, d) /\ EmitPatchedLength(Len(a))
    BY <1>1, <1>2, <1>5, <1>9, <2>1, <2>3 DEF BodyFront
  <2>7. written' = a \o y
    BY <2>3, <2>4, <2>5, <2>6, PatchIs
  <2>8. y \in Seq(Nat)
    BY <2>3, <2>4, SizedIs DEF Measured
  <2>9. Opened(c, e) \o y = Opened(c, e \o y)
    <3>1. c \in Seq(Nat) /\ e \in Seq(Nat)
      BY <2>5
    <3>2. \A z \in Seq(Nat) : Opened(c, e) \o z = Opened(c, e \o z)
      BY <3>1, OpenedIs
    <3> QED
      BY <2>8, <3>2
  <2>10. CodeDone(s, j + 1) = e \o y
    BY <1>4, <1>1, <2>3, <2>4, CodeGrows
  <2>11. CodeFront(i, j + 1) = Opened(c, e \o y)
    BY <1>1, <2>3, <2>10 DEF CodeFront
  <2> QED
    BY <2>2, <2>5, <2>7, <2>9, <2>11
<1> QED
  BY <1>1, <1>2, <1>8, <1>9, LeftBody
-----------------------------------------------------------------------------
\* The steps from section to section.
LEMMA EndCodeAlong ==
  ASSUME WInv, NEW lengths, NEW labels, Valid(lengths, labels), NEW i, NEW q, NEW j,
         AtBody(lengths, labels, i, q, j), EndCode
  PROVE  AtSection(lengths, labels, i + 1)'
<1>1. PICK s : s = module[i]
  OBVIOUS
<1>2. /\ bodies = 0 /\ ptr' = section_end /\ EmitPatchedLength(before)
      /\ file' = file /\ dropped' = dropped
  BY DEF EndCode, bodyVars
<1>3. /\ InCode(lengths, labels, i, q, j) /\ bodies = (Len(s.bodies) + 1) - j
      /\ Told(CleanSections(i) /\ CleanBodies(s, j), CodeFront(i, j))
      /\ section_end = SecAt(lengths, labels, i + 1)
      /\ dropped = 0 => before = Len(CodeStart(i))
  BY <1>1 DEF AtBody, InCode
<1>4. /\ i \in 1..Len(module) /\ s.id = WASM_SECT_CODE /\ WellFormedSection(s)
      /\ Len(s.bodies) \in Nat /\ j \in 1..(Len(s.bodies) + 1)
      /\ CodeStart(i) \in Seq(Nat) /\ CodeDone(s, j) \in Seq(Nat)
  BY <1>1, <1>3, InCodeParts
<1>5. j = Len(s.bodies) + 1
  BY <1>2, <1>3, <1>4
<1>6. Len(module) \in Nat
  BY SequenceIs DEF Valid
<1>7. i + 1 \in 1..(Len(module') + 1) /\ ptr' = SecAt(lengths, labels, i + 1)'
  BY <1>2, <1>3, <1>4, <1>6, Same
<1>8. ASSUME dropped = 0 PROVE CleanSections(i + 1) /\ written' = FileFront(i + 1)
  <2>1. CleanSections(i) /\ CleanBodies(s, Len(s.bodies) + 1) /\ written = CodeFront(i, j)
    BY <1>3, <1>5, <1>8 DEF Told
  <2>2. CleanSections(i + 1)
    <3>1. \A m \in 1..((i + 1) - 1) : m \in 1..(i - 1) \/ m = i
      BY <1>4, <1>6
    <3> QED
      BY <1>1, <2>1, <3>1 DEF CleanSections
  <2>3. PICK f, c, a, d, y : /\ f = FileFront(i) /\ c = <<WASM_SECT_CODE>> /\ a = f \o c
                             /\ d = CodeData(s, "leb5", "leb4") /\ y = Sized("leb5", d)
    OBVIOUS
  <2>4. CodeStart(i) = a /\ a \in Seq(Nat) /\ CodeDone(s, j) = d /\ d \in Seq(Nat)
    BY <1>4, <1>5, <2>3, CodeGrows DEF CodeStart
  <2>5. written = Opened(a, d) /\ EmitPatchedLength(Len(a))
    BY <1>1, <1>2, <1>3, <1>8, <2>1, <2>4 DEF CodeFront
  <2>6. written' = a \o y
    BY <2>3, <2>4, <2>5, PatchIs
  <2>7. f \in Seq(Nat) /\ c \in Seq(Nat) /\ y \in Seq(Nat)
    <3>1. f \in Seq(Nat)
      BY <1>4, <1>6, <2>3, FrontsGrow
    <3>2. c \in Seq(Nat)
      BY <2>3 DEF WASM_SECT_CODE
    <3> QED
      BY <2>3, <2>4, <3>1, <3>2, SizedIs DEF Measured
  <2>8. (f \o c) \o y = f \o (c \o y)
    BY <2>7, Assoc
  <2>9. SectionBytes(s, "leb5", "leb4") = c \o y
    BY <1>4, <2>3 DEF SectionBytes
  <2>10. FileFront(i + 1) = f \o SectionBytes(s, "leb5", "leb4")
    BY <1>1, <1>4, <2>3, FrontsGrow
  <2> QED
    BY <2>2, <2>3, <2>6, <2>8, <2>9, <2>10
<1>9. Told(CleanSections(i + 1), FileFront(i + 1))'
  <2>1. dropped' # 0 => \E x \in Instructions' : Refused(x)
    BY <1>2, <1>3, Same DEF Told
  <2>2. dropped' = 0 => CleanSections(i + 1)' /\ written' = FileFront(i + 1)'
    BY <1>2, <1>8, Same
  <2> QED
    BY <2>1, <2>2 DEF Told
<1> QED
  BY <1>7, <1>9 DEF AtSection

\* FileFront(i) and a whole section behind it; and the code section opened.
LEMMA WrittenSection ==
  ASSUME WInv, NEW lengths, NEW labels, Valid(lengths, labels), NEW i \in 1..Len(module),
         written = FileFront(i)
  PROVE  /\ module[i].id # WASM_SECT_CODE =>
              (Emit(SectionBytes(module[i], lengths, labels)) => written' = FileFront(i + 1))
         /\ module[i].id = WASM_SECT_CODE =>
              (Emit(<<WASM_SECT_CODE>> \o EmitLeb5(0) \o Form("leb", Len(module[i].bodies)))
                 => written' = CodeFront(i, 1))
         /\ Len(CodeStart(i)) = pos + 1
<1>1. PICK s, f, c : s = module[i] /\ f = FileFront(i) /\ c = <<WASM_SECT_CODE>>
  OBVIOUS
<1>2. Len(module) \in Nat /\ s \in ToSet(module)
  BY <1>1, SequenceIs DEF Valid
<1>3. f \in Seq(Nat) /\ FileFront(i + 1) = f \o SectionBytes(s, "leb5", "leb4")
  BY <1>1, <1>2, FrontsGrow
<1>4. c \in Seq(Nat) /\ Len(c) = 1
  BY <1>1 DEF WASM_SECT_CODE
<1>5. WellFormedSection(s)
  BY <1>2, FileMeasured
<1>6. ASSUME module[i].id # WASM_SECT_CODE, Emit(SectionBytes(module[i], lengths, labels))
      PROVE  written' = FileFront(i + 1)
  <2>1. PICK y : y = s.raw
    OBVIOUS
  <2>2. SectionBytes(s, lengths, labels) = y /\ SectionBytes(s, "leb5", "leb4") = y
    BY <1>1, <1>6, <2>1 DEF SectionBytes
  <2>3. y \in Seq(Nat)
    BY <1>1, <1>5, <1>6, <2>1 DEF WellFormedSection
  <2>4. written' = written \o y
    BY <1>1, <1>6, <2>2, <2>3, EmitIs
  <2> QED
    BY <1>1, <1>3, <2>2, <2>4
<1>7. ASSUME module[i].id = WASM_SECT_CODE,
             Emit(<<WASM_SECT_CODE>> \o EmitLeb5(0) \o Form("leb", Len(module[i].bodies)))
      PROVE  written' = CodeFront(i, 1)
  <2>1. PICK x, d : x = EmitLeb5(0) /\ d = Form("leb", Len(s.bodies))
    OBVIOUS
  <2>2. x \in Seq(Nat)
    BY <2>1, Lebs5
  <2>3. CodeDone(s, 1) = d
    BY <1>1, <1>5, <1>7, <2>1, CodeGrows
  <2>4. d \in Seq(Nat)
    <3>1. BodiesMeasured(s, lengths, labels)
      BY <1>1, <1>7, CodeSection
    <3> QED
      BY <1>1, <1>5, <1>7, <2>1, <3>1, CodeIs
  <2>5. PICK u, v : u = c \o x /\ v = u \o d
    OBVIOUS
  <2>6. u \in Seq(Nat) /\ v \in Seq(Nat)
    BY <1>4, <2>2, <2>4, <2>5, JoinedLen
  <2>7. Emit(v)
    BY <1>1, <1>7, <2>1, <2>5
  <2>8. written' = f \o v
    BY <1>1, <2>6, <2>7, EmitIs
  <2>9. f \o v = (f \o u) \o d
    BY <1>3, <2>4, <2>5, <2>6, Assoc
  <2>10. f \o u = (f \o c) \o x
    BY <1>3, <1>4, <2>2, <2>5, Assoc
  <2>11. CodeFront(i, 1) = ((f \o c) \o x) \o d
    BY <1>1, <2>1, <2>3 DEF CodeFront, CodeStart, Opened
  <2> QED
    BY <2>8, <2>9, <2>10, <2>11
<1>8. Len(CodeStart(i)) = pos + 1
  <2>1. Len(f) = pos
    BY <1>1, WrittenLen
  <2>2. Len(f \o c) = Len(f) + Len(c)
    BY <1>3, <1>4, JoinedLen
  <2>3. CodeStart(i) = f \o c
    BY <1>1 DEF CodeStart
  <2> QED
    BY <1>4, <2>1, <2>2, <2>3
<1> QED
  BY <1>6, <1>7, <1>8
-----------------------------------------------------------------------------
LEMMA HeaderAlong ==
  ASSUME WInv, NEW lengths, NEW labels, Valid(lengths, labels), pos = 0, dropped = 0, CheckHeader
  PROVE  Along(lengths, labels)'
<1>1. file' = file /\ dropped' = dropped
  BY DEF CheckHeader
<1>2. CASE file.truncated /\ phase' = "returned"
  <2>1. file.truncated'
    BY <1>1, <1>2
  <2> QED
    BY <1>2, <2>1 DEF Along
<1>3. CASE Entered
  <2>1. Emit(Header) /\ ptr' = 9 /\ phase' = "section"
    BY <1>3 DEF Entered
  <2>2. written' = Header
    <3>1. PICK w, h : w = written /\ h = Header
      OBVIOUS
    <3>2. w \in Seq(Nat) /\ Len(w) = 0 /\ h \in Seq(Nat)
      BY <3>1, WrittenLen, HeaderSeq
    <3>3. w = <<>>
      BY <3>2
    <3>4. written' = w \o h
      BY <2>1, <3>1, <3>2, EmitIs
    <3>5. <<>> \o h = h
      BY <3>2, EmptyJoin
    <3> QED
      BY <3>1, <3>3, <3>4, <3>5
  <2>3. Len(module) \in Nat
    BY SequenceIs DEF Valid
  <2>4. FileFront(1) = Header /\ SecAt(lengths, labels, 1) = 9
    BY FrontsGrow, Ranges, SecPlaces
  <2>5. CleanSections(1)
    <3>1. \A m \in 1..(1 - 1) : FALSE
      OBVIOUS
    <3> QED
      BY <3>1 DEF CleanSections
  <2>6. Told(CleanSections(1), FileFront(1))'
    BY <1>1, <2>2, <2>4, <2>5, Same DEF Told
  <2>7. 1 \in 1..(Len(module') + 1) /\ ptr' = SecAt(lengths, labels, 1)'
    BY <1>1, <2>1, <2>3, <2>4, Same
  <2>8. AtSection(lengths, labels, 1)'
    BY <2>6, <2>7 DEF AtSection
  <2> QED
    BY <2>1, <2>8 DEF Along
<1> QED
  BY <1>2, <1>3, HeaderRead

LEMMA SectionAlong ==
  ASSUME WInv, NEW lengths, NEW labels, Valid(lengths, labels), NEW i,
         AtSection(lengths, labels, i), NextSection
  PROVE  Along(lengths, labels)'
<1>1. /\ i \in 1..(Len(module) + 1) /\ ptr = SecAt(lengths, labels, i)
      /\ Told(CleanSections(i), FileFront(i))
  BY DEF AtSection
<1>2. file' = file /\ dropped' = dropped
  BY DEF NextSection
<1>3. /\ i \in 1..Len(module)
      /\ GivenUp \/ CopiedSection(lengths, labels, i) \/ OpenedCode(lengths, labels, i)
  BY <1>1, SectionRead
<1>4. Len(module) \in Nat
  BY SequenceIs DEF Valid
<1>5. module' = module /\ bytes' = bytes /\ end' = end /\ file.truncated' = file.truncated
  BY <1>2, Same
<1>6. dropped' # 0 => \E x \in Instructions' : Refused(x)
  BY <1>1, <1>2, Same DEF Told
<1>7. dropped = 0 => CleanSections(i) /\ written = FileFront(i)
  BY <1>1 DEF Told
<1>8. CASE GivenUp
  BY <1>5, <1>8 DEF GivenUp, Along
<1>9. CASE CopiedSection(lengths, labels, i)
  <2>1. phase' = "section" /\ module[i].id # WASM_SECT_CODE
    BY <1>9 DEF CopiedSection
  <2>2. CASE LostIn
    BY <1>5, <2>1, <2>2 DEF LostIn, Along
  <2>3. CASE /\ Emit(SectionBytes(module[i], lengths, labels))
             /\ ptr' = SecAt(lengths, labels, i + 1)
    <3>1. dropped' = 0 => CleanSections(i + 1)' /\ written' = FileFront(i + 1)'
      <4>1. \A m \in 1..((i + 1) - 1) : m \in 1..(i - 1) \/ m = i
        BY <1>3, <1>4
      <4>2. CleanSections(i) => CleanSections(i + 1)
        BY <2>1, <4>1 DEF CleanSections
      <4>3. written = FileFront(i) => written' = FileFront(i + 1)
        BY <1>3, <2>1, <2>3, WrittenSection
      <4> QED
        BY <1>2, <1>7, <4>2, <4>3, Same
    <3>2. Told(CleanSections(i + 1), FileFront(i + 1))'
      BY <1>6, <3>1 DEF Told
    <3>3. i + 1 \in 1..(Len(module') + 1) /\ ptr' = SecAt(lengths, labels, i + 1)'
      BY <1>2, <1>3, <1>4, <2>3, Same
    <3>4. AtSection(lengths, labels, i + 1)'
      BY <3>2, <3>3 DEF AtSection
    <3> QED
      BY <2>1, <3>4 DEF Along
  <2> QED
    BY <1>9, <2>2, <2>3 DEF CopiedSection
<1>10. CASE OpenedCode(lengths, labels, i)
  <2>1. phase' = "code" /\ module[i].id = WASM_SECT_CODE
    BY <1>10 DEF OpenedCode
  <2>2. CASE LostIn /\ section_end' = end /\ bodies' = 0
    BY <1>5, <2>1, <2>2 DEF LostIn, Along
  <2>3. CASE ~(LostIn /\ section_end' = end /\ bodies' = 0)
    <3>1. PICK q :
            /\ Emit(<<WASM_SECT_CODE>> \o EmitLeb5(0) \o Form("leb", Len(module[i].bodies)))
            /\ bodies' = Len(module[i].bodies) /\ before' = pos + 1
            /\ section_end' = SecAt(lengths, labels, i + 1)
            /\ BodiesLie(module[i], lengths, labels, q) /\ ptr' = q
            /\ section_end' = BodyAt(module[i], lengths, labels, q, Len(module[i].bodies) + 1)
      BY <1>10, <2>3, Zenon DEF OpenedCode
    <3>2. Len(module[i].bodies) \in Nat
      BY <1>3, <2>1, CodeSection
    <3>3. dropped = 0 =>
            /\ CleanSections(i) /\ written' = CodeFront(i, 1) /\ before' = Len(CodeStart(i))
      <4> SUFFICES ASSUME dropped = 0
                   PROVE  /\ CleanSections(i) /\ written' = CodeFront(i, 1)
                          /\ before' = Len(CodeStart(i))
        OBVIOUS
      <4>1. CleanSections(i) /\ written = FileFront(i)
        BY <1>7
      <4>2. Emit(<<WASM_SECT_CODE>> \o EmitLeb5(0) \o Form("leb", Len(module[i].bodies)))
        BY <3>1
      <4>3. written' = CodeFront(i, 1)
        BY <1>3, <2>1, <4>1, <4>2, WrittenSection
      <4>4. Len(CodeStart(i)) = pos + 1
        BY <1>3, <4>1, WrittenSection
      <4> QED
        BY <3>1, <4>1, <4>3, <4>4
    <3>4. InCode(lengths, labels, i, q, 1)'
      <4>1. BodiesLie(module[i], lengths, labels, q)'
        BY <1>5, <3>1 DEF BodiesLie
      <4>2. 1 \in 1..(Len(module[i].bodies) + 1)
        BY <3>2
      <4>3. dropped' = 0 => before' = Len(CodeStart(i)')
        BY <1>2, <3>3, Same
      <4>4. section_end' = SecAt(lengths, labels, i + 1)'
        BY <1>2, <3>1, Same
      <4> QED
        BY <1>3, <1>5, <2>1, <3>1, <4>1, <4>2, <4>3, <4>4 DEF InCode
    <3>5. CleanBodies(module[i], 1)
      <4>1. \A m \in 1..(1 - 1) : FALSE
        OBVIOUS
      <4> QED
        BY <4>1 DEF CleanBodies
    <3>6. Told(CleanSections(i) /\ CleanBodies(module[i], 1), CodeFront(i, 1))'
      <4>1. dropped' = 0 =>
              CleanSections(i)' /\ CleanBodies(module'[i], 1) /\ written' = CodeFront(i, 1)'
        BY <1>2, <1>5, <3>3, <3>5, Same
      <4> QED
        BY <1>6, <4>1 DEF Told
    <3>7. bodies' = (Len(module'[i].bodies) + 1) - 1
      BY <1>5, <3>1, <3>2
    <3>8. ptr' = BodyAt(module'[i], lengths, labels, q, 1)
      <4>1. PICK s : s = module[i]
        OBVIOUS
      <4>2. WellFormedSection(s) /\ BodiesMeasured(s, lengths, labels) /\ s.id = WASM_SECT_CODE
        BY <1>3, <2>1, <4>1, CodeSection
      <4>3. Pieces(BodyForms(s, lengths, labels), Len(s.bodies))
        BY <4>2, BodiesAre
      <4>4. q \in Nat
        BY <3>1 DEF BodiesLie
      <4>5. BodyAt(s, lengths, labels, q, 1) = q
        BY <4>3, <4>4, PlacesAre DEF Places, BodyAt
      <4> QED
        BY <1>5, <3>1, <4>1, <4>5
    <3>9. AtBody(lengths, labels, i, q, 1)'
      BY <3>4, <3>6, <3>7, <3>8 DEF AtBody
    <3> QED
      BY <2>1, <3>9 DEF Along
  <2> QED
    BY <2>2, <2>3
<1> QED
  BY <1>3, <1>8, <1>9, <1>10

\* The file ends behind the last section.
LEMMA EndAlong ==
  ASSUME WInv, NEW lengths, NEW labels, Valid(lengths, labels), NEW i,
         AtSection(lengths, labels, i), EndModule
  PROVE  Along(lengths, labels)'
<1>1. /\ i \in 1..(Len(module) + 1) /\ ptr = SecAt(lengths, labels, i)
      /\ Told(CleanSections(i), FileFront(i))
  BY DEF AtSection
<1>2. /\ ptr >= end /\ phase' = "returned"
      /\ file' = file /\ dropped' = dropped /\ out' = out /\ pos' = pos
  BY DEF EndModule, Return
<1>3. CASE file.truncated
  <2>1. file.truncated'
    BY <1>2, <1>3
  <2> QED
    BY <1>2, <2>1 DEF Along
<1>4. CASE ~file.truncated
  <2>1. end = SecAt(lengths, labels, Len(module) + 1)
    BY <1>4, Ranges, FilePlacesAre DEF FilePlaces
  <2>2. i = Len(module) + 1
    <3>1. Len(module) \in Nat
      BY SequenceIs DEF Valid
    <3>2. ASSUME i \in 1..Len(module) PROVE FALSE
      <4>1. /\ SecAt(lengths, labels, i) \in Nat /\ SecAt(lengths, labels, i + 1) \in Nat
            /\ SecAt(lengths, labels, i + 1) <= SecAt(lengths, labels, Len(module) + 1)
        BY <3>1, <3>2, Ranges, SecPlaces, SMTT(60)
      <4>2. PICK l \in Nat : l = Len(SectionBytes(module[i], lengths, labels))
        BY <3>2, Ranges, SecPlaces
      <4>3. SecAt(lengths, labels, i + 1) = SecAt(lengths, labels, i) + l
        BY <3>2, <4>2, Ranges, SecPlaces
      <4>4. l >= 2
        <5>1. /\ Sequence(module) /\ \A s \in ToSet(module) : WellFormedSection(s)
              /\ \A s \in ToSet(module) : CodeMeasured(s, lengths, labels)
          BY FileMeasured DEF Valid
        <5>2. PICK m : m = module
          OBVIOUS
        <5>3. \A k \in 1..Len(m) : /\ Sects(m, lengths, labels)[k] = SectionBytes(m[k], lengths, labels)
                                   /\ Len(Sects(m, lengths, labels)[k]) >= 2
          BY <5>1, <5>2, SectsAre
        <5> QED
          BY <3>2, <4>2, <5>2, <5>3
      <4> QED
        BY <1>1, <1>2, <2>1, <4>1, <4>3, <4>4, Ranges
    <3> QED
      BY <1>1, <3>1, <3>2
  <2>3. FileFront(i) = Padded
    BY <2>2, FrontsGrow
  <2>4. Told(CleanSections(i), Padded)'
    <3>1. dropped' # 0 => \E x \in Instructions' : Refused(x)
      BY <1>1, <1>2, Same DEF Told
    <3>2. written' = written
      BY <1>2 DEF written
    <3>3. dropped' = 0 => CleanSections(i) /\ written' = Padded
      BY <1>1, <1>2, <2>3, <3>2 DEF Told
    <3>4. dropped' = 0 => CleanSections(i)' /\ written' = Padded'
      BY <1>2, <3>3, Same
    <3> QED
      BY <3>1, <3>4 DEF Told
  <2>5. Finished'
    <3>1. i = Len(module') + 1
      BY <1>2, <2>2, Same
    <3> QED
      BY <2>4, <3>1 DEF Finished
  <2> QED
    BY <1>2, <2>5 DEF Along
<1> QED
  BY <1>3, <1>4
-----------------------------------------------------------------------------
LEMMA StayAlong ==
  ASSUME NEW lengths, NEW labels, Along(lengths, labels), UNCHANGED vars
  PROVE  Along(lengths, labels)'
<1>1. UNCHANGED <<file, out, pos, phase, ptr, section_end, bodies, body_end, before,
                  body_before, dropped, result, exit_code>>
  BY DEF vars, inputVars
<1>2. module' = module /\ bytes' = bytes /\ end' = end /\ written' = written
  BY <1>1, Same DEF written
<1>3. \A clean, w : Told(clean, w) => Told(clean, w)'
  BY <1>1, <1>2, Same DEF Told
<1>4. \A i : AtSection(lengths, labels, i) => AtSection(lengths, labels, i)'
  BY <1>1, <1>2, Same DEF AtSection, Told
<1>5. \A i, q, j : InCode(lengths, labels, i, q, j) => InCode(lengths, labels, i, q, j)'
  BY <1>1, <1>2, Same DEF InCode, BodiesLie
<1>6. \A i, q, j : AtBody(lengths, labels, i, q, j) => AtBody(lengths, labels, i, q, j)'
  BY <1>1, <1>2, <1>5, Same DEF AtBody, Told
<1>7. \A i, q, j, p, k :
        AtInstr(lengths, labels, i, q, j, p, k) => AtInstr(lengths, labels, i, q, j, p, k)'
  BY <1>1, <1>2, <1>5, Same DEF AtInstr, InstrAt, CodeLiesAt, Told
<1>8. Finished => Finished'
  BY <1>1, <1>2, Same DEF Finished, Told
<1> QED
  BY <1>1, <1>2, <1>4, <1>6, <1>7, <1>8 DEF Along

LEMMA ExitAlong ==
  ASSUME NEW lengths, NEW labels, Along(lengths, labels), Exit
  PROVE  Along(lengths, labels)'
<1>1. /\ phase = "returned" /\ phase' = "exit" /\ file' = file /\ dropped' = dropped
      /\ out' = out /\ pos' = pos
  BY DEF Exit
<1>2. file.truncated \/ Finished
  BY <1>1 DEF Along
<1>3. written' = written /\ module' = module /\ file.truncated' = file.truncated
  BY <1>1, Same DEF written
<1>4. Finished => Finished'
  BY <1>1, <1>3, Same DEF Finished, Told
<1> QED
  BY <1>1, <1>2, <1>3, <1>4 DEF Along

\* In a body.
LEMMA BodyAlong ==
  ASSUME WInv, NEW lengths, NEW labels, Valid(lengths, labels), Along(lengths, labels),
         phase = "body", Refuse \/ Passing \/ EndBody
  PROVE  Along(lengths, labels)'
<1>1. PICK i, q, j, p, k : AtInstr(lengths, labels, i, q, j, p, k)
  BY DEF Along
<1>2. CASE Refuse
  <2>1. AtBody(lengths, labels, i, q, j + 1)' /\ phase' = "code"
    BY <1>1, <1>2, RefuseAlong DEF Refuse, LeaveBody
  <2> QED
    BY <2>1 DEF Along
<1>3. CASE Passing
  <2>1. AtInstr(lengths, labels, i, q, j, p, k + 1)' /\ phase' = "body"
    BY <1>1, <1>3, PassAlong, PassingKeeps
  <2> QED
    BY <2>1 DEF Along
<1>4. CASE EndBody
  <2>1. AtBody(lengths, labels, i, q, j + 1)' /\ phase' = "code"
    BY <1>1, <1>4, CloseAlong DEF EndBody, LeaveBody
  <2> QED
    BY <2>1 DEF Along
<1> QED
  BY <1>2, <1>3, <1>4

\* Between bodies.
LEMMA CodeAlong ==
  ASSUME WInv, NEW lengths, NEW labels, Valid(lengths, labels), Along(lengths, labels),
         phase = "code", NextBody \/ EndCode
  PROVE  Along(lengths, labels)' /\ (NextBody => body_end' <= end)
<1>1. CASE file.truncated /\ bodies = 0 /\ section_end = end
  <2>1. EndCode /\ ~NextBody
    BY <1>1 DEF NextBody
  <2>2. phase' = "section" /\ ptr' = section_end /\ file' = file
    BY <2>1 DEF EndCode, bodyVars
  <2>3. file.truncated' /\ ptr' = end'
    BY <1>1, <2>2, Same
  <2> QED
    BY <2>1, <2>2, <2>3 DEF Along
<1>2. CASE \E i, q, j : AtBody(lengths, labels, i, q, j)
  <2>1. PICK i, q, j : AtBody(lengths, labels, i, q, j)
    BY <1>2
  <2>2. CASE NextBody
    <3>1. (\E p : AtInstr(lengths, labels, i, q, j, p, 1)') /\ body_end' <= end
      BY <2>1, <2>2, OpenAlong
    <3>2. phase' = "body"
      BY <2>2 DEF NextBody
    <3> QED
      BY <3>1, <3>2 DEF Along
  <2>3. CASE EndCode
    <3>1. AtSection(lengths, labels, i + 1)'
      BY <2>1, <2>3, EndCodeAlong
    <3>2. phase' = "section" /\ bodies = 0
      BY <2>3 DEF EndCode
    <3>3. ~NextBody
      BY <3>2 DEF NextBody
    <3> QED
      BY <3>1, <3>2, <3>3 DEF Along
  <2> QED
    BY <2>2, <2>3
<1> QED
  BY <1>1, <1>2 DEF Along

\* Between sections.
LEMMA SectionsAlong ==
  ASSUME WInv, NEW lengths, NEW labels, Valid(lengths, labels), Along(lengths, labels),
         phase = "section", NextSection \/ EndModule
  PROVE  Along(lengths, labels)'
<1>1. CASE file.truncated /\ ptr = end
  <2>1. EndModule
    <3>1. ~(ptr < end)
      BY <1>1, Ranges
    <3> QED
      BY <3>1 DEF NextSection
  <2>2. phase' = "returned" /\ file' = file
    BY <2>1 DEF EndModule, Return
  <2>3. file.truncated'
    BY <1>1, <2>2
  <2> QED
    BY <2>2, <2>3 DEF Along
<1>2. CASE \E i : AtSection(lengths, labels, i)
  BY <1>2, SectionAlong, EndAlong
<1> QED
  BY <1>1, <1>2 DEF Along

LEMMA AlongStep ==
  ASSUME WInv, NEW lengths, NEW labels, Valid(lengths, labels), Along(lengths, labels),
         [Next]_vars
  PROVE  /\ Along(lengths, labels)' /\ Valid(lengths, labels)'
         /\ BodiesFit'
<1>1. file' = file
  BY DEF Next, Step, Done, vars, inputVars, CheckHeader, NextSection, NextBody, Refuse,
         TransformLabel, TransformLabels, TransformOther, EndBody, EndCode, EndModule, Exit,
         bodyVars
<1>2. Valid(lengths, labels)' /\ end' = end
  BY <1>1, Same
<1>3. ASSUME body_end' = body_end PROVE BodiesFit'
  BY <1>2, <1>3, Ranges DEF BodiesFit
<1>4. ASSUME UNCHANGED vars PROVE Along(lengths, labels)' /\ BodiesFit'
  <2>1. body_end' = body_end
    BY <1>4 DEF vars, inputVars
  <2> QED
    BY <1>3, <1>4, <2>1, StayAlong
<1>5. ASSUME CheckHeader PROVE Along(lengths, labels)' /\ BodiesFit'
  <2>1. phase = "header" /\ body_end' = body_end
    BY <1>5 DEF CheckHeader
  <2>2. pos = 0 /\ dropped = 0
    BY <2>1 DEF Along
  <2> QED
    BY <1>3, <1>5, <2>1, <2>2, HeaderAlong
<1>6. ASSUME NextSection \/ EndModule PROVE Along(lengths, labels)' /\ BodiesFit'
  <2>1. phase = "section" /\ body_end' = body_end
    BY <1>6 DEF NextSection, EndModule, inputVars
  <2> QED
    BY <1>3, <1>6, <2>1, SectionsAlong
<1>7. ASSUME NextBody PROVE Along(lengths, labels)' /\ BodiesFit'
  <2>1. phase = "code"
    BY <1>7 DEF NextBody
  <2>2. Along(lengths, labels)' /\ body_end' <= end
    BY <1>7, <2>1, CodeAlong
  <2> QED
    BY <1>2, <2>2 DEF BodiesFit
<1>8. ASSUME EndCode PROVE Along(lengths, labels)' /\ BodiesFit'
  <2>1. phase = "code" /\ body_end' = body_end
    BY <1>8 DEF EndCode, bodyVars
  <2> QED
    BY <1>3, <1>8, <2>1, CodeAlong
<1>9. ASSUME Refuse \/ Passing \/ EndBody PROVE Along(lengths, labels)' /\ BodiesFit'
  <2>1. phase = "body"
    BY <1>9, PassingKeeps DEF Refuse, EndBody
  <2>2. body_end' = body_end
    BY <1>9, PassingKeeps DEF Refuse, EndBody, bodyVars
  <2> QED
    BY <1>3, <1>9, <2>1, <2>2, BodyAlong
<1>10. ASSUME Exit PROVE Along(lengths, labels)' /\ BodiesFit'
  <2>1. body_end' = body_end
    BY <1>10 DEF Exit, inputVars
  <2> QED
    BY <1>3, <1>10, <2>1, ExitAlong
<1>11. Along(lengths, labels)' /\ BodiesFit'
  BY <1>4, <1>5, <1>6, <1>7, <1>8, <1>9, <1>10, Zenon DEF Next, Step, Done, Passing
<1> QED
  BY <1>2, <1>11

\* The file encodes a module, weeify is somewhere in it, and has written what
\* is behind.
WholeInv == WInv /\ \E lengths, labels : Valid(lengths, labels) /\ Along(lengths, labels)

LEMMA WholeInvariant == Spec => []WholeInv
<1>1. Init => WholeInv
  <2> SUFFICES ASSUME Init PROVE WholeInv
    OBVIOUS
  <2>1. PICK lengths, labels : Valid(lengths, labels)
    BY ValidExists DEF Init
  <2>2. Along(lengths, labels)
    BY DEF Init, Along
  <2> QED
    BY <2>1, <2>2, RewriterInit DEF WholeInv
<1>2. WholeInv /\ [Next]_vars => WholeInv'
  <2> SUFFICES ASSUME WholeInv, [Next]_vars PROVE WholeInv'
    OBVIOUS
  <2>1. PICK lengths, labels : Valid(lengths, labels) /\ Along(lengths, labels)
    BY DEF WholeInv
  <2>2. WInv
    BY DEF WholeInv
  <2>3. Along(lengths, labels)' /\ Valid(lengths, labels)' /\ BodiesFit'
    BY <2>1, <2>2, AlongStep
  <2>4. WInv'
    BY <2>2, <2>3, RewriterStep DEF StepKeeps
  <2> QED
    BY <2>3, <2>4 DEF WholeInv
<1> QED
  BY <1>1, <1>2, PTL DEF Spec

\* If no section, body and code has an instruction to be refused, the module
\* has none.
LEMMA CleanAll ==
  ASSUME NEW lengths, NEW labels, Valid(lengths, labels), NEW n, n = Len(module) + 1,
         CleanSections(n), NEW x \in Instructions
  PROVE  ~Refused(x)
<1>1. Len(module) \in Nat
  BY SequenceIs DEF Valid
<1>2. PICK T : T = {t \in ToSet(file.module) : t.id = WASM_SECT_CODE}
  OBVIOUS
<1>3. Instructions = UNION {UNION {ToSet(c.code) : c \in ToSet(t.bodies)} : t \in T}
  BY <1>2 DEF Instructions
<1>4. PICK s \in T : x \in UNION {ToSet(c.code) : c \in ToSet(s.bodies)}
  BY <1>3
<1>5. s \in ToSet(module) /\ s.id = WASM_SECT_CODE
  BY <1>2, <1>4 DEF module
<1>6. PICK b \in ToSet(s.bodies) : x \in ToSet(b.code)
  BY <1>4
<1>7. PICK i \in 1..Len(module) : s = module[i]
  BY <1>5 DEF ToSet
<1>8. PICK j \in 1..Len(s.bodies) : b = s.bodies[j]
  BY <1>6 DEF ToSet
<1>9. PICK k \in 1..Len(b.code) : x = b.code[k]
  BY <1>6 DEF ToSet
<1>10. i \in 1..(n - 1)
  BY <1>1, <1>7
<1>11. CleanBodies(s, Len(s.bodies) + 1)
  BY <1>5, <1>7, <1>10 DEF CleanSections
<1>12. j \in 1..((Len(s.bodies) + 1) - 1) /\ k \in 1..((Len(b.code) + 1) - 1)
  <2>1. Len(s.bodies) \in Nat /\ Len(b.code) \in Nat
    BY <1>1, <1>5, <1>7, <1>8, CodeSection, SequenceIs DEF WellFormedBody
  <2> QED
    BY <2>1
<1>13. CleanCode(b, Len(b.code) + 1)
  BY <1>8, <1>11, <1>12 DEF CleanBodies
<1> QED
  BY <1>9, <1>12, <1>13 DEF CleanCode

\* The end of a pass over a whole module.
LEMMA AtExit ==
  ASSUME WholeInv, phase = "exit", ~file.truncated
  PROVE  /\ dropped # 0 => \E x \in Instructions : Refused(x)
         /\ dropped = 0 => (\A x \in Instructions : ~Refused(x)) /\ written = Padded
<1>1. PICK lengths, labels : Valid(lengths, labels) /\ Along(lengths, labels)
  BY DEF WholeInv
<1>2. Finished
  BY <1>1 DEF Along
<1>3. PICK n : n = Len(module) + 1 /\ Told(CleanSections(n), Padded)
  BY <1>2 DEF Finished
<1>4. ASSUME dropped = 0, NEW x \in Instructions PROVE ~Refused(x)
  BY <1>1, <1>3, <1>4, CleanAll DEF Told
<1> QED
  BY <1>3, <1>4 DEF Told

\* Of every file of Files, which hold modules or the first bytes of them, every
\* pointer of weeify stays in the file and every place a length is reserved at
\* in what has been written: bodies fit, though the code does not check it.
THEOREM RewriterTypeCorrect == Spec => []TypeOK
<1>1. WholeInv => TypeOK
  BY DEF WholeInv, WInv
<1> QED
  BY <1>1, WholeInvariant, PTL

LEMMA BodiesAlwaysFit == Spec => []BodiesFit
<1>1. WholeInv => BodiesFit
  BY Ranges DEF WholeInv, BodiesFit
<1> QED
  BY <1>1, WholeInvariant, PTL

\* Of these files, no byte once written changes, but those of a length that was
\* reserved.
THEOREM PatchesStay == Spec => PatchesOnlyLengths
  BY BodiesAlwaysFit, PatchesStayInLengths, PTL

\* The output of the pass over a whole module of Wee-O-Wasm, whatever form its
\* lengths and labels have: the same module, with lengths of five and labels of
\* four bytes.
THEOREM WritesPadded == Spec => []OutputIsPadded
<1>1. WholeInv => OutputIsPadded
  BY AtExit DEF OutputIsPadded, Acceptable, written
<1> QED
  BY <1>1, WholeInvariant, PTL

\* What passes weeify is what run() can jump to, with immediates that Wee-O-Wasm
\* has; a body is given up only for what illegal.h lists or run() cannot jump to,
\* or for an immediate Wee-O-Wasm has not: of every whole module, whatever else is
\* in it and in whatever form.
THEOREM RefusesWhatItShould == Spec => []RefusesRightly
<1>1. WholeInv => RefusesRightly
  <2> SUFFICES ASSUME WholeInv, phase = "exit", ~file.truncated
               PROVE  /\ dropped = 0 =>
                            \A j \in Instructions : j.op \in JumpTable /\ ~j.odd
                      /\ dropped # 0 =>
                            \E j \in Instructions :
                              j.op \in IllegalHeader \/ j.op \notin JumpTable \/ j.odd
    BY DEF RefusesRightly
  <2>1. ASSUME dropped = 0, NEW j \in Instructions PROVE j.op \in JumpTable /\ ~j.odd
    <3>1. ~Refused(j)
      BY <2>1, AtExit
    <3> QED
      BY <3>1, TablesAgree DEF Refused
  <2>2. ASSUME dropped # 0
        PROVE  \E j \in Instructions :
                 j.op \in IllegalHeader \/ j.op \notin JumpTable \/ j.odd
    <3>1. PICK j \in Instructions : Refused(j)
      BY <2>2, AtExit
    <3>2. j.op \in IllegalHeader \/ j.op \notin JumpTable \/ j.odd
      BY <3>1, TablesAgree DEF Refused
    <3> QED
      BY <3>2
  <2> QED
    BY <2>1, <2>2
<1> QED
  BY <1>1, WholeInvariant, PTL
=============================================================================
